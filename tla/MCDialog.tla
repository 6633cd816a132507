------------------------------- MODULE MCDialog -------------------------------
(* Small instances of the dialog: one repository, whose first thread is about   *)
(* a finding and whose second is not.                                         *)
EXTENDS Dialog, TLC

CONSTANTS t1, t2, g1, g2, k1

MCThreads == {t1, t2}
MCPatterns == {g1, g2}
MCPrintIn == [t \in Threads |-> IF t = t1 THEN k1 ELSE None]
=============================================================================
