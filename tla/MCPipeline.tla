----------------------------- MODULE MCPipeline -----------------------------
(* Small instances of the scan pipeline.                                     *)
EXTENDS ScanPipeline, TLC

CONSTANTS leak, smell   \* a hard-coded credential and a low finding of an LLM

MCSeverity == [f \in Findings |-> IF f = leak THEN "critical" ELSE "low"]

MCScore == [K \in SUBSET Findings |-> (IF leak \in K THEN 35 ELSE 0) + IF smell \in K THEN 5 ELSE 0]

(* The even heads carry the credential: the second commit adds it, the third  *)
(* removes it.                                                                *)
MCDiff == [p \in PRs |-> [h \in Heads |-> IF h % 2 = 0 THEN Findings ELSE Findings \ {leak}]]

MCCertain == [p \in PRs |-> [h \in Heads |-> IF h % 2 = 0 THEN Findings \cap {leak} ELSE {}]]

(* Every finding has a fingerprint of its own, or all share one.              *)
MCPrints == Findings
MCPrintOf == [f \in Findings |-> f]
MCOnePrint == [f \in Findings |-> leak]

Symmetric == Permutations(Scans) \cup Permutations(Deliveries)
=============================================================================
