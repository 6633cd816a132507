------------------------------ MODULE MCService ------------------------------
(* Small instances of the composed scan path.  One finding, a hard-coded      *)
(* credential that the even heads carry.                                       *)
EXTENDS ScanService, TLC

MCSeverity == [f \in Findings |-> "critical"]

MCScore == [K \in SUBSET Findings |-> 35 * Cardinality(K)]

MCDiff == [p \in PRs |-> [h \in Heads |-> IF h % 2 = 0 THEN Findings ELSE {}]]

MCPrints == Findings
MCPrintOf == [f \in Findings |-> f]

Symmetric == Permutations(Scans) \cup Permutations(Deliveries) \cup Permutations(Reqs)
=============================================================================
