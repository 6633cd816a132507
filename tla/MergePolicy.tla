----------------------------- MODULE MergePolicy -----------------------------
(***************************************************************************)
(* The merge gate's decision (pipeline/policy.py) and the comment gate       *)
(* (pipeline/render.py), as functions of the findings that survived          *)
(* suppression.                                                               *)
(***************************************************************************)
EXTENDS Naturals

CONSTANTS
  Findings,
  Severity,     \* Severity[f]: the severity of finding f
  Score,        \* Score[K]: the risk score of a set K of findings
  MergeBlock,   \* RepoContext.merge_block
  CommentGate   \* RepoContext.severity_gate

Severities == {"critical", "high", "medium", "low", "info"}

Rank == [critical |-> 4, high |-> 3, medium |-> 2, low |-> 1, info |-> 0]

ASSUME PolicyAssumption ==
  /\ Severity \in [Findings -> Severities]
  /\ Score \in [SUBSET Findings -> 0 .. 100]
  /\ MergeBlock \in {"off", "critical", "high"}
  /\ CommentGate \in Severities

(* decide(): whether the findings K and their risk score block the merge.    *)
Blocks(K, score) ==
  /\ MergeBlock # "off"
  /\ \/ \E f \in K : Severity[f] = "critical"
     \/ MergeBlock = "high" /\ \E f \in K : Severity[f] = "high"
     \/ score > 60

BlocksMerge(K) == Blocks(K, Score[K])

Verdicts == {"success", "failure"}

Verdict(K) == IF BlocksMerge(K) THEN "failure" ELSE "success"

(* The findings that get an inline comment.                                  *)
Inline(K) == {f \in K : Rank[Severity[f]] >= Rank[CommentGate]}

=============================================================================
