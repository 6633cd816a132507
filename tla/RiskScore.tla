------------------------------ MODULE RiskScore ------------------------------
(***************************************************************************)
(* The risk score (pipeline/risk_score.py).  risk_breakdown goes through the   *)
(* list of findings once; here the list grows by one finding per step.        *)
(***************************************************************************)
EXTENDS MergePolicy, Sequences, FiniteSets, Functions

CONSTANTS
  Cwe,       \* Cwe[f]: Finding.cwe, "" for None
  Rule       \* Rule[f]: Finding.rule_id, "" for None

ASSUME RiskAssumption ==
  /\ Cwe \in [Findings -> STRING]
  /\ Rule \in [Findings -> STRING]

VARIABLES
  listed,  \* the findings that the loop has gone through
  totals   \* totals[b]: the entry of bucket b, 0 while it has none

rVars == <<listed, totals>>

CweWeights ==
  [c \in {"CWE-89", "CWE-798", "CWE-79", "CWE-94", "CWE-78", "CWE-918", "CWE-22", "CWE-502",
         "CWE-321", "CWE-1395"} |->
     CASE c = "CWE-89"                                   -> 40
       [] c \in {"CWE-798", "CWE-94", "CWE-78", "CWE-918"} -> 35
       [] c \in {"CWE-79", "CWE-502", "CWE-321"}          -> 30
       [] c = "CWE-22"                                   -> 25
       [] OTHER                                          -> 15]

SeverityWeights == [critical |-> 40, high |-> 25, medium |-> 10, low |-> 5, info |-> 1]

(* Every detector of the code gives a secret a CWE, so that the weight of a    *)
(* secret:high-entropy rule is never reached.                                *)
Weight(f) ==
  CASE Cwe[f] \in DOMAIN CweWeights        -> CweWeights[Cwe[f]]
    [] /\ Cwe[f] \notin DOMAIN CweWeights
       /\ Rule[f] = "secret:high-entropy"  -> 20
    [] OTHER                               -> SeverityWeights[Severity[f]]

Bucket(f) ==
  IF Cwe[f] # "" THEN Cwe[f] ELSE IF Rule[f] # "" THEN Rule[f] ELSE Severity[f]

Buckets == {Bucket(f) : f \in Findings}

Lesser(a, b) == IF a < b THEN a ELSE b

(* Mutation: the cap is the weight of one finding.                           *)
CapOfOne(f) == Weight(f)

Cap(f) == 2 * Weight(f)

AddUp(f) == [totals EXCEPT ![Bucket(f)] = Lesser(@ + Weight(f), Cap(f))]

(* The score and its label.                                                  *)
RiskScoreNow == Lesser(SumFunction(totals), 100)

(* Mutation: a score of 60 is already high.                                  *)
LabelFromSixty(score, K) ==
  IF \E f \in K : Severity[f] = "critical" THEN "critical"
  ELSE IF score >= 60 THEN "high" ELSE IF score > 30 THEN "medium" ELSE "low"

RiskLabel(score, K) ==
  IF \E f \in K : Severity[f] = "critical" THEN "critical"
  ELSE IF score > 60 THEN "high" ELSE IF score > 30 THEN "medium" ELSE "low"

-----------------------------------------------------------------------------

RInit ==
  /\ listed = <<>>
  /\ totals = [b \in Buckets |-> 0]

List(f) ==
  /\ listed' = Append(listed, f)
  /\ totals' = AddUp(f)

-----------------------------------------------------------------------------

RTypeOK ==
  /\ listed \in Seq(Findings)
  /\ totals \in [Buckets -> 0 .. 80]

InBucket(b) == {i \in DOMAIN listed : Bucket(listed[i]) = b}

(* What the breakdown is in whatever order the findings come: where all findings of a bucket  *)
(* weigh the same, each adds its weight until the total is twice that; where  *)
(* they differ, the total is at most twice the greatest weight, and any       *)
(* finding at all leaves some trace in its bucket.                            *)
TotalsFollowWeights ==
  \A b \in Buckets :
    LET W == {Weight(listed[i]) : i \in InBucket(b)}
        n == Cardinality(InBucket(b))
    IN  /\ (totals[b] = 0) <=> (n = 0)
        /\ \A w \in W : W = {w} => totals[b] = Lesser(n * w, 2 * w)
        /\ \A w \in W : (\A v \in W : v <= w) => totals[b] <= 2 * w

(* The label in the summary and the decision of the merge gate, computed by   *)
(* two modules, agree: a gate that is on blocks what is labelled critical or  *)
(* high, and nothing else unless its mode blocks high severities.             *)
LabelAgreesWithGate ==
  LET K     == {listed[i] : i \in DOMAIN listed}
      score == RiskScoreNow
  IN  MergeBlock # "off" =>
        /\ RiskLabel(score, K) \in {"critical", "high"} => Blocks(K, score)
        /\ Blocks(K, score) =>
             \/ RiskLabel(score, K) \in {"critical", "high"}
             \/ MergeBlock = "high" /\ \E f \in K : Severity[f] = "high"

=============================================================================
