---------------------------- MODULE SecurityGate ----------------------------
(***************************************************************************)
(* What the service promises about the commit status aegis/security-gate,     *)
(* seen from the code host: a status appears in one step, on a commit that    *)
(* the pull request has had, and its state is the verdict on the findings of  *)
(* the diff of that commit or of a later one, from which only findings        *)
(* suppressed by team feedback are missing among those that cannot be missed. *)
(***************************************************************************)
EXTENDS MergePolicy

CONSTANTS PRs, MaxHead, Diff, Certain, Prints, PrintOf, Threshold

VARIABLES
  head,      \* head[p]: the current head of p
  feedback,  \* feedback[k]: how often fingerprint k was marked a false positive
  gate       \* gate[p][h]: the state of the status on head h of p

vars == <<head, feedback, gate>>

Init ==
  /\ head \in [PRs -> 0 .. MaxHead]
  /\ feedback = [k \in Prints |-> 0]
  /\ gate = [p \in PRs |-> [h \in 1 .. MaxHead |-> "none"]]

NewHead(p) ==
  /\ head[p] < MaxHead
  /\ head' = [head EXCEPT ![p] = @ + 1]
  /\ UNCHANGED <<feedback, gate>>

Mark(k) ==
  /\ feedback[k] < Threshold
  /\ feedback' = [feedback EXCEPT ![k] = @ + 1]
  /\ UNCHANGED <<head, gate>>

Unsuppressed(K) == {f \in K : feedback[PrintOf[f]] < Threshold}

Publish(p, h, d) ==
  /\ h <= d
  /\ d <= head[p]
  /\ \E K \in SUBSET Diff[p][d] :
       /\ Unsuppressed(Certain[p][d]) \subseteq K
       /\ gate' = [gate EXCEPT ![p][h] = Verdict(K)]
  /\ UNCHANGED <<head, feedback>>

Next ==
  \/ \E p \in PRs : NewHead(p)
  \/ \E k \in Prints : Mark(k)
  \/ \E p \in PRs, h, d \in 1 .. MaxHead : Publish(p, h, d)

Spec == Init /\ [][Next]_vars

=============================================================================
