----------------------------- MODULE ScanService -----------------------------
(***************************************************************************)
(* The whole scan path: the code host, the webhook gateway and the workers,   *)
(* over the shared store.                                                     *)
(***************************************************************************)
EXTENDS WebhookGateway, ScanPipeline

serviceVars == <<hostVars, storeVars, gatewayVars, pipelineVars>>

Init == HostInit /\ StoreInit /\ GatewayInit /\ PipelineInit

(* Of the host's events only those of pull requests concern the scan path.   *)
HostStep ==
  /\ \E p \in PRs : Push(p) \/ Touch(p) \/ Missigned(p)
  /\ UNCHANGED <<storeVars, gatewayVars, pipelineVars>>

GatewayStep == GatewayNext /\ UNCHANGED pipelineVars

PipelineStep == PipelineNext /\ UNCHANGED gatewayVars

FeedbackStep ==
  \E k \in Prints : MarkFalsePositive(k) /\ UNCHANGED gatewayVars

Next == HostStep \/ GatewayStep \/ PipelineStep \/ FeedbackStep

Spec == Init /\ [][Next]_serviceVars

(* The host sends each delivery at least once, coroutines that can run do    *)
(* run, and the workers poll the queue.                                       *)
Fairness ==
  /\ \A d \in Deliveries :
       WF_serviceVars(\E r \in Reqs : posts[d] = 0 /\ Receive(r, d) /\ UNCHANGED pipelineVars)
  /\ \A r \in Reqs : WF_serviceVars(HandlerStep(r) /\ UNCHANGED pipelineVars)
  /\ \A s \in Scans : WF_serviceVars(WorkerStep(s) /\ UNCHANGED gatewayVars)

FairSpec == Spec /\ Fairness

-----------------------------------------------------------------------------

(* No request or job is under way, and every pull request event was taken.    *)
Quiescent ==
  /\ NoRequest
  /\ \A s \in Scans : job[s] \in {"none", "settled"}
  /\ \A d \in Deliveries :
       (event[d] # None /\ event[d].signed) =>
          replies[d] \cap {"queued", "duplicate"} # {}

(* No scan of p ended badly, and none was lost before its job was enqueued.   *)
Unharmed(p) ==
  /\ \A s \in Scans :
       (status[s] # "none" /\ PR(s) = p) => status[s] \in {"completed", "superseded"}
  /\ \A d \in Deliveries :
       (event[d] # None /\ event[d].pr = p) => "failed" \notin replies[d]

Announced(p, h) ==
  \E d \in Deliveries :
    event[d] # None /\ event[d].signed /\ event[d].pr = p /\ event[d].head = h

(* Once everything is at rest and nothing failed, the current head of every   *)
(* announced pull request has its status, whatever the order in which the     *)
(* deliveries came, were repeated, and their scans ran or superseded each     *)
(* other: no set of scans ever leaves the head to one that does not run.      *)
HeadIsGated ==
  Quiescent =>
    \A p \in PRs :
      (head[p] > 0 /\ Announced(p, head[p]) /\ Unharmed(p)) =>
         gate[p][head[p]].state # "none"

(* A scan is given up as superseded only in favour of another head of the     *)
(* same pull request that has a scan of its own in the table.                 *)
SupersededHasRival ==
  \A s \in Scans :
    status[s] = "superseded" =>
      \E t \in Scans : /\ status[t] # "none"
                       /\ PR(t) = PR(s)
                       /\ Ev(t).head # Ev(s).head

(* Nothing is published on a pull request before a worker ran a scan for a    *)
(* delivery whose signature verified, and only on the head that delivery      *)
(* named or on a later one.                                                   *)
GatesAreEarned ==
  \A p \in PRs, h \in Heads :
    gate[p][h].state # "none" =>
      \E s \in Scans : /\ tries[s] > 0
                       /\ PR(s) = p
                       /\ Ev(s).signed
                       /\ Ev(s).head <= h

(* Without failures, an announced head gets its status unless a newer head    *)
(* replaces it.                                                               *)
HeadsGetGated ==
  \A p \in PRs, h \in Heads :
    (head[p] = h /\ Announced(p, h)) ~> (head[p] > h \/ gate[p][h].state # "none")

=============================================================================
