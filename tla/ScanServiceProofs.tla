-------------------------- MODULE ScanServiceProofs --------------------------
(***************************************************************************)
(* The composed scan path, for any number of pull requests, commits,           *)
(* deliveries, requests and scans, and every set of faults.                   *)
(*                                                                         *)
(* Superseding compares heads for inequality: a scan of the newest head may     *)
(* give up because of an older one.  What keeps the head from being left alone   *)
(* is that each pull request with jobs has a leader, the scan that last set      *)
(* the active head: nothing makes it give up, and it fetches the pull request    *)
(* after the current head was announced, so that it publishes there.  A push     *)
(* makes no leader stale, for no scan has seen the new head; the next scan that  *)
(* does takes the lead.                                                       *)
(*                                                                         *)
(* The last part carries over what the gateway and the pipeline promise alone:  *)
(* the rest of the service is among the surroundings (Around) that the           *)
(* pipeline's proofs allow for.                                                *)
(***************************************************************************)
EXTENDS ScanService, GatewayProofs, ScanOutcomeProofs

(* What the service's host says: events of pull requests on heads that they had, *)
(* or requests with a wrong signature.                                          *)
EventOK(d) ==
  event[d] # None =>
    /\ event[d].kind = "comment" => event[d].head = 0
    /\ event[d].signed => event[d].kind = "pr" /\ event[d].head <= head[event[d].pr]

(* A repetition is answered for the work that the first delivery stands for.     *)
RepeatOK(d) == "duplicate" \in replies[d] => event[d] # None /\ ClaimOK(DedupeKey(event[d]))

Enqueuing(r) == req[r].pc \in {"stash", "activate", "enqueue"}

(* Until its job is enqueued, a row belongs to one request.                      *)
OwnOK(r) ==
  Enqueuing(r) =>
    /\ job[req[r].scan] = "none"
    /\ \A q \in Reqs : (q # r /\ Enqueuing(q)) => req[q].scan # req[r].scan

HeadStages == {"diff", "detect", "llm", "suppress", "inline", "status", "changes"}

GivenUp(s) == status[s] = "superseded" \/ (In(s, "finish") /\ run[s].out = "superseded")

Rival(s) ==
  \E t \in Scans : status[t] # "none" /\ PR(t) = PR(s) /\ Ev(t).head # Ev(s).head

RunOK(s) ==
  /\ run[s].pc # "off" => job[s] = "running" /\ tries[s] > 0
  /\ tries[s] > 0 => job[s] # "none"
  /\ run[s].pc \in HeadStages => Ev(s).head <= run[s].head
  /\ In(s, "finish") => run[s].out \in Outcomes
  /\ In(s, "status") => run[s].verdict # "none"
  /\ GivenUp(s) => Rival(s)

(* The active head is one that a scan was made for.                             *)
ActiveOK(p) ==
  active[p] # 0 => \E t \in Scans : status[t] # "none" /\ PR(t) = p /\ Ev(t).head = active[p]

-----------------------------------------------------------------------------
(* The leader.                                                               *)

Harmed(p) == \E d \in Deliveries : event[d] # None /\ event[d].pr = p /\ "failed" \in replies[d]

(* The request of scan s has set the active head.                               *)
Activated(s) == job[s] # "none" \/ \E r \in Reqs : At(r, "enqueue") /\ req[r].scan = s

(* A scan for the current head was.                                             *)
Seen(p) == \E s \in Scans : Activated(s) /\ PR(s) = p /\ Ev(s).head = head[p]

Gated(p) == gate[p][head[p]].state # "none"

(* The job of s has published its status.                                       *)
Published(s) ==
  \/ In(s, "changes")
  \/ In(s, "finish") /\ run[s].out = "completed"
  \/ status[s] = "completed"

Leads(p, s) ==
  /\ Activated(s) /\ PR(s) = p
  /\ ~ GivenUp(s)
  /\ active[p] \in {0, Ev(s).head}
  /\ Seen(p) => /\ run[s].pc \in HeadStages => run[s].head = head[p]
                /\ Published(s) => Gated(p)

Led(p) ==
  \/ Harmed(p)
  \/ \A s \in Scans : Activated(s) => PR(s) # p
  \/ \E s \in Scans : Leads(p, s)

JobsTyped == run \in [Scans -> Run] /\ HeadsOK /\ gate \in [PRs -> [Heads -> Gate]]

SvcInv ==
  /\ GwInv /\ JobsTyped
  /\ \A d \in Deliveries : EventOK(d) /\ RepeatOK(d)
  /\ \A r \in Reqs : OwnOK(r)
  /\ \A s \in Scans : RunOK(s)
  /\ \A p \in PRs : ActiveOK(p) /\ Led(p)
  /\ GatesAreEarned

-----------------------------------------------------------------------------
(* The job of one scan takes a step.                                           *)

(* Entering a stage changes nothing else of a job.                               *)
LEMMA EnterFields ==
  ASSUME JobsTyped, NEW s \in Scans, NEW pc \in Stages, Enter(s, pc)
  PROVE  /\ run'[s].pc = pc
         /\ run'[s].head = run[s].head /\ run'[s].out = run[s].out
         /\ run'[s].verdict = run[s].verdict
         /\ \A t \in Scans \ {s} : run'[t] = run[t]
  BY DEF Enter, JobsTyped, Run

(* Going to _finish sets the outcome.                                           *)
LEMMA ConcludeFields ==
  ASSUME JobsTyped, NEW s \in Scans, NEW o \in Outcomes, Conclude(s, o)
  PROVE  /\ run'[s].pc = "finish" /\ run'[s].out = o
         /\ \A t \in Scans \ {s} : run'[t] = run[t]
  BY DEF Conclude, JobsTyped, Run

(* What a step of the job of s does to its local state: where it takes a head from, *)
(* and what must have happened for the outcomes superseded and completed.         *)
JobStep(s) ==
  /\ run' \in [Scans -> Run] /\ HeadsOK'
  /\ \A t \in Scans \ {s} : run'[t] = run[t]
  /\ run'[s].pc \in HeadStages =>
       \/ In(s, "pr") /\ run'[s].head = head[PR(s)]
       \/ run[s].pc \in HeadStages /\ run'[s].head = run[s].head
  /\ run'[s].pc = "finish" =>
       /\ run'[s].out \in Outcomes
       /\ run'[s].out = "superseded" => IsStale(s)
       /\ run'[s].out = "completed" => In(s, "changes") \/ SetStatusCheck(s)
  /\ run'[s].pc = "changes" => SetStatusCheck(s)
  /\ run'[s].pc = "status" => run'[s].verdict # "none"

(* A step to a stage without a head, a verdict or an outcome.                     *)
LEMMA PlainStep ==
  ASSUME JobsTyped, NEW s \in Scans, NEW pc \in Stages \ (HeadStages \cup {"finish"}), Enter(s, pc)
  PROVE  JobStep(s)
<1>1. pc \notin DiffStages /\ pc # "diff"
  BY DEF DiffStages, HeadStages
<1>2. run' \in [Scans -> Run] /\ HeadsOK'
  BY <1>1, RunEnter DEF JobsTyped
<1> QED
  BY <1>2, EnterFields DEF JobStep, HeadStages

(* A step to _finish.                                                          *)
LEMMA FinalStep ==
  ASSUME JobsTyped, NEW s \in Scans, NEW o \in Outcomes, Conclude(s, o),
         o = "superseded" => IsStale(s),
         o = "completed" => In(s, "changes") \/ SetStatusCheck(s)
  PROVE  JobStep(s)
<1>1. run' \in [Scans -> Run] /\ HeadsOK'
  BY RunConclude DEF JobsTyped
<1> QED
  BY <1>1, ConcludeFields DEF JobStep, HeadStages

(* A lost answer.                                                              *)
LEMMA LostStep ==
  ASSUME JobsTyped, NEW s \in Scans, AnswerLost(s)
  PROVE  JobStep(s)
  BY FinalStep DEF AnswerLost, Outcomes

(* A job that ends, is given up or is queued again.                              *)
LEMMA ResetStep ==
  ASSUME JobsTyped, NEW s \in Scans, run' = [run EXCEPT ![s] = NoRun]
  PROVE  JobStep(s)
<1>1. run' \in [Scans -> Run] /\ HeadsOK'
  BY RunReset DEF JobsTyped
<1>2. run'[s] = NoRun /\ \A t \in Scans \ {s} : run'[t] = run[t]
  BY DEF JobsTyped
<1>3. NoRun.pc = "off"
  BY DEF NoRun
<1> QED
  BY <1>1, <1>2, <1>3 DEF JobStep, HeadStages

(* A step that replaces the local state by r.                                   *)
LEMMA SetStep ==
  ASSUME JobsTyped, NEW s \in Scans, NEW r \in Run, run' = [run EXCEPT ![s] = r],
         r.pc \notin {"finish", "changes"},
         r.pc = "diff" => r.head \in Heads,
         r.pc \in DiffStages => r.head \in Heads /\ r.diff \in Heads,
         r.pc \in HeadStages =>
           \/ In(s, "pr") /\ r.head = head[PR(s)]
           \/ run[s].pc \in HeadStages /\ r.head = run[s].head,
         r.pc = "status" => r.verdict # "none"
  PROVE  JobStep(s)
<1>1. run' \in [Scans -> Run] /\ HeadsOK'
  BY RunSet DEF JobsTyped
<1>2. run'[s] = r /\ \A t \in Scans \ {s} : run'[t] = run[t]
  BY DEF JobsTyped
<1> QED
  BY <1>1, <1>2 DEF JobStep

(* The head of a scan that has a row.                                           *)
LEMMA RowsHaveHeads ==
  ASSUME SvcInv, NEW s \in Scans, status[s] # "none"
  PROVE  /\ PR(s) \in PRs /\ Ev(s).head \in Heads /\ head[PR(s)] \in Heads
         /\ Ev(s).head <= head[PR(s)] /\ origin[s] \in Deliveries
<1>1. /\ origin[s] \in Deliveries /\ event[origin[s]] # None /\ Ev(s).signed /\ Ev(s).kind = "pr"
      /\ head \in [PRs -> 0 .. MaxHead] /\ event[origin[s]] \in Event /\ MaxHead \in Nat
  BY HostAssumption DEF SvcInv, GwInv, ScanOK, GwTypeOK, HostTypeOK
<1>2. Ev(s).head \in Heads /\ Ev(s).head <= head[PR(s)]
  BY <1>1 DEF SvcInv, GwInv, DeliveryOK, EventOK, Ev, PR
<1>3. PR(s) \in PRs
  BY <1>1 DEF Ev, PR, Event
<1> QED
  BY <1>1, <1>2, <1>3 DEF Heads

(* A job that runs has a row.                                                   *)
LEMMA JobsHaveRows ==
  ASSUME SvcInv, NEW s \in Scans, job[s] # "none"
  PROVE  status[s] # "none"
  BY DEF SvcInv, GwInv, ScanOK

(* Arq and the beginning of the pipeline.                                        *)
LEMMA EarlySteps ==
  ASSUME SvcInv, NEW s \in Scans,
         \/ PickUp(s) \/ GiveUp(s) \/ Acknowledge(s) \/ WorkerStops(s) \/ JobTimesOut(s)
         \/ LoadEvent(s) \/ CheckStale(s) \/ MarkRunning(s) \/ Resolve(s)
         \/ Finish(s) \/ ProviderFails(s) \/ StageRaises(s) \/ PreludeRaises(s) \/ FinishRaises(s)
  PROVE  JobStep(s)
<1> USE DEF SvcInv
<1>1. CASE PickUp(s)
  <2> DEFINE r == [NoRun EXCEPT !.pc = "load"]
  <2>1. r \in Run /\ r.pc = "load"
    BY HostAssumption DEF NoRun, Run, Stages
  <2>2. run' = [run EXCEPT ![s] = r]
    BY <1>1 DEF PickUp
  <2> HIDE DEF r
  <2> QED
    BY <2>1, <2>2, SetStep DEF DiffStages, HeadStages
<1>2. CASE GiveUp(s) \/ Acknowledge(s) \/ WorkerStops(s) \/ JobTimesOut(s) \/ PreludeRaises(s)
  BY <1>2, ResetStep DEF GiveUp, Acknowledge, WorkerStops, JobTimesOut, PreludeRaises, Settle
<1>3. CASE LoadEvent(s)
  BY <1>3, PlainStep DEF LoadEvent, Stages, HeadStages
<1>4. CASE CheckStale(s)
  <2>1. CASE IsStale(s) /\ Conclude(s, "superseded")
    BY <2>1, FinalStep DEF Outcomes
  <2>2. CASE Enter(s, "start")
    BY <2>2, PlainStep DEF Stages, HeadStages
  <2> QED
    BY <1>4, <2>1, <2>2 DEF CheckStale
<1>5. CASE MarkRunning(s)
  BY <1>5, PlainStep DEF MarkRunning, Stages, HeadStages
<1>6. CASE Resolve(s)
  <2>1. CASE Enter(s, "pr")
    BY <2>1, PlainStep DEF Stages, HeadStages
  <2>2. CASE Conclude(s, "no_token")
    BY <2>2, FinalStep DEF Outcomes
  <2> QED
    BY <1>6, <2>1, <2>2 DEF Resolve
<1>7. CASE Finish(s)
  BY <1>7, PlainStep DEF Finish, Stages, HeadStages
<1>8. CASE ProviderFails(s)
  BY <1>8, FinalStep DEF ProviderFails, Outcomes
<1>9. CASE StageRaises(s)
  BY <1>9, FinalStep DEF StageRaises, Outcomes
<1>10. CASE FinishRaises(s)
  <2>1. CASE Conclude(s, "error")
    BY <2>1, FinalStep DEF Outcomes
  <2>2. CASE Settle(s)
    BY <2>2, ResetStep DEF Settle
  <2> QED
    BY <1>10, <2>1, <2>2 DEF FinishRaises
<1> QED
  BY <1>1, <1>2, <1>3, <1>4, <1>5, <1>6, <1>7, <1>8, <1>9, <1>10

(* The stages from the first fetch on.                                           *)
LEMMA HeadSteps ==
  ASSUME SvcInv, NEW s \in Scans,
         \/ FetchPullRequest(s) \/ FetchDiff(s) \/ RunDeterministic(s) \/ RunLLM(s) \/ Suppress(s)
         \/ PostInline(s) \/ PostSummary(s) \/ SetStatusCheck(s) \/ RequestChanges(s)
  PROVE  JobStep(s)
<1> USE DEF SvcInv, JobsTyped
<1>1. run[s] \in Run /\ HeadsOK
  OBVIOUS
<1>2. run[s].pc # "off" => head[PR(s)] \in Heads /\ PR(s) \in PRs
  BY RowsHaveHeads, JobsHaveRows DEF RunOK
<1>3. Heads \subseteq 0 .. MaxHead
  BY HostAssumption DEF Heads
<1>4. CASE FetchPullRequest(s)
  <2> DEFINE r == [run[s] EXCEPT !.pc = "diff", !.head = head[PR(s)]]
  <2>1. In(s, "pr") /\ run' = [run EXCEPT ![s] = r]
    BY <1>4 DEF FetchPullRequest, HeadAtHost
  <2>2. head[PR(s)] \in Heads
    BY <1>2, <2>1 DEF In
  <2>3. r \in Run /\ r.pc = "diff" /\ r.head = head[PR(s)]
    BY <1>1, <1>3, <2>2 DEF Run, Stages
  <2> HIDE DEF r
  <2> QED
    BY <2>1, <2>2, <2>3, SetStep DEF DiffStages, HeadStages
<1>5. CASE FetchDiff(s)
  <2> DEFINE r == [run[s] EXCEPT !.pc = "detect", !.diff = head[PR(s)]]
  <2>1. In(s, "diff") /\ run' = [run EXCEPT ![s] = r]
    BY <1>5 DEF FetchDiff
  <2>2. head[PR(s)] \in Heads /\ run[s].head \in Heads
    BY <1>2, <2>1 DEF In, HeadsOK
  <2>3. r \in Run /\ r.pc = "detect" /\ r.head = run[s].head /\ r.diff = head[PR(s)]
    BY <1>1, <1>3, <2>2 DEF Run, Stages
  <2> HIDE DEF r
  <2> QED
    BY <2>1, <2>2, <2>3, SetStep DEF DiffStages, HeadStages, In
<1>6. ASSUME run[s].pc \in DiffStages
      PROVE  /\ run[s].head \in Heads /\ run[s].diff \in Heads /\ run[s].pc \in HeadStages
             /\ DiffFindings(s) \subseteq Findings
  <2>1. run[s].head \in Heads /\ run[s].diff \in Heads /\ PR(s) \in PRs
    BY <1>2, <1>6 DEF HeadsOK, DiffStages
  <2> QED
    BY <1>6, <2>1, PipelineAssumption DEF DiffFindings, DiffStages, HeadStages
<1>7. ASSUME NEW pc \in DiffStages \ {"status", "changes"}, NEW F \in SUBSET Findings,
             NEW T \in SUBSET Findings, run[s].pc \in DiffStages,
             run' = [run EXCEPT ![s] = [run[s] EXCEPT !.pc = pc, !.found = F, !.todo = T]]
      PROVE  JobStep(s)
  <2> DEFINE r == [run[s] EXCEPT !.pc = pc, !.found = F, !.todo = T]
  <2>1. r \in Run /\ r.pc = pc /\ r.head = run[s].head /\ r.diff = run[s].diff
    BY <1>1, <1>7 DEF Run, Stages, DiffStages
  <2>2. run' = [run EXCEPT ![s] = r]
    BY <1>7
  <2> HIDE DEF r
  <2> QED
    BY <1>6, <1>7, <2>1, <2>2, SetStep DEF DiffStages
<1>8. run[s].found \in SUBSET Findings /\ run[s].todo \in SUBSET Findings
  BY <1>1 DEF Run
<1>9. CASE RunDeterministic(s)
  <2>1. PICK K \in SUBSET DiffFindings(s) :
          run' = [run EXCEPT ![s] = [run[s] EXCEPT !.pc = "llm", !.found = K]]
    BY <1>9 DEF RunDeterministic
  <2>2. run[s].pc = "detect" /\ run[s].pc \in DiffStages
    BY <1>9 DEF RunDeterministic, In, DiffStages
  <2>3. [run[s] EXCEPT !.pc = "llm", !.found = K] =
          [run[s] EXCEPT !.pc = "llm", !.found = K, !.todo = run[s].todo]
    BY <1>1 DEF Run
  <2>4. "llm" \in DiffStages \ {"status", "changes"}
    BY DEF DiffStages
  <2> QED
    BY <1>6, <1>7, <1>8, <2>1, <2>2, <2>3, <2>4
<1>10. CASE RunLLM(s)
  <2>1. PICK K \in SUBSET DiffFindings(s) :
          run' = [run EXCEPT ![s] = [run[s] EXCEPT !.pc = "suppress", !.found = run[s].found \cup K]]
    BY <1>10 DEF RunLLM
  <2>2. run[s].pc = "llm" /\ run[s].pc \in DiffStages
    BY <1>10 DEF RunLLM, In, DiffStages
  <2>3. [run[s] EXCEPT !.pc = "suppress", !.found = run[s].found \cup K] =
          [run[s] EXCEPT !.pc = "suppress", !.found = run[s].found \cup K, !.todo = run[s].todo]
    BY <1>1 DEF Run
  <2>4. "suppress" \in DiffStages \ {"status", "changes"}
    BY DEF DiffStages
  <2>5. run[s].found \cup K \in SUBSET Findings
    BY <1>6, <1>8, <2>1, <2>2
  <2> QED
    BY <1>7, <1>8, <2>1, <2>2, <2>3, <2>4, <2>5
<1>11. CASE Suppress(s)
  <2> DEFINE F == run[s].found \ Suppressed
             T == Inline(F)
  <2>1. run' = [run EXCEPT ![s] = [run[s] EXCEPT !.pc = "inline", !.found = F, !.todo = T]]
    BY <1>11 DEF Suppress
  <2>2. run[s].pc \in DiffStages /\ "inline" \in DiffStages \ {"status", "changes"}
    BY <1>11 DEF Suppress, In, DiffStages
  <2>3. F \in SUBSET Findings /\ T \in SUBSET Findings
    BY <1>8 DEF Inline
  <2> HIDE DEF F, T
  <2> QED
    BY <1>7, <2>1, <2>2, <2>3
<1>12. CASE PostInline(s)
  <2>1. CASE AnswerLost(s)
    BY <2>1, LostStep
  <2>2. CASE \E f \in run[s].todo : run' = [run EXCEPT ![s].todo = Remaining(s, f)]
    <3>1. PICK f \in run[s].todo : run' = [run EXCEPT ![s].todo = Remaining(s, f)]
      BY <2>2
    <3>2. run[s].pc = "inline" /\ run[s].pc \in DiffStages \ {"status", "changes"}
      BY <1>12 DEF PostInline, In, DiffStages
    <3>3. Remaining(s, f) \in SUBSET Findings
      BY <1>8 DEF Remaining
    <3>4. run' = [run EXCEPT ![s] =
                    [run[s] EXCEPT !.pc = run[s].pc, !.found = run[s].found, !.todo = Remaining(s, f)]]
      <4>1. [run[s] EXCEPT !.todo = Remaining(s, f)] =
              [run[s] EXCEPT !.pc = run[s].pc, !.found = run[s].found, !.todo = Remaining(s, f)]
        BY <1>1 DEF Run
      <4> QED
        BY <3>1, <4>1
    <3> QED
      BY <1>7, <1>8, <3>2, <3>3, <3>4
  <2> QED
    BY <1>12, <2>1, <2>2 DEF PostInline
<1>13. CASE PostSummary(s)
  <2>1. CASE AnswerLost(s)
    BY <2>1, LostStep
  <2>2. CASE run' = [run EXCEPT ![s] = [@ EXCEPT !.pc = "status", !.verdict = Verdict(run[s].found)]]
    <3> DEFINE v == Verdict(run[s].found)
               r == [run[s] EXCEPT !.pc = "status", !.verdict = v]
    <3>1. v \in Verdicts /\ v # "none"
      BY DEF Verdict, Verdicts
    <3> HIDE DEF v
    <3>2. r \in Run /\ r.pc = "status" /\ r.head = run[s].head /\ r.diff = run[s].diff /\ r.verdict = v
      BY <1>1, <3>1 DEF Run, Stages
    <3>3. run' = [run EXCEPT ![s] = r]
      BY <2>2 DEF v
    <3>4. run[s].pc \in DiffStages
      BY <1>13 DEF PostSummary, In, DiffStages
    <3> HIDE DEF r
    <3> QED
      BY <1>6, <3>1, <3>2, <3>3, <3>4, SetStep DEF DiffStages
  <2> QED
    BY <1>13, <2>1, <2>2 DEF PostSummary
<1>14. CASE SetStatusCheck(s)
  <2>1. CASE Enter(s, "changes")
    <3>1. run[s].pc = "status"
      BY <1>14 DEF SetStatusCheck, In
    <3>2. run' \in [Scans -> Run] /\ HeadsOK'
      BY <2>1, <3>1, RunEnter DEF DiffStages, Stages
    <3> QED
      BY <1>14, <2>1, <3>1, <3>2, EnterFields DEF JobStep, HeadStages, Stages
  <2>2. CASE Conclude(s, "completed")
    BY <1>14, <2>2, FinalStep DEF Outcomes
  <2>3. CASE AnswerLost(s)
    BY <2>3, LostStep
  <2> QED
    BY <1>14, <2>1, <2>2, <2>3 DEF SetStatusCheck
<1>15. CASE RequestChanges(s)
  <2>1. CASE Conclude(s, "completed")
    BY <1>15, <2>1, FinalStep DEF Outcomes, RequestChanges
  <2>2. CASE AnswerLost(s)
    BY <2>2, LostStep
  <2> QED
    BY <1>15, <2>1, <2>2 DEF RequestChanges
<1> QED
  BY <1>4, <1>5, <1>9, <1>10, <1>11, <1>12, <1>13, <1>14, <1>15

(* Hence every step of a job is such a step.                                    *)
LEMMA JobSteps ==
  ASSUME SvcInv, NEW s \in Scans, Works(s)
  PROVE  JobStep(s)
  BY EarlySteps, HeadSteps DEF Works, WorkerStep, WorkerFault

(* What it does to the shared store: the row of no other scan changes, a row gets   *)
(* "running" or the outcome that was decided, and a job once there stays.          *)
LEMMA RowFrame ==
  ASSUME SvcInv, NEW s \in Scans, Works(s)
  PROVE  /\ UNCHANGED <<head, event, origin, stash, active>>
         /\ status' \in [Scans -> Statuses] /\ job' \in [Scans -> JobStates]
         /\ tries' \in [Scans -> 0 .. MaxTries]
         /\ \A t \in Scans \ {s} : status'[t] = status[t] /\ job'[t] = job[t] /\ tries'[t] = tries[t]
         /\ job[s] # "none" /\ job'[s] # "none"
         /\ tries[s] > 0 => tries'[s] > 0
         /\ run'[s].pc # "off" => job'[s] = "running" /\ tries'[s] > 0
         /\ \/ status'[s] \in {status[s], "running"}
            \/ In(s, "finish") /\ status'[s] = run[s].out
         /\ UNCHANGED gate \/ SetStatusCheck(s)
<1> USE DEF SvcInv, GwInv, GwTypeOK, StoreTypeOK
<1>1. run[s].pc # "off" => job[s] = "running" /\ tries[s] > 0
  BY DEF RunOK
<1>2. run \in [Scans -> Run] /\ NoRun.pc = "off"
  BY DEF JobsTyped, NoRun
<1>3. CASE PickUp(s)
  <2>1. tries[s] + 1 \in 0 .. MaxTries /\ tries[s] + 1 > 0
    BY <1>3, StoreAssumption DEF PickUp, TriesLeft
  <2> QED
    BY <1>3, <2>1 DEF PickUp, NothingPublished, hostVars, JobStates
<1>4. CASE GiveUp(s) \/ WorkerStops(s) \/ JobTimesOut(s)
  BY <1>2, <1>4 DEF GiveUp, WorkerStops, JobTimesOut, Settle, NothingPublished, hostVars, JobStates
<1>5. CASE Acknowledge(s) \/ PreludeRaises(s)
  BY <1>1, <1>2, <1>5 DEF Acknowledge, PreludeRaises, In, Settle, NothingPublished, hostVars, JobStates
<1>6. CASE MarkRunning(s)
  BY <1>1, <1>6 DEF MarkRunning, In, NothingPublished, hostVars, Statuses
<1>7. In(s, "finish") => run[s].out \in Statuses
  BY DEF RunOK, Statuses
<1>8. CASE Finish(s)
  BY <1>1, <1>7, <1>8 DEF Finish, In, NothingPublished, hostVars
<1>9. CASE FinishRaises(s)
  <2>1. /\ UNCHANGED <<head, event, origin, stash, active, tries, gate>> /\ In(s, "finish")
        /\ status' = status \/ status' = [status EXCEPT ![s] = run[s].out]
        /\ job' = job \/ (job' = [job EXCEPT ![s] = "settled"] /\ run' = [run EXCEPT ![s] = NoRun])
    BY <1>9 DEF FinishRaises, Settle, NothingPublished, hostVars
  <2>2. status' \in [Scans -> Statuses] /\ job' \in [Scans -> JobStates]
    BY <1>7, <2>1 DEF JobStates
  <2>3. run'[s].pc # "off" => job' = job
    BY <1>2, <2>1
  <2> QED
    BY <1>1, <2>1, <2>2, <2>3 DEF In
<1>10. ASSUME OutsideUnchanged, run[s].pc # "off", UNCHANGED gate \/ SetStatusCheck(s)
       PROVE  /\ UNCHANGED <<head, event, origin, stash, active, status, job, tries>>
              /\ UNCHANGED gate \/ SetStatusCheck(s)
              /\ job[s] = "running" /\ tries[s] > 0
  BY <1>1, <1>10 DEF OutsideUnchanged, hostVars, storeVars
<1>11. CASE LoadEvent(s) \/ CheckStale(s) \/ Resolve(s) \/ FetchPullRequest(s) \/ FetchDiff(s)
  BY <1>10, <1>11 DEF LoadEvent, CheckStale, Resolve, FetchPullRequest, FetchDiff, In, NothingPublished
<1>12. CASE RunDeterministic(s) \/ RunLLM(s) \/ Suppress(s) \/ ProviderFails(s) \/ StageRaises(s)
  BY <1>10, <1>12 DEF RunDeterministic, RunLLM, Suppress, ProviderFails, StageRaises, In, NothingPublished
<1>13. CASE PostInline(s) \/ PostSummary(s) \/ RequestChanges(s)
  BY <1>10, <1>13 DEF PostInline, PostSummary, RequestChanges, In
<1>14. CASE SetStatusCheck(s)
  BY <1>10, <1>14 DEF SetStatusCheck, In
<1> QED
  BY <1>3, <1>4, <1>5, <1>6, <1>8, <1>9, <1>11, <1>12, <1>13, <1>14 DEF Works, WorkerStep, WorkerFault

-----------------------------------------------------------------------------
(* What the steps outside the handlers leave of the gateway's work.             *)

(* The work that a key stands for stays when no request moves and no row or job    *)
(* goes away.                                                                *)
LEMMA ClaimKept ==
  ASSUME GwInv, NEW k, ClaimOK(k), UNCHANGED <<req, replies, origin>>,
         \A d \in Deliveries : event[d] # None => event'[d] = event[d],
         \A s \in Scans : status[s] # "none" => status'[s] # "none",
         \A s \in Scans : job[s] # "none" => job'[s] # "none"
  PROVE  ClaimOK(k)'
<1>1. \A s \in Scans : status[s] # "none" => OriginKey(s)' = OriginKey(s)
  BY DEF GwInv, ScanOK, OriginKey, Ev
<1>2. \A r \in Reqs : Underway(r) => Underway(r)' /\ Key(r)' = Key(r)
  <2> SUFFICES ASSUME NEW r \in Reqs, Underway(r) PROVE Underway(r)' /\ Key(r)' = Key(r)
    OBVIOUS
  <2>1. req[r] # Idle /\ req[r].d \in Deliveries /\ event[req[r].d] # None
    BY InFlight DEF GwInv, ReqOK, Underway, Idle
  <2> QED
    BY <2>1 DEF Underway, Key, ReqEvent
<1>3. ClaimOK(k)
  OBVIOUS
<1> QED
  BY <1>1, <1>2, <1>3 DEF ClaimOK, Underway

(* An activated scan has a row.                                                *)
LEMMA ActivatedHasRow ==
  ASSUME SvcInv, NEW s \in Scans, Activated(s)
  PROVE  status[s] # "none"
  BY DEF SvcInv, GwInv, ScanOK, ReqOK, Activated, At

-----------------------------------------------------------------------------
(* A step of a job.                                                          *)

(* Jobs leave the gateway's part alone.                                         *)
LEMMA WorkKeepsGateway ==
  ASSUME SvcInv, NEW s \in Scans, Works(s), UNCHANGED gatewayVars
  PROVE  /\ GwInv'
         /\ \A d \in Deliveries : EventOK(d)' /\ RepeatOK(d)'
         /\ \A r \in Reqs : OwnOK(r)'
<1> USE DEF SvcInv, GwInv
<1>1. /\ UNCHANGED <<head, event, origin, stash, active>>
      /\ UNCHANGED <<req, posts, replies, claims, lapsed, dialogs>>
      /\ status' \in [Scans -> Statuses] /\ job' \in [Scans -> JobStates]
      /\ tries' \in [Scans -> 0 .. MaxTries]
      /\ \A t \in Scans \ {s} : status'[t] = status[t] /\ job'[t] = job[t]
      /\ job[s] # "none" /\ job'[s] # "none"
  BY RowFrame DEF gatewayVars
<1>2. status[s] # "none" /\ status'[s] # "none"
  <2>1. In(s, "finish") => run[s].out # "none"
    BY DEF RunOK, Outcomes
  <2>2. status[s] # "none"
    BY <1>1, JobsHaveRows
  <2> QED
    BY <2>1, <2>2, RowFrame
<1>3. \A t \in Scans : (status'[t] # "none" <=> status[t] # "none") /\ (job'[t] # "none" <=> job[t] # "none")
  BY <1>1, <1>2
<1>4. \A t \in Scans : Ev(t)' = Ev(t) /\ OriginKey(t)' = OriginKey(t)
  BY <1>1 DEF Ev, OriginKey
<1>5. \A r \in Reqs : ReqEvent(r)' = ReqEvent(r) /\ Key(r)' = Key(r) /\ \A pc : At(r, pc)' = At(r, pc)
  BY <1>1 DEF ReqEvent, Key, At
<1>6. GwTypeOK'
  BY <1>1 DEF GwTypeOK, HostTypeOK, StoreTypeOK, GatewayTypeOK
<1>7. ASSUME NEW r \in Reqs PROVE ReqOK(r)' /\ OwnOK(r)'
  <2>1. ReqOK(r) /\ OwnOK(r)
    OBVIOUS
  <2>2. Enqueuing(r) => req[r].scan \in Scans /\ req[r].scan # s /\ job'[req[r].scan] = "none"
    BY <1>1, <2>1 DEF ReqOK, OwnOK, Enqueuing
  <2>3. Enqueuing(r) => status'[req[r].scan] = status[req[r].scan]
    BY <1>1, <2>2
  <2>4. OwnOK(r)'
    BY <1>1, <2>1, <2>2 DEF OwnOK, Enqueuing
  <2>5. At(r, "respond") =>
          ReqEvent(r).kind = "comment" \/ \E t \in Scans : origin'[t] = req[r].d /\ job'[t] # "none"
    BY <1>1, <1>3, <2>1 DEF ReqOK
  <2>6. At(r, "insert") =>
          /\ \A t \in Scans : (status'[t] # "none" /\ OriginKey(t) = Key(r)) => Key(r) \in lapsed
          /\ \A q \in Reqs : (q # r /\ At(q, "insert") /\ Key(q) = Key(r)) => Key(r) \in lapsed
    BY <1>3, <2>1 DEF ReqOK
  <2> QED
    BY <1>1, <1>4, <1>5, <2>1, <2>2, <2>3, <2>4, <2>5, <2>6 DEF ReqOK, Enqueuing
<1>8. ASSUME NEW t \in Scans PROVE ScanOK(t)'
  BY <1>1, <1>3, <1>4 DEF ScanOK
<1>9. ASSUME NEW d \in Deliveries PROVE DeliveryOK(d)' /\ EventOK(d)'
  BY <1>1, <1>3 DEF DeliveryOK, EventOK
<1>10. ASSUME NEW k, ClaimOK(k) PROVE ClaimOK(k)'
  BY <1>1, <1>3, <1>10, ClaimKept
<1>11. ASSUME NEW d \in Deliveries PROVE RepeatOK(d)'
  <2>1. PICK k : k = DedupeKey(event[d])
    OBVIOUS
  <2>2. DedupeKey(event[d])' = k
    BY <1>1, <2>1
  <2>3. RepeatOK(d) /\ (ClaimOK(k) => ClaimOK(k)')
    BY <1>10
  <2> QED
    BY <1>1, <2>1, <2>2, <2>3 DEF RepeatOK
<1>12. OneScanPerClaim'
  BY <1>1, <1>3, <1>4 DEF OneScanPerClaim
<1> QED
  BY <1>1, <1>6, <1>7, <1>8, <1>9, <1>10, <1>11, <1>12

(* A status is set by a scan that was started, on the head it holds.             *)
LEMMA StatusSet ==
  ASSUME SvcInv, NEW s \in Scans, SetStatusCheck(s)
  PROVE  /\ PR(s) \in PRs /\ run[s].head \in Heads /\ tries[s] > 0
         /\ Ev(s).signed /\ Ev(s).head \in Heads /\ Ev(s).head <= run[s].head
         /\ gate' \in [PRs -> [Heads -> Gate]]
         /\ gate'[PR(s)][run[s].head].state # "none"
         /\ \A p \in PRs, h \in Heads :
              (p # PR(s) \/ h # run[s].head) => gate'[p][h] = gate[p][h]
<1> USE DEF SvcInv
<1>1. run[s].pc = "status" /\ job[s] # "none" /\ tries[s] > 0 /\ run[s].verdict # "none"
  BY DEF SetStatusCheck, In, RunOK
<1>2. PR(s) \in PRs /\ Ev(s).head \in Heads /\ Ev(s).signed
  BY <1>1, RowsHaveHeads, JobsHaveRows DEF GwInv, ScanOK
<1>3. run[s] \in Run /\ run[s].head \in Heads /\ gate \in [PRs -> [Heads -> Gate]]
  BY <1>1 DEF JobsTyped, HeadsOK, DiffStages
<1>4. Ev(s).head <= run[s].head
  BY <1>1 DEF RunOK, HeadStages
<1> DEFINE g == [state |-> run[s].verdict, diff |-> run[s].diff]
<1>5. g \in Gate /\ g.state # "none"
  BY <1>1, <1>3 DEF Run, Gate
<1>6. gate' = [gate EXCEPT ![PR(s)][run[s].head] = g]
  BY DEF SetStatusCheck, StatusHead
<1> HIDE DEF g
<1> QED
  BY <1>1, <1>2, <1>3, <1>4, <1>5, <1>6

(* A scan gives up only for a rival, and what is published is earned.             *)
LEMMA WorkKeepsRuns ==
  ASSUME SvcInv, NEW s \in Scans, Works(s)
  PROVE  /\ JobsTyped' /\ GatesAreEarned'
         /\ \A t \in Scans : RunOK(t)'
         /\ \A p \in PRs : ActiveOK(p)'
<1> USE DEF SvcInv
<1>1. /\ UNCHANGED <<head, event, origin, stash, active>>
      /\ \A t \in Scans \ {s} : status'[t] = status[t] /\ job'[t] = job[t] /\ tries'[t] = tries[t]
      /\ job[s] # "none" /\ job'[s] # "none"
      /\ tries[s] > 0 => tries'[s] > 0
      /\ run'[s].pc # "off" => job'[s] = "running" /\ tries'[s] > 0
      /\ \/ status'[s] \in {status[s], "running"}
         \/ In(s, "finish") /\ status'[s] = run[s].out
      /\ UNCHANGED gate \/ SetStatusCheck(s)
  BY RowFrame
<1>2. status[s] # "none" /\ PR(s) \in PRs /\ Ev(s).head \in Heads /\ head[PR(s)] \in Heads
      /\ Ev(s).head <= head[PR(s)]
  BY <1>1, JobsHaveRows, RowsHaveHeads
<1>3. \A t \in Scans : Ev(t)' = Ev(t) /\ PR(t)' = PR(t)
  BY <1>1 DEF Ev, PR
<1>4. JobStep(s)
  BY JobSteps
<1>5. status'[s] # "none"
  BY <1>1, <1>2 DEF RunOK, Outcomes
<1>6. \A t \in Scans : status[t] # "none" => status'[t] # "none"
  BY <1>1, <1>5
<1>7. \A t \in Scans : Rival(t) => Rival(t)'
  BY <1>3, <1>6 DEF Rival
<1>8. JobsTyped'
  BY <1>1, <1>4, StatusSet DEF JobsTyped, JobStep
<1>9. GatesAreEarned'
  <2> SUFFICES ASSUME NEW p \in PRs, NEW h \in Heads, gate'[p][h].state # "none"
               PROVE  \E t \in Scans : /\ tries'[t] > 0 /\ PR(t) = p
                                       /\ Ev(t).signed /\ Ev(t).head <= h
    BY <1>1, <1>3 DEF GatesAreEarned, Heads
  <2>1. CASE gate'[p][h] = gate[p][h]
    BY <1>1, <2>1 DEF GatesAreEarned
  <2>2. CASE gate'[p][h] # gate[p][h]
    <3>1. SetStatusCheck(s)
      BY <1>1, <2>2
    <3>2. p = PR(s) /\ h = run[s].head
      BY <2>2, <3>1, StatusSet
    <3> QED
      BY <1>1, <3>1, <3>2, StatusSet
  <2> QED
    BY <2>1, <2>2
<1>10. ASSUME NEW t \in Scans, t # s PROVE RunOK(t)'
  <2>1. run'[t] = run[t]
    BY <1>4, <1>10 DEF JobStep
  <2>2. GivenUp(t)' = GivenUp(t)
    BY <1>1, <1>10, <2>1 DEF GivenUp, In
  <2> QED
    BY <1>1, <1>3, <1>7, <1>10, <2>1, <2>2 DEF RunOK, In
<1>11. RunOK(s)'
  <2>1. run'[s].pc \in HeadStages => Ev(s).head <= run'[s].head
    BY <1>2, <1>4 DEF JobStep, RunOK
  <2>2. GivenUp(s)' => Rival(s)
    <3>1. CASE GivenUp(s)
      BY <3>1 DEF RunOK
    <3>2. CASE ~ GivenUp(s) /\ GivenUp(s)'
      <4>1. IsStale(s)
        BY <1>1, <1>4, <3>2 DEF GivenUp, In, JobStep
      <4> QED
        BY <1>2, <4>1 DEF IsStale, ActiveOK, Rival
    <3> QED
      BY <3>1, <3>2
  <2> QED
    BY <1>1, <1>3, <1>4, <1>7, <2>1, <2>2 DEF RunOK, JobStep, In
<1>12. ASSUME NEW p \in PRs PROVE ActiveOK(p)'
  BY <1>1, <1>3, <1>6 DEF ActiveOK
<1> QED
  BY <1>8, <1>9, <1>10, <1>11, <1>12

(* A leader is not stale, and sets the status of the current head.                *)
LEMMA WorkKeepsLead ==
  ASSUME SvcInv, NEW s \in Scans, Works(s), UNCHANGED gatewayVars, NEW p \in PRs
  PROVE  Led(p)'
<1> USE DEF SvcInv
<1>1. /\ UNCHANGED <<head, event, origin, stash, active>> /\ UNCHANGED <<req, replies>>
      /\ \A t \in Scans \ {s} : status'[t] = status[t] /\ job'[t] = job[t]
      /\ job[s] # "none" /\ job'[s] # "none"
      /\ \/ status'[s] \in {status[s], "running"}
         \/ In(s, "finish") /\ status'[s] = run[s].out
      /\ UNCHANGED gate \/ SetStatusCheck(s)
  BY RowFrame DEF gatewayVars
<1>2. \A t \in Scans : Ev(t)' = Ev(t) /\ PR(t)' = PR(t)
  BY <1>1 DEF Ev, PR
<1>3. \A t \in Scans : Activated(t)' <=> Activated(t)
  BY <1>1 DEF Activated, At
<1>4. (Harmed(p)' <=> Harmed(p)) /\ (Seen(p)' <=> Seen(p))
  BY <1>1, <1>2, <1>3 DEF Harmed, Seen
<1>5. JobStep(s)
  BY JobSteps
<1>6. Seen(p) => head[p] \in Heads
  BY ActivatedHasRow, RowsHaveHeads DEF Seen
<1>7. (Seen(p) /\ Gated(p)) => Gated(p)'
  <2> SUFFICES ASSUME Seen(p), Gated(p) PROVE Gated(p)'
    OBVIOUS
  <2>1. CASE UNCHANGED gate
    BY <1>1, <2>1 DEF Gated
  <2>2. CASE SetStatusCheck(s)
    BY <1>1, <1>6, <2>2, StatusSet DEF Gated
  <2> QED
    BY <1>1, <2>1, <2>2
<1>8. ASSUME NEW t \in Scans, t # s, Leads(p, t) PROVE Leads(p, t)'
  <2>1. run'[t] = run[t] /\ status'[t] = status[t]
    BY <1>1, <1>5, <1>8 DEF JobStep
  <2>2. (GivenUp(t)' <=> GivenUp(t)) /\ (Published(t)' <=> Published(t))
    BY <2>1 DEF GivenUp, Published, In
  <2> QED
    BY <1>1, <1>2, <1>3, <1>4, <1>7, <1>8, <2>1, <2>2 DEF Leads
<1>9. ASSUME Leads(p, s) PROVE Leads(p, s)'
  <2>1. PR(s) = p /\ ~ IsStale(s) /\ ~ GivenUp(s)
    BY <1>9 DEF Leads, IsStale
  <2>2. ~ GivenUp(s)'
    BY <1>1, <1>5, <2>1 DEF GivenUp, In, JobStep
  <2>3. ASSUME Seen(p), run'[s].pc \in HeadStages PROVE run'[s].head = head[p]
    BY <1>5, <1>9, <2>1, <2>3 DEF JobStep, Leads
  <2>4. ASSUME Seen(p), Published(s)' PROVE Gated(p)'
    <3>1. CASE SetStatusCheck(s)
      <4>1. run[s].head = head[p]
        BY <1>9, <2>4, <3>1 DEF Leads, SetStatusCheck, In, HeadStages
      <4> QED
        BY <1>1, <2>1, <3>1, <4>1, StatusSet DEF Gated
    <3>2. CASE ~ SetStatusCheck(s)
      <4>1. Published(s)
        BY <1>1, <1>5, <2>4, <3>2 DEF Published, In, JobStep
      <4> QED
        BY <1>7, <1>9, <2>4, <4>1 DEF Leads
    <3> QED
      BY <3>1, <3>2
  <2> QED
    BY <1>1, <1>2, <1>3, <1>4, <1>9, <2>2, <2>3, <2>4 DEF Leads
<1> QED
  BY <1>1, <1>2, <1>3, <1>4, <1>8, <1>9 DEF Led

-----------------------------------------------------------------------------
(* A step of a request handler.                                                *)

(* What it does to the rows, jobs and active heads, beyond what the gateway's own   *)
(* proofs need.                                                               *)
LEMMA HandlerEffects ==
  ASSUME SvcInv, NEW r \in Reqs, Acts(r)
  PROVE  /\ tries' = tries /\ event' = event /\ head' = head
         /\ \A s \in Scans : status[s] = "none" => status'[s] \in {"none", "queued"}
         /\ \A s \in Scans : job[s] # "none" => job'[s] = job[s]
         /\ \A p \in PRs : active'[p] # active[p] => ActivateHead(r) /\ p = ReqEvent(r).pr
         /\ Enqueuing(r)' =>
              /\ job' = job
              /\ \/ Enqueuing(r) /\ req'[r].scan = req[r].scan
                 \/ req'[r].scan \in Scans /\ status[req'[r].scan] = "none"
         /\ At(r, "enqueue")' => ActivateHead(r)
         /\ At(r, "enqueue") => HandlerFails(r) \/ job'[req[r].scan] # "none"
<1> USE DEF SvcInv, GwInv, GwTypeOK, GatewayTypeOK, StoreTypeOK
<1>1. ReqOK(r) /\ OwnOK(r) /\ (req[r] # Idle => req[r] \in Request)
  BY InFlight
<1>2. \A a : Answer(r, a) => req'[r] = Idle
  BY DEF Answer
<1>3. Idle.pc = "idle"
  BY DEF Idle
<1>4. CASE \E d \in Deliveries : Receive(r, d)
  <2>1. req'[r].pc \in {"verify", "idle"} /\ req[r] = Idle
    BY <1>3, <1>4 DEF Receive
  <2> QED
    BY <1>3, <1>4, <2>1 DEF Receive, Enqueuing, At, hostVars, storeVars
<1>5. CASE HandlerFails(r) \/ Respond(r)
  BY <1>2, <1>3, <1>5 DEF HandlerFails, Respond, Enqueuing, At, hostVars, storeVars
<1>6. CASE Verify(r)
  <2>1. req[r] # Idle /\ req[r].pc = "verify"
    BY <1>3, <1>6 DEF Verify, At
  <2>2. req'[r].pc \in {"claim", "idle"}
    BY <1>1, <1>2, <1>3, <1>6, <2>1, GoOn DEF Verify, Steps, hostVars
  <2> QED
    BY <1>6, <2>1, <2>2 DEF Verify, Enqueuing, At, hostVars, storeVars
<1>7. CASE Claim(r)
  <2>1. req[r] # Idle /\ req[r].pc = "claim"
    BY <1>3, <1>7 DEF Claim, At
  <2>2. ClaimedStep(r) \in {"dialog", "insert"} /\ ClaimedStep(r) \in Steps
    BY DEF ClaimedStep, After, Steps
  <2>3. req'[r].pc \in {"dialog", "insert", "idle"}
    BY <1>1, <1>2, <1>3, <1>7, <2>1, <2>2, GoOn DEF Claim, hostVars
  <2> QED
    BY <1>7, <2>1, <2>3 DEF Claim, Enqueuing, At, hostVars, storeVars
<1>8. CASE EnqueueDialog(r)
  <2>1. req[r] # Idle /\ req[r].pc = "dialog"
    BY <1>3, <1>8 DEF EnqueueDialog, At
  <2>2. req'[r].pc = "respond"
    BY <1>8, <2>1, GoOn DEF EnqueueDialog, Steps, hostVars
  <2> QED
    BY <1>8, <2>1, <2>2 DEF EnqueueDialog, Enqueuing, At, hostVars, storeVars
<1>9. CASE InsertRow(r)
  <2>1. At(r, "insert") /\ req[r] # Idle
    BY <1>3, <1>9 DEF InsertRow, At
  <2>2. PICK s \in Scans :
          /\ status[s] = "none"
          /\ status' = [status EXCEPT ![s] = "queued"]
          /\ req' = [req EXCEPT ![r] = [req[r] EXCEPT !.pc = After["insert"], !.scan = s]]
    BY <1>9 DEF InsertRow
  <2>3. req'[r].pc = "stash" /\ req'[r].scan = s
    BY <1>1, <2>1, <2>2 DEF Request, After
  <2> QED
    BY <1>9, <2>1, <2>2, <2>3 DEF InsertRow, Enqueuing, At, hostVars
<1>10. CASE StashEvent(r)
  <2>1. req[r] # Idle /\ req[r].pc = "stash"
    BY <1>3, <1>10 DEF StashEvent, At
  <2>2. req'[r].pc = "activate" /\ req'[r].scan = req[r].scan
    BY <1>10, <2>1, GoOn DEF StashEvent, Steps, After, hostVars
  <2> QED
    BY <1>10, <2>1, <2>2 DEF StashEvent, Enqueuing, At, hostVars
<1>11. CASE ActivateHead(r)
  <2>1. req[r] # Idle /\ req[r].pc = "activate"
    BY <1>3, <1>11 DEF ActivateHead, At
  <2>2. req'[r].pc = "enqueue" /\ req'[r].scan = req[r].scan
    BY <1>11, <2>1, GoOn DEF ActivateHead, Steps, After, hostVars
  <2> QED
    BY <1>11, <2>1, <2>2 DEF ActivateHead, Enqueuing, At, hostVars
<1>12. CASE EnqueueJob(r)
  <2>1. req[r] # Idle /\ req[r].pc = "enqueue" /\ req[r].scan \in Scans /\ job[req[r].scan] = "none"
    BY <1>1, <1>3, <1>12 DEF EnqueueJob, At, ReqOK, OwnOK, Enqueuing
  <2>2. req'[r].pc = "respond"
    BY <1>12, <2>1, GoOn DEF EnqueueJob, Steps, After, hostVars
  <2> QED
    BY <1>12, <2>1, <2>2 DEF EnqueueJob, Enqueuing, At, hostVars
<1> QED
  BY <1>4, <1>5, <1>6, <1>7, <1>8, <1>9, <1>10, <1>11, <1>12 DEF Acts, HandlerStep

(* A new answer "duplicate" comes from a claim that was found.                    *)
LEMMA DuplicatesFound ==
  ASSUME SvcInv, NEW r \in Reqs, Acts(r), NEW d \in Deliveries,
         "duplicate" \in replies'[d], "duplicate" \notin replies[d]
  PROVE  event[d] # None /\ DedupeKey(event[d]) \in claims
<1> USE DEF SvcInv, GwInv, GwTypeOK, GatewayTypeOK
<1>1. ASSUME NEW a, a # "duplicate" PROVE ~ Answer(r, a)
  BY <1>1 DEF Answer
<1>2. Claim(r)
  <2>1. ~ \E e \in Deliveries : Receive(r, e)
    BY DEF Receive
  <2> QED
    BY <1>1, <2>1 DEF Acts, HandlerStep, HandlerFails, Respond, Verify, EnqueueDialog, InsertRow,
                      StashEvent, ActivateHead, EnqueueJob
<1>3. ~ FirstClaim(r) /\ Answer(r, RepeatAnswer(r)) /\ req[r] # Idle
  BY <1>2 DEF Claim, At, Idle
<1>4. d = req[r].d
  BY <1>3, InFlight DEF Answer
<1> QED
  BY <1>3, <1>4 DEF FirstClaim, Key, ReqEvent, ReqOK

(* Rows and active heads stay consistent, and what jobs did stays done.            *)
LEMMA HandlerKeepsRuns ==
  ASSUME SvcInv, NEW r \in Reqs, Acts(r), UNCHANGED pipelineVars
  PROVE  /\ JobsTyped' /\ GatesAreEarned'
         /\ \A d \in Deliveries : EventOK(d)' /\ RepeatOK(d)'
         /\ \A q \in Reqs : OwnOK(q)'
         /\ \A s \in Scans : RunOK(s)'
         /\ \A p \in PRs : ActiveOK(p)'
<1> USE DEF SvcInv
<1>1. /\ tries' = tries /\ event' = event /\ head' = head /\ UNCHANGED <<run, gate>>
      /\ \A s \in Scans : status[s] = "none" => status'[s] \in {"none", "queued"}
      /\ \A s \in Scans : job[s] # "none" => job'[s] = job[s]
      /\ \A p \in PRs : active'[p] # active[p] => ActivateHead(r) /\ p = ReqEvent(r).pr
  BY HandlerEffects DEF pipelineVars
<1>2. /\ \A q \in Reqs \ {r} : req'[q] = req[q]
      /\ \A s \in Scans : status[s] # "none" => status'[s] = status[s] /\ origin'[s] = origin[s]
      /\ \A d \in Deliveries : replies[d] \subseteq replies'[d]
  BY HandlerFrame DEF GwInv, Acts
<1>3. \A s \in Scans : status[s] # "none" => Ev(s)' = Ev(s) /\ PR(s)' = PR(s)
  BY <1>1, <1>2 DEF Ev, PR
<1>4. \A s \in Scans : job[s] # "none" => status[s] # "none"
  BY JobsHaveRows
<1>5. \A s \in Scans : Rival(s) /\ status[s] # "none" => Rival(s)'
  BY <1>2, <1>3 DEF Rival
<1>6. ASSUME NEW s \in Scans PROVE RunOK(s)'
  <2>1. CASE job[s] # "none"
    <3>1. GivenUp(s)' <=> GivenUp(s)
      BY <1>1, <1>2, <1>4, <2>1 DEF GivenUp, In
    <3> QED
      BY <1>1, <1>3, <1>4, <1>5, <2>1, <3>1 DEF RunOK, In
  <2>2. CASE job[s] = "none"
    <3>1. run[s].pc = "off" /\ ~ tries[s] > 0
      BY <2>2 DEF RunOK
    <3>2. GivenUp(s)' => GivenUp(s) /\ status[s] # "none"
      BY <1>1, <1>2, <3>1 DEF GivenUp, In
    <3>3. GivenUp(s)' => Rival(s)'
      BY <1>5, <3>2 DEF RunOK
    <3> QED
      BY <1>1, <3>1, <3>3 DEF RunOK, In, HeadStages
  <2> QED
    BY <2>1, <2>2
<1>7. ASSUME NEW p \in PRs PROVE ActiveOK(p)'
  <2>1. CASE active'[p] = active[p]
    BY <1>2, <1>3, <2>1 DEF ActiveOK
  <2>2. CASE active'[p] # active[p]
    <3>1. ActivateHead(r) /\ p = ReqEvent(r).pr /\ active'[p] = ReqEvent(r).head
      BY <1>1, <2>2, HandlerAdds DEF Acts, GwInv
    <3>2. /\ req[r].scan \in Scans /\ status[req[r].scan] # "none"
          /\ origin[req[r].scan] = req[r].d
      BY <3>1 DEF ActivateHead, GwInv, ReqOK, At
    <3>3. Ev(req[r].scan) = ReqEvent(r)
      BY <3>2 DEF Ev, ReqEvent
    <3>4. PR(req[r].scan) = p /\ Ev(req[r].scan).head = active'[p]
      BY <3>1, <3>3 DEF PR
    <3> QED
      BY <1>2, <1>3, <3>2, <3>4 DEF ActiveOK
  <2> QED
    BY <2>1, <2>2
<1>8. ASSUME NEW q \in Reqs PROVE OwnOK(q)'
  <2>1. \A o \in Reqs : Enqueuing(o) => req[o].scan \in Scans /\ status[req[o].scan] # "none"
    BY DEF GwInv, ReqOK, Enqueuing
  <2>2. \A s \in Scans : status[s] = "none" => job[s] = "none"
    BY <1>4
  <2>3. \A o \in Reqs \ {r} : (Enqueuing(o)' <=> Enqueuing(o)) /\ req'[o].scan = req[o].scan
    BY <1>2 DEF Enqueuing
  <2>4. Enqueuing(r)' =>
          /\ job' = job
          /\ \/ Enqueuing(r) /\ req'[r].scan = req[r].scan
             \/ req'[r].scan \in Scans /\ status[req'[r].scan] = "none"
    BY HandlerEffects
  <2>5. ASSUME NEW s \in Scans, job[s] = "none", job'[s] # "none" PROVE At(r, "enqueue") /\ s = req[r].scan
    BY <2>5, HandlerAdds DEF Acts, GwInv
  <2>6. CASE q # r
    <3>1. Enqueuing(q) => job'[req[q].scan] = "none"
      BY <2>1, <2>5, <2>6 DEF OwnOK, Enqueuing, At
    <3> QED
      BY <2>1, <2>3, <2>4, <2>6, <3>1 DEF OwnOK
  <2>7. CASE q = r
    BY <2>1, <2>2, <2>3, <2>4, <2>7 DEF OwnOK
  <2> QED
    BY <2>6, <2>7
<1>9. ASSUME NEW d \in Deliveries PROVE EventOK(d)' /\ RepeatOK(d)'
  <2>1. EventOK(d)'
    BY <1>1 DEF EventOK
  <2>2. PICK k : k = DedupeKey(event[d])
    OBVIOUS
  <2>3. DedupeKey(event[d])' = k
    BY <1>1, <2>2
  <2>4. ClaimOK(k) => ClaimOK(k)'
    BY WorkStays DEF GwInv
  <2>5. "duplicate" \in replies'[d] => event[d] # None /\ ClaimOK(k)
    BY <2>2, DuplicatesFound DEF RepeatOK, GwInv
  <2> QED
    BY <1>1, <2>1, <2>3, <2>4, <2>5 DEF RepeatOK
<1>10. JobsTyped'
  BY <1>1 DEF JobsTyped, HeadsOK
<1>11. GatesAreEarned'
  <2>1. \A s \in Scans : tries[s] > 0 => Ev(s)' = Ev(s) /\ PR(s)' = PR(s)
    BY <1>3, <1>4 DEF RunOK
  <2> QED
    BY <1>1, <2>1 DEF GatesAreEarned, Heads
<1> QED
  BY <1>6, <1>7, <1>8, <1>9, <1>10, <1>11

(* The request that activates a head makes its scan the leader; one that fails       *)
(* leaves its pull request harmed.                                             *)
LEMMA HandlerKeepsLead ==
  ASSUME SvcInv, NEW r \in Reqs, Acts(r), UNCHANGED pipelineVars, NEW p \in PRs
  PROVE  Led(p)'
<1> USE DEF SvcInv
<1>1. /\ event' = event /\ head' = head /\ UNCHANGED <<run, gate>>
      /\ \A s \in Scans : job[s] # "none" => job'[s] = job[s]
      /\ \A q \in PRs : active'[q] # active[q] => ActivateHead(r) /\ q = ReqEvent(r).pr
      /\ At(r, "enqueue")' => ActivateHead(r)
      /\ At(r, "enqueue") => HandlerFails(r) \/ job'[req[r].scan] # "none"
  BY HandlerEffects DEF pipelineVars
<1>2. /\ \A q \in Reqs \ {r} : req'[q] = req[q]
      /\ \A s \in Scans : status[s] # "none" => status'[s] = status[s] /\ origin'[s] = origin[s]
      /\ \A d \in Deliveries : replies[d] \subseteq replies'[d]
  BY HandlerFrame DEF GwInv, Acts
<1>3. \A s \in Scans : status[s] # "none" => Ev(s)' = Ev(s) /\ PR(s)' = PR(s)
  BY <1>1, <1>2 DEF Ev, PR
<1>4. ReqOK(r) /\ OwnOK(r) /\ (req[r] # Idle => req[r].d \in Deliveries)
  BY InFlight DEF GwInv
<1>5. \A s \in Scans : Activated(s) => status[s] # "none"
  BY ActivatedHasRow
<1>6. At(r, "activate") \/ At(r, "enqueue") =>
        /\ req[r].scan \in Scans /\ status[req[r].scan] = "queued" /\ job[req[r].scan] = "none"
        /\ Ev(req[r].scan) = ReqEvent(r) /\ PR(req[r].scan) = ReqEvent(r).pr
  BY <1>4 DEF ReqOK, OwnOK, Enqueuing, At, Ev, ReqEvent, PR
<1>7. CASE Harmed(p)'
  BY <1>7 DEF Led
<1>8. CASE ActivateHead(r) /\ ReqEvent(r).pr = p
  <2>1. PICK t \in Scans : t = req[r].scan
    BY <1>6, <1>8 DEF ActivateHead
  <2>2. At(r, "activate") /\ t \in Scans /\ status[t] = "queued" /\ job[t] = "none" /\ PR(t) = p
        /\ Ev(t) = ReqEvent(r)
    BY <1>6, <1>8, <2>1 DEF ActivateHead
  <2>3. run[t].pc = "off"
    BY <2>2 DEF RunOK
  <2>4. At(r, "enqueue")' /\ req'[r].scan = t
    <3>1. req[r] # Idle
      BY <2>2 DEF At, Idle
    <3> QED
      BY <1>1, <1>8, <2>1, <3>1, GoOn DEF ActivateHead, Steps, After, At, GwInv
  <2>5. active'[p] = Ev(t).head
    BY <1>8, <2>2 DEF ActivateHead, GwInv, GwTypeOK, StoreTypeOK
  <2>6. Activated(t)' /\ PR(t)' = p /\ Ev(t)' = Ev(t) /\ status'[t] = "queued"
    BY <1>2, <1>3, <2>2, <2>4 DEF Activated
  <2>7. ~ GivenUp(t)' /\ ~ Published(t)' /\ run'[t].pc \notin HeadStages
    BY <1>1, <2>3, <2>6 DEF GivenUp, Published, In, HeadStages
  <2>8. Leads(p, t)'
    BY <2>5, <2>6, <2>7 DEF Leads
  <2> QED
    BY <2>2, <2>8 DEF Led
<1>9. CASE ~ Harmed(p)' /\ ~ (ActivateHead(r) /\ ReqEvent(r).pr = p)
  <2>1. ~ Harmed(p)
    BY <1>1, <1>2, <1>9 DEF Harmed
  <2>2. active'[p] = active[p]
    BY <1>1, <1>9
  <2>3. ASSUME NEW t \in Scans, Activated(t)', PR(t)' = p
        PROVE  Activated(t) /\ PR(t) = p /\ Ev(t)' = Ev(t)
    <3>1. Activated(t)
      <4> SUFFICES ASSUME ~ Activated(t) PROVE FALSE
        OBVIOUS
      <4>1. job[t] = "none" /\ \A q \in Reqs : At(q, "enqueue") => req[q].scan # t
        BY DEF Activated
      <4>2. job'[t] = "none"
        BY <4>1, HandlerAdds DEF Acts, GwInv
      <4>3. PICK q \in Reqs : At(q, "enqueue")' /\ req'[q].scan = t
        BY <2>3, <4>2 DEF Activated
      <4>4. q = r
        BY <1>2, <4>1, <4>3 DEF At
      <4>5. ActivateHead(r) /\ req[r] # Idle
        BY <1>1, <4>3, <4>4 DEF ActivateHead, At, Idle
      <4>6. req[r].scan = t
        BY <1>1, <4>3, <4>4, <4>5, GoOn DEF ActivateHead, Steps, After, GwInv
      <4>7. PR(t) = ReqEvent(r).pr /\ status[t] # "none"
        BY <1>6, <4>5, <4>6 DEF ActivateHead
      <4> QED
        BY <1>3, <1>9, <2>3, <4>5, <4>7
    <3> QED
      BY <1>3, <1>5, <2>3, <3>1
  <2>4. Seen(p)' => Seen(p)
    BY <1>1, <2>3 DEF Seen
  <2>5. ASSUME NEW t \in Scans, Leads(p, t) PROVE Leads(p, t)'
    <3>1. Activated(t) /\ PR(t) = p /\ status[t] # "none"
      BY <1>5, <2>5 DEF Leads
    <3>2. Activated(t)'
      <4>1. CASE job[t] # "none"
        BY <1>1, <4>1 DEF Activated
      <4>2. ASSUME NEW q \in Reqs, At(q, "enqueue"), req[q].scan = t PROVE Activated(t)'
        <5>1. CASE q # r
          BY <1>2, <4>2, <5>1 DEF Activated, At
        <5>2. CASE q = r
          <6>1. ReqEvent(r).pr = p /\ req[r] # Idle /\ event[req[r].d] # None /\ req[r].d \in Deliveries
            BY <1>4, <1>6, <3>1, <4>2, <5>2 DEF At, Idle, ReqOK
          <6>2. ~ HandlerFails(r)
            <7>1. HandlerFails(r) => "failed" \in replies'[req[r].d]
              BY <6>1 DEF HandlerFails, Answer, GwInv, GwTypeOK, GatewayTypeOK
            <7> QED
              BY <1>1, <1>9, <6>1, <7>1 DEF Harmed, ReqEvent
          <6> QED
            BY <1>1, <4>2, <5>2, <6>2 DEF Activated
        <5> QED
          BY <5>1, <5>2
      <4> QED
        BY <3>1, <4>1, <4>2 DEF Activated
    <3>3. (GivenUp(t)' <=> GivenUp(t)) /\ (Published(t)' <=> Published(t)) /\ (Gated(p)' <=> Gated(p))
      BY <1>1, <1>2, <3>1 DEF GivenUp, Published, Gated, In
    <3> QED
      BY <1>1, <1>3, <2>2, <2>4, <2>5, <3>1, <3>2, <3>3 DEF Leads
  <2>6. CASE \A s \in Scans : Activated(s) => PR(s) # p
    BY <2>3, <2>6 DEF Led
  <2> QED
    BY <2>1, <2>5, <2>6 DEF Led
<1> QED
  BY <1>7, <1>8, <1>9

-----------------------------------------------------------------------------
(* Keys that lapse.                                                           *)

(* No active head is as good as the leader's own.                               *)
LEMMA ExpiryKeeps ==
  ASSUME SvcInv, (\E k \in claims : ExpireClaim(k)) \/ ExpireKeys, UNCHANGED pipelineVars
  PROVE  SvcInv'
<1> USE DEF SvcInv
<1>1. /\ UNCHANGED <<head, event, status, origin, job, tries, req, replies>>
      /\ UNCHANGED <<run, gate>>
  BY DEF ExpireClaim, ExpireKeys, hostVars, storeVars, gatewayVars, pipelineVars
<1>2. \A p \in PRs : active'[p] \in {0, active[p]}
  BY DEF ExpireClaim, ExpireKeys, ExpireActive, storeVars, GwInv, GwTypeOK, StoreTypeOK
<1>3. GwInv'
  BY ExpiryStays
<1>4. \A s \in Scans : Ev(s)' = Ev(s) /\ PR(s)' = PR(s)
  BY <1>1 DEF Ev, PR
<1>5. JobsTyped' /\ GatesAreEarned'
  BY <1>1, <1>4 DEF JobsTyped, HeadsOK, GatesAreEarned, Heads
<1>6. ASSUME NEW d \in Deliveries PROVE EventOK(d)' /\ RepeatOK(d)'
  <2>1. PICK k : k = DedupeKey(event[d])
    OBVIOUS
  <2>2. DedupeKey(event[d])' = k /\ (ClaimOK(k) => ClaimOK(k)')
    BY <1>1, <2>1, ClaimKept
  <2> QED
    BY <1>1, <2>1, <2>2 DEF EventOK, RepeatOK
<1>7. ASSUME NEW r \in Reqs PROVE OwnOK(r)'
  BY <1>1 DEF OwnOK, Enqueuing
<1>8. ASSUME NEW s \in Scans PROVE RunOK(s)'
  BY <1>1, <1>4 DEF RunOK, In, GivenUp, Rival
<1>9. ASSUME NEW p \in PRs PROVE ActiveOK(p)' /\ Led(p)'
  <2>1. ActiveOK(p)'
    BY <1>1, <1>2, <1>4 DEF ActiveOK
  <2>2. ASSUME NEW s \in Scans
        PROVE  /\ Activated(s)' <=> Activated(s)
               /\ GivenUp(s)' <=> GivenUp(s)
               /\ Published(s)' <=> Published(s)
    <3>1. Activated(s)' <=> Activated(s)
      BY <1>1 DEF Activated, At
    <3>2. (GivenUp(s)' <=> GivenUp(s)) /\ (Published(s)' <=> Published(s))
      BY <1>1 DEF GivenUp, In, Published
    <3> QED
      BY <3>1, <3>2
  <2>3. (Harmed(p)' <=> Harmed(p)) /\ (Seen(p)' <=> Seen(p)) /\ (Gated(p)' <=> Gated(p))
    <3>1. (Harmed(p)' <=> Harmed(p)) /\ (Gated(p)' <=> Gated(p))
      BY <1>1 DEF Harmed, Gated
    <3>2. Seen(p)' <=> Seen(p)
      BY <1>1, <1>4, <2>2 DEF Seen
    <3> QED
      BY <3>1, <3>2
  <2>4. \A s \in Scans : Leads(p, s) => Leads(p, s)'
    BY <1>1, <1>2, <1>4, <2>2, <2>3 DEF Leads
  <2> QED
    BY <1>4, <2>1, <2>2, <2>3, <2>4 DEF Led
<1> QED
  BY <1>3, <1>5, <1>6, <1>7, <1>8, <1>9

-----------------------------------------------------------------------------
(* The host.                                                                 *)

(* An event that the host emits names a head that the pull request has.           *)
LEMMA EmittedHead ==
  ASSUME GwInv, NEW k \in Kinds, NEW p \in PRs, NEW h, NEW ok \in BOOLEAN,
         Emit(k, p, h, ok)
  PROVE  \A d \in Deliveries :
           \/ event'[d] = event[d]
           \/ /\ event[d] = None
              /\ event'[d].kind = k /\ event'[d].pr = p /\ event'[d].head = h
              /\ (event'[d].signed <=> ok)
<1>1. PICK d \in Deliveries, hdr \in Deliveries \cup {None} :
        /\ event[d] = None
        /\ event' = [event EXCEPT ![d] =
             [kind |-> k, pr |-> p, head |-> h, hdr |-> hdr, signed |-> ok]]
  BY DEF Emit
<1> QED
  BY <1>1 DEF GwInv, GwTypeOK, HostTypeOK

(* Heads only grow, and no emitted event changes.                                *)
LEMMA HostFrame ==
  ASSUME SvcInv, NEW p \in PRs, Push(p) \/ Touch(p) \/ Missigned(p)
  PROVE  /\ \A q \in PRs : head[q] \in Nat /\ head'[q] \in Nat /\ head[q] <= head'[q]
         /\ \A d \in Deliveries : event[d] # None => event'[d] = event[d]
         /\ \A d \in Deliveries : EventOK(d)'
<1> USE DEF SvcInv
<1>1. head \in [PRs -> 0 .. MaxHead] /\ MaxHead \in Nat /\ event \in [Deliveries -> Event \cup {None}]
  BY HostAssumption DEF GwInv, GwTypeOK, HostTypeOK
<1>2. "pr" \in Kinds /\ "comment" \in Kinds /\ "pr" # "comment"
  BY DEF Kinds
<1>3. CASE Push(p)
  <2>1. head' = [head EXCEPT ![p] = head[p] + 1] /\ Emit("pr", p, head[p] + 1, TRUE)
    BY <1>3 DEF Push, Advance
  <2>2. \A q \in PRs : head[q] \in Nat /\ head'[q] \in Nat /\ head[q] <= head'[q]
    BY <1>1, <2>1
  <2>3. \A d \in Deliveries :
          \/ event'[d] = event[d]
          \/ /\ event[d] = None
             /\ event'[d].kind = "pr" /\ event'[d].pr = p /\ event'[d].head = head'[p]
    <3>1. head[p] + 1 \in 0 .. MaxHead /\ head'[p] = head[p] + 1
      BY <1>1, <1>3, <2>1 DEF Push, Advance
    <3>2. PICK h \in 0 .. MaxHead : h = head[p] + 1
      BY <3>1
    <3>3. Emit("pr", p, h, TRUE)
      BY <2>1, <3>2
    <3>4. \A d \in Deliveries :
            \/ event'[d] = event[d]
            \/ /\ event[d] = None
               /\ event'[d].kind = "pr" /\ event'[d].pr = p /\ event'[d].head = h
               /\ (event'[d].signed <=> TRUE)
      BY <1>2, <3>3, EmittedHead
    <3> QED
      BY <3>1, <3>2, <3>4
  <2>4. ASSUME NEW d \in Deliveries PROVE EventOK(d)'
    <3>1. CASE event'[d] = event[d]
      <4>1. event[d] # None /\ event[d].signed => event[d].head <= head'[event[d].pr]
        <5> SUFFICES ASSUME event[d] # None, event[d].signed PROVE event[d].head <= head'[event[d].pr]
          OBVIOUS
        <5>1. event[d].pr \in PRs /\ event[d].head \in Nat /\ event[d].head <= head[event[d].pr]
          BY <1>1 DEF EventOK, Event
        <5> QED
          BY <2>2, <5>1
      <4> QED
        BY <3>1, <4>1 DEF EventOK
    <3>2. CASE event'[d] # event[d]
      BY <2>2, <2>3, <3>2 DEF EventOK
    <3> QED
      BY <3>1, <3>2
  <2> QED
    BY <2>2, <2>3, <2>4
<1>4. CASE Touch(p)
  <2>1. head' = head /\ Emit("pr", p, head[p], TRUE)
    BY <1>4 DEF Touch
  <2>2. \A d \in Deliveries :
          \/ event'[d] = event[d]
          \/ /\ event[d] = None
             /\ event'[d].kind = "pr" /\ event'[d].pr = p /\ event'[d].head = head[p]
    <3>1. PICK h \in 0 .. MaxHead : h = head[p]
      BY <1>1
    <3>2. Emit("pr", p, h, TRUE)
      BY <2>1, <3>1
    <3>3. \A d \in Deliveries :
            \/ event'[d] = event[d]
            \/ /\ event[d] = None
               /\ event'[d].kind = "pr" /\ event'[d].pr = p /\ event'[d].head = h
               /\ (event'[d].signed <=> TRUE)
      BY <1>2, <3>2, EmittedHead
    <3> QED
      BY <3>1, <3>3
  <2>3. \A q \in PRs : head[q] \in Nat /\ head[q] <= head[q]
    BY <1>1
  <2> QED
    BY <2>1, <2>2, <2>3 DEF EventOK
<1>5. CASE Missigned(p)
  <2>1. head' = head /\ \E h \in Heads : Emit("pr", p, h, FALSE) \/ Emit("comment", p, 0, FALSE)
    BY <1>5 DEF Missigned
  <2>2. \A d \in Deliveries :
          \/ event'[d] = event[d]
          \/ /\ event[d] = None /\ ~ event'[d].signed
             /\ event'[d].kind # "comment" \/ event'[d].head = 0
    <3>1. PICK h \in Heads : Emit("pr", p, h, FALSE) \/ Emit("comment", p, 0, FALSE)
      BY <2>1
    <3>2. h \in 0 .. MaxHead /\ 0 \in 0 .. MaxHead
      BY <1>1 DEF Heads
    <3>3. CASE Emit("pr", p, h, FALSE)
      BY <1>2, <3>2, <3>3, EmittedHead
    <3>4. CASE Emit("comment", p, 0, FALSE)
      <4>1. PICK n \in 0 .. MaxHead : n = 0
        BY <3>2
      <4>2. Emit("comment", p, n, FALSE)
        BY <3>4, <4>1
      <4>3. \A d \in Deliveries :
              \/ event'[d] = event[d]
              \/ /\ event[d] = None
                 /\ event'[d].kind = "comment" /\ event'[d].pr = p /\ event'[d].head = n
                 /\ (event'[d].signed <=> FALSE)
        BY <1>2, <4>2, EmittedHead
      <4> QED
        BY <4>1, <4>3
    <3> QED
      BY <3>1, <3>3, <3>4
  <2>3. \A q \in PRs : head[q] \in Nat /\ head[q] <= head[q]
    BY <1>1
  <2> QED
    BY <2>1, <2>2, <2>3 DEF EventOK
<1> QED
  BY <1>3, <1>4, <1>5

(* No scan has seen a head that was just pushed.                                 *)
LEMMA HostKeeps ==
  ASSUME SvcInv, HostStep
  PROVE  SvcInv'
<1> USE DEF SvcInv
<1>1. PICK p \in PRs : Push(p) \/ Touch(p) \/ Missigned(p)
  BY DEF HostStep
<1>2. /\ UNCHANGED <<status, origin, active, job, tries, req, replies, claims>>
      /\ UNCHANGED <<run, gate>>
  BY DEF HostStep, storeVars, gatewayVars, pipelineVars
<1>3. GwInv'
  <2>1. HostNext /\ UNCHANGED <<storeVars, gatewayVars>>
    BY <1>1 DEF HostNext, HostStep
  <2> QED
    BY <2>1, HostStays
<1>4. /\ \A q \in PRs : head[q] \in Nat /\ head'[q] \in Nat /\ head[q] <= head'[q]
      /\ \A d \in Deliveries : event[d] # None => event'[d] = event[d]
      /\ \A d \in Deliveries : EventOK(d)'
  BY <1>1, HostFrame
<1>5. \A s \in Scans : status[s] # "none" => Ev(s)' = Ev(s) /\ PR(s)' = PR(s)
  BY <1>2, <1>4 DEF GwInv, ScanOK, Ev, PR
<1>6. \A s \in Scans : tries[s] > 0 \/ run[s].pc # "off" => status[s] # "none"
  BY JobsHaveRows DEF RunOK
<1>7. JobsTyped' /\ GatesAreEarned'
  BY <1>2, <1>5, <1>6 DEF JobsTyped, HeadsOK, GatesAreEarned, Heads
<1>8. ASSUME NEW d \in Deliveries PROVE RepeatOK(d)'
  <2>1. PICK k : k = DedupeKey(event[d])
    OBVIOUS
  <2>2. ClaimOK(k) => ClaimOK(k)'
    BY <1>2, <1>4, ClaimKept
  <2>3. event[d] # None => DedupeKey(event[d])' = k
    BY <1>4, <2>1
  <2> QED
    BY <1>2, <1>4, <2>1, <2>2, <2>3 DEF RepeatOK
<1>9. ASSUME NEW r \in Reqs PROVE OwnOK(r)'
  BY <1>2 DEF OwnOK, Enqueuing
<1>10. ASSUME NEW s \in Scans PROVE RunOK(s)'
  <2>1. GivenUp(s)' <=> GivenUp(s)
    BY <1>2 DEF GivenUp, In
  <2>2. GivenUp(s) => status[s] # "none"
    BY <1>6 DEF GivenUp, In
  <2>3. GivenUp(s) => Rival(s)'
    BY <1>2, <1>5, <2>2 DEF RunOK, Rival
  <2>4. run[s].pc \in HeadStages => Ev(s)' = Ev(s)
    BY <1>5, <1>6 DEF HeadStages
  <2> QED
    BY <1>2, <2>1, <2>3, <2>4 DEF RunOK, In
<1>11. ASSUME NEW q \in PRs PROVE ActiveOK(q)' /\ Led(q)'
  <2>1. ActiveOK(q)'
    BY <1>2, <1>5 DEF ActiveOK
  <2>2. \A s \in Scans : Activated(s)' <=> Activated(s)
    BY <1>2 DEF Activated, At
  <2>3. \A s \in Scans : Activated(s) =>
          /\ Ev(s)' = Ev(s) /\ PR(s)' = PR(s)
          /\ Ev(s).head \in Nat /\ Ev(s).head <= head[PR(s)]
    BY <1>5, ActivatedHasRow, RowsHaveHeads DEF Heads
  <2>4. Seen(q)' => Seen(q) /\ head'[q] = head[q]
    <3> SUFFICES ASSUME Seen(q)' PROVE Seen(q) /\ head'[q] = head[q]
      OBVIOUS
    <3>1. PICK s \in Scans : Activated(s)' /\ PR(s)' = q /\ Ev(s)'.head = head'[q]
      BY DEF Seen
    <3>2. Activated(s) /\ PR(s) = q /\ Ev(s).head = head'[q] /\ Ev(s).head <= head[q]
      BY <2>2, <2>3, <3>1
    <3>3. head'[q] = head[q]
      BY <1>4, <3>2
    <3> QED
      BY <3>2, <3>3 DEF Seen
  <2>5. Harmed(q) => Harmed(q)'
    BY <1>2, <1>4 DEF Harmed
  <2>6. ASSUME NEW s \in Scans, Leads(q, s) PROVE Leads(q, s)'
    <3>1. (GivenUp(s)' <=> GivenUp(s)) /\ (Published(s)' <=> Published(s))
      BY <1>2 DEF GivenUp, Published, In
    <3>2. head'[q] = head[q] => (Gated(q)' <=> Gated(q))
      BY <1>2 DEF Gated
    <3> QED
      BY <1>2, <2>2, <2>3, <2>4, <2>6, <3>1, <3>2 DEF Leads
  <2> QED
    BY <2>1, <2>2, <2>3, <2>5, <2>6 DEF Led
<1> QED
  BY <1>2, <1>3, <1>4, <1>7, <1>8, <1>9, <1>10, <1>11

-----------------------------------------------------------------------------

(* A new service has no rows.                                                  *)
LEMMA SvcInvInit == Init => SvcInv
<1> SUFFICES ASSUME Init PROVE SvcInv
  OBVIOUS
<1>1. GwInv
  BY GwInvInit DEF Init, GwInit
<1>2. /\ \A d \in Deliveries : event[d] = None /\ replies[d] = {}
      /\ \A r \in Reqs : req[r].pc = "idle"
      /\ \A s \in Scans : status[s] = "none" /\ job[s] = "none" /\ tries[s] = 0 /\ run[s] = NoRun
      /\ \A p \in PRs : active[p] = 0
      /\ gate = [p \in PRs |-> [h \in Heads |-> NoGate]]
      /\ run = [s \in Scans |-> NoRun]
  BY DEF Init, HostInit, StoreInit, GatewayInit, PipelineInit, Idle
<1>3. NoRun \in Run /\ NoRun.pc = "off" /\ NoGate \in Gate /\ NoGate.state = "none"
  BY HostAssumption DEF NoRun, Run, NoGate, Gate
<1>4. JobsTyped
  BY <1>2, <1>3 DEF JobsTyped, HeadsOK, DiffStages
<1>5. GatesAreEarned
  BY <1>2, <1>3 DEF GatesAreEarned
<1>6. \A d \in Deliveries : EventOK(d) /\ RepeatOK(d)
  BY <1>2 DEF EventOK, RepeatOK
<1>7. \A r \in Reqs : OwnOK(r)
  BY <1>2 DEF OwnOK, Enqueuing
<1>8. \A s \in Scans : RunOK(s)
  BY <1>2, <1>3 DEF RunOK, HeadStages, In, GivenUp
<1>9. \A p \in PRs : ActiveOK(p) /\ Led(p)
  BY <1>2 DEF ActiveOK, Led, Activated, At
<1> QED
  BY <1>1, <1>4, <1>5, <1>6, <1>7, <1>8, <1>9 DEF SvcInv

(* Every step keeps the invariant.                                             *)
LEMMA SvcInvNext ==
  ASSUME SvcInv, [Next]_serviceVars
  PROVE  SvcInv'
<1>1. CASE FeedbackStep \/ UNCHANGED serviceVars
  <2>1. /\ UNCHANGED <<head, event, status, origin, stash, active, job, tries>>
        /\ UNCHANGED <<req, posts, replies, claims, lapsed, dialogs, run, gate>>
    BY <1>1 DEF FeedbackStep, MarkFalsePositive, serviceVars, hostVars, storeVars, gatewayVars, pipelineVars
  <2>2. GwInv'
    BY <2>1, GwInvNext DEF SvcInv, gwVars, hostVars, storeVars, gatewayVars
  <2>3. JobsTyped' /\ GatesAreEarned'
    BY <2>1 DEF SvcInv, JobsTyped, HeadsOK, GatesAreEarned, Ev, PR
  <2>4. \A d \in Deliveries : EventOK(d)' /\ RepeatOK(d)'
    BY <2>1 DEF SvcInv, EventOK, RepeatOK, ClaimOK, OriginKey, Ev, Key, ReqEvent
  <2>5. /\ \A r \in Reqs : OwnOK(r)'
        /\ \A s \in Scans : RunOK(s)'
    BY <2>1 DEF SvcInv, OwnOK, Enqueuing, RunOK, GivenUp, Rival, In, Ev, PR
  <2>6. \A p \in PRs : ActiveOK(p)' /\ Led(p)'
    BY <2>1 DEF SvcInv, ActiveOK, Led, Harmed, Leads, Activated, At, Seen, Gated, Published, GivenUp, In, Ev, PR
  <2> QED
    BY <2>2, <2>3, <2>4, <2>5, <2>6 DEF SvcInv
<1>2. CASE HostStep
  BY <1>2, HostKeeps
<1>3. CASE GatewayStep
  <2>1. GwInv'
    BY <1>3, GwInvNext DEF GatewayStep, GwNext, SvcInv
  <2>2. ASSUME NEW r \in Reqs, Acts(r) PROVE SvcInv'
    BY <1>3, <2>1, <2>2, HandlerKeepsRuns, HandlerKeepsLead DEF GatewayStep, SvcInv
  <2> QED
    BY <1>3, <2>2, ExpiryKeeps DEF GatewayStep, GatewayNext, Acts
<1>4. CASE PipelineStep
  <2>1. PICK s \in Scans : Works(s) /\ UNCHANGED gatewayVars
    BY <1>4 DEF PipelineStep, PipelineNext, Works
  <2> QED
    BY <2>1, WorkKeepsGateway, WorkKeepsRuns, WorkKeepsLead DEF SvcInv
<1> QED
  BY <1>1, <1>2, <1>3, <1>4 DEF Next

(* Hence the invariant.                                                       *)
LEMMA SvcInvAlways == Spec => []SvcInv
  BY SvcInvInit, SvcInvNext, PTL DEF Spec

(* A delivery that was taken for the current head of p and did not fail stands for    *)
(* a scan of that head whose job was enqueued.                                  *)
LEMMA TakenMeansSeen ==
  ASSUME SvcInv, Quiescent, NEW p \in PRs, head[p] > 0, Announced(p, head[p]), ~ Harmed(p)
  PROVE  Seen(p)
<1> USE DEF SvcInv, GwInv
<1>1. PICK d \in Deliveries :
        event[d] # None /\ event[d].signed /\ event[d].pr = p /\ event[d].head = head[p]
  BY DEF Announced
<1>2. event[d].kind = "pr" /\ replies[d] \cap {"queued", "duplicate"} # {}
  BY <1>1 DEF EventOK, Quiescent
<1>3. CASE "queued" \in replies[d]
  BY <1>1, <1>2, <1>3 DEF DeliveryOK, Seen, Activated, Ev, PR
<1>4. CASE "duplicate" \in replies[d]
  <2>1. ClaimOK(DedupeKey(event[d]))
    BY <1>4 DEF RepeatOK
  <2>2. ASSUME NEW e \in Deliveries, event[e] # None, DedupeKey(event[e]) = DedupeKey(event[d])
        PROVE  event[e].kind # "comment" /\ "failed" \notin replies[e]
    <3>1. event[e].pr = p /\ event[e].head = head[p]
      BY <1>1, <2>2 DEF DedupeKey
    <3> QED
      BY <2>2, <3>1 DEF EventOK, Harmed
  <2>3. \A r \in Reqs : req[r].pc = "idle"
    BY DEF Quiescent, NoRequest, Idle
  <2>4. PICK s \in Scans : status[s] # "none" /\ OriginKey(s) = DedupeKey(event[d]) /\ job[s] # "none"
    BY <2>1, <2>2, <2>3 DEF ClaimOK
  <2>5. PR(s) = p /\ Ev(s).head = head[p]
    BY <1>1, <2>4 DEF OriginKey, DedupeKey, PR
  <2> QED
    BY <2>4, <2>5 DEF Seen, Activated
<1> QED
  BY <1>2, <1>3, <1>4

(* Once all is at rest and nothing failed, the current head of every announced pull   *)
(* request has its status: superseding never leaves the head to a scan that gives    *)
(* up.                                                                        *)
THEOREM HeadNotLeftAlone == Spec => []HeadIsGated
<1>1. SvcInv => HeadIsGated
  <2> SUFFICES ASSUME SvcInv, Quiescent, NEW p \in PRs,
                      head[p] > 0, Announced(p, head[p]), Unharmed(p)
               PROVE  Gated(p)
    BY DEF HeadIsGated, Gated
  <2>1. ~ Harmed(p)
    BY DEF Unharmed, Harmed
  <2>2. Seen(p)
    BY <2>1, TakenMeansSeen
  <2>3. PICK s \in Scans : Leads(p, s)
    BY <2>1, <2>2 DEF SvcInv, Led, Seen
  <2>4. status[s] # "none" /\ PR(s) = p
    BY <2>3, ActivatedHasRow DEF Leads
  <2>5. ~ GivenUp(s)
    BY <2>3 DEF Leads
  <2>6. status[s] = "completed"
    BY <2>4, <2>5 DEF Unharmed, GivenUp
  <2> QED
    BY <2>2, <2>3, <2>6 DEF Leads, Published
<1> QED
  BY <1>1, SvcInvAlways, PTL

(* A scan is superseded only when another head of its pull request has a scan.      *)
THEOREM NoVainSuperseding == Spec => []SupersededHasRival
<1>1. SvcInv => SupersededHasRival
  BY DEF SvcInv, RunOK, GivenUp, Rival, SupersededHasRival
<1> QED
  BY <1>1, SvcInvAlways, PTL

(* A status is published only by a scan that ran for a verified delivery, on the head *)
(* that it named or a later one.                                               *)
THEOREM StatusesAreEarned == Spec => []GatesAreEarned
<1>1. SvcInv => GatesAreEarned
  BY DEF SvcInv
<1> QED
  BY <1>1, SvcInvAlways, PTL

-----------------------------------------------------------------------------
(* What the pipeline's own proofs say of jobs holds whatever goes on around them  *)
(* (Moves): it is left to see that the host, the handlers, the keys that lapse and  *)
(* the feedback are such surroundings.                                          *)

(* A scan is known by its row.                                                 *)
LEMMA KnownHasRow ==
  ASSUME SvcInv, NEW s \in Scans
  PROVE  Known(s) <=> status[s] # "none"
  BY JobsHaveRows DEF Known, SvcInv, RunOK

(* The types of the pipeline's own proofs follow from the invariant.               *)
LEMMA SvcTyped ==
  ASSUME SvcInv, PipelineTypeOK
  PROVE  Typed
<1>1. Fit
  BY DEF Fit, PlTypeOK, SvcInv, GwInv, GwTypeOK, JobsTyped
<1>2. ASSUME NEW s \in Scans, Known(s)
      PROVE  origin[s] \in Deliveries /\ Ev(s) \in Event /\ head[PR(s)] \in Heads
  <2>1. status[s] # "none"
    BY <1>2, KnownHasRow
  <2>2. origin[s] \in Deliveries /\ event[origin[s]] # None
    BY <2>1 DEF SvcInv, GwInv, ScanOK
  <2> QED
    BY <2>1, <2>2, RowsHaveHeads DEF Ev, SvcInv, GwInv, GwTypeOK, HostTypeOK
<1> QED
  BY <1>1, <1>2 DEF Typed, EventsOK

(* The host, the gateway and the feedback leave the jobs alone.                    *)
LEMMA ServiceAround ==
  ASSUME SvcInv, PipelineTypeOK, HostStep \/ GatewayStep \/ FeedbackStep \/ UNCHANGED serviceVars
  PROVE  Around /\ PipelineTypeOK' /\ ("expiry" \notin Faults => Enqueues)
<1> USE DEF SvcInv
<1>1. /\ feedback \in [Prints -> 0 .. Threshold] /\ Threshold \in Nat
      /\ head \in [PRs -> 0 .. MaxHead] /\ MaxHead \in Nat
  BY HostAssumption, PipelineAssumption DEF PipelineTypeOK, GwInv, GwTypeOK, HostTypeOK
<1>2. /\ UNCHANGED <<run, stored, comments, summaries, gate, reviews, decision>>
      /\ feedback' \in [Prints -> 0 .. Threshold]
      /\ \A k \in Prints : feedback[k] <= feedback'[k]
  <2>1. CASE \E k \in Prints : MarkFalsePositive(k)
    BY <1>1, <2>1 DEF MarkFalsePositive
  <2>2. CASE UNCHANGED pipelineVars
    BY <1>1, <2>2 DEF pipelineVars
  <2> QED
    BY <2>1, <2>2, Zenon DEF HostStep, GatewayStep, FeedbackStep, serviceVars
<1>3. PipelineTypeOK'
  BY <1>2 DEF PipelineTypeOK
<1>4. \A s \in Scans : Known(s) <=> status[s] # "none"
  BY KnownHasRow
<1>5. \A s \in Scans : job[s] # "none" => status[s] # "none"
  BY JobsHaveRows
<1>6. CASE \E r \in Reqs : Acts(r) /\ UNCHANGED pipelineVars
  <2>1. PICK r \in Reqs : Acts(r) /\ UNCHANGED pipelineVars
    BY <1>6
  <2>2. /\ tries' = tries /\ event' = event /\ head' = head
        /\ \A s \in Scans : status[s] = "none" => status'[s] \in {"none", "queued"}
        /\ \A s \in Scans : job[s] # "none" => job'[s] = job[s]
    BY <2>1, HandlerEffects
  <2>3. /\ stash \subseteq stash'
        /\ \A s \in Scans : status[s] # "none" => status'[s] = status[s] /\ origin'[s] = origin[s]
        /\ \A s \in Scans : (job[s] = "none" /\ job'[s] # "none") =>
             At(r, "enqueue") /\ s = req[r].scan
    BY <2>1, HandlerFrame, HandlerAdds DEF Acts, GwInv
  <2>4. Around
    BY <1>1, <1>2, <1>4, <2>2, <2>3 DEF Around, Ev
  <2>5. ASSUME NEW s \in Scans, job[s] = "none", job'[s] # "none"
        PROVE  job'[s] = "queued" /\ s \in stash'
    <3>1. At(r, "enqueue") /\ s = req[r].scan /\ s \in stash
      BY <2>3, <2>5 DEF GwInv, ReqOK, At
    <3>2. EnqueueJob(r)
      BY <2>1, <2>5
      DEF Acts, HandlerStep, HandlerFails, Receive, Verify, Claim, EnqueueDialog, InsertRow,
          StashEvent, ActivateHead, Respond, storeVars
    <3> QED
      BY <2>3, <3>1, <3>2 DEF EnqueueJob, GwInv, GwTypeOK, StoreTypeOK
  <2>6. Enqueues
    BY <2>2, <2>3, <2>5 DEF Enqueues
  <2> QED
    BY <1>3, <2>4, <2>6
<1>7. CASE HostStep
  <2>1. PICK p \in PRs : Push(p) \/ Touch(p) \/ Missigned(p)
    BY <1>7 DEF HostStep
  <2>2. UNCHANGED <<status, origin, stash, job, tries>>
    BY <1>7 DEF HostStep, storeVars
  <2>3. /\ \A q \in PRs : head[q] <= head'[q]
        /\ \A d \in Deliveries : event[d] # None => event'[d] = event[d]
    BY <2>1, HostFrame
  <2>4. \A s \in Scans : status[s] # "none" => Ev(s)' = Ev(s)
    BY <2>2, <2>3 DEF GwInv, ScanOK, Ev
  <2> QED
    BY <1>2, <1>3, <1>4, <2>2, <2>3, <2>4 DEF Around, Enqueues
<1>8. CASE /\ UNCHANGED <<head, event, status, origin, job, tries>>
           /\ "expiry" \notin Faults => UNCHANGED stash
  <2>1. \A p \in PRs : head[p] <= head[p]
    BY <1>1
  <2>2. Around
    BY <1>2, <1>4, <1>8, <2>1 DEF Around, Ev
  <2> QED
    BY <1>3, <1>8, <2>2 DEF Enqueues
<1>9. CASE (\E k \in claims : ExpireClaim(k)) \/ ExpireKeys
  BY <1>8, <1>9 DEF ExpireClaim, ExpireKeys, ExpireStash, ExpireActive, hostVars, storeVars
<1>10. CASE FeedbackStep \/ UNCHANGED serviceVars
  BY <1>8, <1>10 DEF FeedbackStep, MarkFalsePositive, serviceVars, hostVars, storeVars
<1> QED
  BY <1>6, <1>7, <1>9, <1>10 DEF GatewayStep, GatewayNext, Acts

(* So every step of the service is one of the pipeline's moves.                    *)
LEMMA ServiceMoves ==
  ASSUME SvcInv, PipelineTypeOK, [Next]_serviceVars
  PROVE  /\ PipelineTypeOK' /\ Moves
         /\ "expiry" \notin Faults => (Around /\ Enqueues) \/ \E s \in Scans : Works(s)
<1>1. CASE PipelineStep
  <2>1. PICK s \in Scans : Works(s)
    BY <1>1 DEF PipelineStep, PipelineNext, Works
  <2>2. Typed'
    BY <2>1, SvcTyped, TypedWorks
  <2> QED
    BY <2>1, <2>2 DEF Moves, Typed, Fit, PlTypeOK
<1>2. CASE HostStep \/ GatewayStep \/ FeedbackStep \/ UNCHANGED serviceVars
  BY <1>2, ServiceAround DEF Moves
<1> QED
  BY <1>1, <1>2 DEF Next

(* A new service is typed, and its jobs have nothing to keep.                      *)
LEMMA ServiceInit ==
  ASSUME Init
  PROVE  PipelineTypeOK /\ GateInv /\ OutcomeInv /\ SettleInv
<1>1. /\ run = [s \in Scans |-> NoRun] /\ gate = [p \in PRs |-> [h \in Heads |-> NoGate]]
      /\ stored = [s \in Scans |-> [f \in Findings |-> 0]]
      /\ comments = [s \in Scans |-> [f \in Findings |-> 0]]
      /\ summaries = [s \in Scans |-> 0] /\ reviews = [s \in Scans |-> 0]
      /\ decision = [s \in Scans |-> "none"] /\ feedback = [k \in Prints |-> 0]
      /\ \A s \in Scans : status[s] = "none" /\ job[s] = "none" /\ tries[s] = 0
  BY DEF Init, PipelineInit, StoreInit
<1>2. PipelineTypeOK
  BY <1>1, HostAssumption, PipelineAssumption DEF PipelineTypeOK, NoRun, Run, NoGate, Gate, Verdicts
<1>3. Typed
  BY <1>2, SvcInvInit, SvcTyped
<1>4. \A s \in Scans : run[s].pc = "off"
  BY <1>1 DEF NoRun
<1>5. GateInv
  <2>1. GateOK
    BY <1>1 DEF GateOK, NoGate
  <2>2. \A s \in Scans : JobOK(s)
    BY <1>4 DEF JobOK, DiffStages
  <2> QED
    BY <1>3, <2>1, <2>2 DEF GateInv
<1>6. \A s \in Scans : TryOK(s) /\ StoredOK(s) /\ PublishedOK(s)
  BY <1>1, <1>4 DEF TryOK, StoredOK, PublishedOK, Early
<1>7. \A s \in Scans : SettleOK(s)
  BY <1>1, <1>4 DEF SettleOK
<1> QED
  BY <1>2, <1>3, <1>5, <1>6, <1>7 DEF OutcomeInv, SettleInv

(* The types hold throughout.                                                  *)
LEMMA TypedAlways == Spec => [](SvcInv /\ PipelineTypeOK /\ Typed)
<1>1. Init => PipelineTypeOK
  BY ServiceInit
<1>2. SvcInv /\ PipelineTypeOK /\ [Next]_serviceVars => PipelineTypeOK'
  BY ServiceMoves
<1>3. SvcInv /\ PipelineTypeOK => Typed
  BY SvcTyped
<1> QED
  BY <1>1, <1>2, <1>3, SvcInvAlways, PTL DEF Spec

(* Hence the pipeline's invariants.                                            *)
LEMMA JobsAlways == Spec => [](GateInv /\ OutcomeInv)
<1>1. Init => GateInv /\ OutcomeInv
  BY ServiceInit
<1>2. /\ SvcInv /\ PipelineTypeOK /\ Typed' /\ GateInv /\ OutcomeInv /\ [Next]_serviceVars
      => (GateInv /\ OutcomeInv)'
  BY ServiceMoves, GateMoves, OutcomeMoves
<1> QED
  BY <1>1, <1>2, TypedAlways, PTL DEF Spec

-----------------------------------------------------------------------------
(* What the gateway and the pipeline promise by themselves, in the whole service.  *)

(* Whatever requests, handlers, repeated deliveries, scans, retries and pushes race, a *)
(* status "success" on the current head of a pull request never hides a critical       *)
(* finding that detection cannot miss and that nobody suppressed.                   *)
THEOREM ServiceGateSound == Spec => []CurrentGateSound
<1>1. GateInv => CurrentGateSound
  BY GateInvSound
<1> QED
  BY <1>1, JobsAlways, PTL

(* The whole service implements SecurityGate: of all that the host, the gateway and    *)
(* the workers do, the pull request shows pushes, feedback and single sound          *)
(* publications.                                                               *)
THEOREM ServiceImplementsGate == Spec => ImplementsSecurityGate
<1>1. Init => SG!Init
  <2> SUFFICES ASSUME Init PROVE SG!Init
    OBVIOUS
  <2>1. GateStates = [p \in PRs |-> [h \in 1 .. MaxHead |-> "none"]]
    BY DEF Init, PipelineInit, NoGate, GateStates, Heads
  <2> QED
    BY <2>1 DEF SG!Init, Init, HostInit, PipelineInit, GateStates
<1>2. SvcInv /\ GateInv /\ [Next]_serviceVars => [SG!Next]_(SG!vars)
  <2> SUFFICES ASSUME SvcInv, GateInv, [Next]_serviceVars PROVE [SG!Next]_(SG!vars)
    OBVIOUS
  <2>1. CASE \E p \in PRs : Advance(p) /\ UNCHANGED pipelineVars
    BY <2>1 DEF Advance, pipelineVars, SG!Next, SG!NewHead
  <2>2. CASE UNCHANGED head /\ UNCHANGED pipelineVars
    BY <2>2 DEF pipelineVars, SG!vars
  <2>3. CASE HostStep
    BY <2>1, <2>2, <2>3 DEF HostStep, Push, Touch, Missigned
  <2>4. CASE GatewayStep
    <3>1. UNCHANGED head
      BY <2>4, HandlerFrame
      DEF GatewayStep, GatewayNext, SvcInv, ExpireClaim, ExpireKeys, hostVars
    <3> QED
      BY <2>2, <2>4, <3>1 DEF GatewayStep
  <2>5. CASE FeedbackStep
    BY <2>5 DEF FeedbackStep, MarkFalsePositive, hostVars, SG!Next, SG!Mark
  <2>6. CASE PipelineStep
    BY <2>6, RefinesWorks DEF PipelineStep, PipelineNext, Works
  <2>7. CASE UNCHANGED serviceVars
    BY <2>2, <2>7 DEF serviceVars, hostVars
  <2> QED
    BY <2>3, <2>4, <2>5, <2>6, <2>7 DEF Next
<1> QED
  BY <1>1, <1>2, SvcInvAlways, JobsAlways, PTL DEF Spec, SG!Spec, ImplementsSecurityGate

(* Repeated deliveries and retried jobs together: a scan stores and comments a        *)
(* finding, and posts its summary and its review, at most once per start of its job.   *)
THEOREM ServiceRepetitionIsBounded == Spec => []OncePerTry
<1>1. OutcomeInv => OncePerTry
  BY DEF OutcomeInv, TryOK, OncePerTry
<1> QED
  BY <1>1, JobsAlways, PTL

(* No comment of a scan is at the host without a row for its finding.              *)
THEOREM ServiceNoOrphanComment == Spec => []CommentsAreStored
<1>1. OutcomeInv => CommentsAreStored
  BY DEF OutcomeInv, StoredOK, CommentsAreStored
<1> QED
  BY <1>1, JobsAlways, PTL

(* A row that says "completed" has its summary, a status and, when it blocks, the     *)
(* review at the host.                                                          *)
THEOREM ServiceCompletedMeansPublished == Spec => []CompletedIsPublished
<1>1. OutcomeInv => CompletedIsPublished
  BY DEF OutcomeInv, PublishedOK, HasStatus, CompletedIsPublished
<1> QED
  BY <1>1, JobsAlways, PTL

(* When the code host is all that can fail, every scan that a delivery started ends    *)
(* with one of the outcomes in its row once its job is over: the request stashed its    *)
(* event before it enqueued the job.                                            *)
THEOREM ServiceForgetsNoRow == Spec => []SettledHasOutcome
<1>1. CASE Faults \subseteq {"provider", "token"}
  <2>1. Init => SettleInv
    BY ServiceInit
  <2>2. SvcInv /\ PipelineTypeOK /\ Typed' /\ SettleInv /\ [Next]_serviceVars => SettleInv'
    BY <1>1, ServiceMoves, SettleMoves
  <2>3. SettleInv => SettledHasOutcome
    BY DEF SettleInv, SettleOK, SettledHasOutcome
  <2> QED
    BY <2>1, <2>2, <2>3, TypedAlways, PTL DEF Spec
<1>2. CASE ~ Faults \subseteq {"provider", "token"}
  <2>1. SettledHasOutcome
    BY <1>2 DEF SettledHasOutcome
  <2> QED
    BY <2>1, PTL
<1> QED
  BY <1>1, <1>2

(* Workers change nothing of what the gateway promises: two scans with one dedupe key  *)
(* exist only if the claim lapsed between them.                                   *)
THEOREM ServiceIdempotent == Spec => []OneScanPerClaim
<1>1. SvcInv => OneScanPerClaim
  BY DEF SvcInv, GwInv
<1> QED
  BY <1>1, SvcInvAlways, PTL

(* No claim, scan or dialog job comes from a request whose signature does not verify.  *)
THEOREM ServiceVerifiedWorkOnly == Spec => []OnlyVerifiedWork
<1>1. SvcInv => OnlyVerifiedWork
  BY DEF SvcInv, GwInv, ScanOK, DeliveryOK, ClaimOK, OnlyVerifiedWork
<1> QED
  BY <1>1, SvcInvAlways, PTL

(* A host that was told "queued" has a job for that delivery, whatever the workers made *)
(* of it since.                                                                *)
THEOREM ServiceQueuedMeansEnqueued == Spec => []QueuedIsEnqueued
<1>1. SvcInv => QueuedIsEnqueued
  BY DEF SvcInv, GwInv, DeliveryOK, QueuedIsEnqueued
<1> QED
  BY <1>1, SvcInvAlways, PTL

(* Only a failed request loses a scan that was claimed.                           *)
THEOREM ServiceOnlyFailuresLose == Spec => []LossNeedsFailure
<1>1. SvcInv => LossNeedsFailure
  BY DEF SvcInv, GwInv, ClaimOK, LossNeedsFailure, NoRequest, Idle
<1> QED
  BY <1>1, SvcInvAlways, PTL

(* Each variable of the whole service keeps its type; no job is started more than      *)
(* max_tries times.                                                            *)
THEOREM ServiceTyped == Spec => [](GwTypeOK /\ PlTypeOK)
<1>1. SvcInv /\ Typed => GwTypeOK /\ PlTypeOK
  BY DEF SvcInv, GwInv, Typed, Fit
<1> QED
  BY <1>1, TypedAlways, PTL

(* In the whole service too, a job becomes visible to the workers only when its row,   *)
(* its event and an active head of its pull request are in place; workers only put     *)
(* back a job that they had.                                                    *)
THEOREM ServiceNoJobTooEarly == Spec => JobsAreReady
<1> DEFINE Ready ==
      \A s \in Scans : (job[s] = "none" /\ job'[s] = "queued") =>
         /\ status[s] = "queued"
         /\ s \in stash
         /\ active[Ev(s).pr] # 0
<1>1. SvcInv /\ [Next]_serviceVars => [Ready]_gwVars
  <2> SUFFICES ASSUME SvcInv, [Next]_serviceVars, NEW s \in Scans, job[s] = "none", job'[s] = "queued"
               PROVE  status[s] = "queued" /\ s \in stash /\ active[Ev(s).pr] # 0
    OBVIOUS
  <2>1. ~ PipelineStep
    <3>1. \A t \in Scans : Works(t) => job'[s] = job[s]
      BY RowFrame
    <3> QED
      BY <3>1 DEF PipelineStep, PipelineNext, Works
  <2>2. PICK r \in Reqs : Acts(r)
    <3>1. job' # job
      OBVIOUS
    <3> QED
      BY <2>1, <3>1
      DEF Next, HostStep, GatewayStep, GatewayNext, Acts, FeedbackStep, MarkFalsePositive,
          serviceVars, storeVars, ExpireClaim, ExpireKeys
  <2>3. At(r, "enqueue") /\ s = req[r].scan
    BY <2>2, HandlerAdds DEF Acts, SvcInv
  <2> QED
    BY <2>3 DEF SvcInv, GwInv, ReqOK, At, Ev, ReqEvent
<1> QED
  BY <1>1, SvcInvAlways, PTL DEF Spec, JobsAreReady

=============================================================================
