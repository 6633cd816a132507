------------------------- MODULE ScanPipelineProofs -------------------------
(***************************************************************************)
(* The scan pipeline, for every value of the constants: its types, the         *)
(* soundness of the gate, and the refinement of SecurityGate.  The lemmas      *)
(* about steps hold whatever goes on around the jobs (Moves), so that they      *)
(* serve the pipeline alone and the composed service.                        *)
(***************************************************************************)
EXTENDS ScanPipeline, TLAPS

(* The stages that work on a fetched diff.                                   *)
DiffStages == {"detect", "llm", "suppress", "inline", "status", "changes"}

Works(s) == WorkerStep(s) \/ WorkerFault(s)

(* A scan that has a row, a job or a coroutine.                              *)
Known(s) == status[s] # "none" \/ job[s] # "none" \/ run[s].pc # "off"

(* It has an event, of a pull request that has a head.                       *)
EventsOK ==
  \A s \in Scans :
    Known(s) => origin[s] \in Deliveries /\ Ev(s) \in Event /\ head[PR(s)] \in Heads

(* What keeps every application of Diff, Certain and gate within its domain. *)
HeadsOK ==
  \A s \in Scans :
    /\ run[s].pc = "diff" => run[s].head \in Heads
    /\ run[s].pc \in DiffStages => run[s].head \in Heads /\ run[s].diff \in Heads

Fit == PlTypeOK /\ HeadsOK

Typed == Fit /\ EventsOK

-----------------------------------------------------------------------------
(* The ways in which a step changes the local state of one job.              *)

(* A job can take any well-typed local state whose heads fit its stage.      *)
LEMMA RunSet ==
  ASSUME run \in [Scans -> Run], HeadsOK,
         NEW s \in Scans, NEW r \in Run, run' = [run EXCEPT ![s] = r],
         r.pc = "diff" => r.head \in Heads,
         r.pc \in DiffStages => r.head \in Heads /\ r.diff \in Heads
  PROVE  run' \in [Scans -> Run] /\ HeadsOK'
  BY DEF HeadsOK, Heads

(* Entering a stage that works on a diff needs a job that has one.           *)
LEMMA RunEnter ==
  ASSUME run \in [Scans -> Run], HeadsOK, NEW s \in Scans, NEW pc \in Stages, Enter(s, pc),
         pc # "diff", pc \in DiffStages => run[s].pc \in DiffStages
  PROVE  run' \in [Scans -> Run] /\ HeadsOK'
<1> DEFINE r == [run[s] EXCEPT !.pc = pc]
<1>1. r \in Run /\ run' = [run EXCEPT ![s] = r] /\ r.pc = pc
  BY DEF Enter, Run
<1>2. r.head = run[s].head /\ r.diff = run[s].diff
  BY DEF Run
<1>3. pc \in DiffStages => r.head \in Heads /\ r.diff \in Heads
  BY <1>2 DEF HeadsOK
<1> HIDE DEF r
<1> QED
  BY <1>1, <1>3, RunSet

(* A job can go to _finish from every stage.                                 *)
LEMMA RunConclude ==
  ASSUME run \in [Scans -> Run], HeadsOK, NEW s \in Scans, NEW o \in Outcomes, Conclude(s, o)
  PROVE  run' \in [Scans -> Run] /\ HeadsOK'
<1> DEFINE r == [run[s] EXCEPT !.pc = "finish", !.out = o]
<1>1. r \in Run /\ run' = [run EXCEPT ![s] = r] /\ r.pc = "finish"
  BY DEF Conclude, Run, Stages
<1> HIDE DEF r
<1> QED
  BY <1>1, RunSet DEF DiffStages

(* A job can be put back to rest at every stage.                             *)
LEMMA RunReset ==
  ASSUME run \in [Scans -> Run], HeadsOK, NEW s \in Scans, run' = [run EXCEPT ![s] = NoRun]
  PROVE  run' \in [Scans -> Run] /\ HeadsOK'
<1>1. NoRun \in Run /\ NoRun.pc = "off"
  BY HostAssumption DEF Run, NoRun
<1> QED
  BY <1>1, RunSet DEF DiffStages

-----------------------------------------------------------------------------
(* Type correctness.                                                         *)

(* The pipeline starts well typed.                                           *)
LEMMA TypedInit == PlInit => Typed
<1> SUFFICES ASSUME PlInit PROVE Typed
  OBVIOUS
<1>1. HostTypeOK
  BY HostAssumption DEF PlInit, HostTypeOK, Heads, Event, Kinds
<1>2. StoreTypeOK
  BY StoreAssumption, HostAssumption DEF PlInit, StoreTypeOK, Statuses, JobStates
<1>3. PipelineTypeOK
  BY HostAssumption, PipelineAssumption DEF PlInit, PipelineInit, PipelineTypeOK, NoRun, Run, NoGate, Gate, Verdicts
<1>4. EventsOK
  BY HostAssumption DEF PlInit, EventsOK, Heads, Event, Kinds, Ev, PR
<1>5. HeadsOK
  BY DEF PlInit, PipelineInit, HeadsOK, NoRun, DiffStages
<1> QED
  BY <1>1, <1>2, <1>3, <1>4, <1>5 DEF Typed, Fit, PlTypeOK

-----------------------------------------------------------------------------
(* One lemma per action: what it does to the job's local state and to the     *)
(* tables stays within the types.                                             *)

(* What a worker may change, against what it never does.                     *)
LEMMA TypedFrame ==
  ASSUME Typed, UNCHANGED <<hostVars, origin, stash, active, feedback>>,
         status' \in [Scans -> Statuses],
         job' \in [Scans -> JobStates],
         tries' \in [Scans -> 0 .. MaxTries],
         run' \in [Scans -> Run],
         stored' \in [Scans -> [Findings -> Nat]],
         comments' \in [Scans -> [Findings -> Nat]],
         summaries' \in [Scans -> Nat],
         gate' \in [PRs -> [Heads -> Gate]],
         reviews' \in [Scans -> Nat],
         decision' \in [Scans -> Verdicts \cup {"none"}],
         HeadsOK'
  PROVE  Fit'
  BY DEF Typed, Fit, PlTypeOK, HostTypeOK, StoreTypeOK, PipelineTypeOK, hostVars

(* The steps that move the job but neither fetch, detect nor publish.         *)
LEMMA TypedMove ==
  ASSUME Typed, NEW s \in Scans,
         UNCHANGED <<hostVars, origin, stash, active, feedback>>,
         UNCHANGED <<stored, comments, summaries, gate, reviews>>,
         status' \in [Scans -> Statuses],
         job' \in [Scans -> JobStates],
         tries' = tries,
         decision' \in [Scans -> Verdicts \cup {"none"}],
         \/ \E pc \in Stages \ (DiffStages \cup {"diff"}) : Enter(s, pc)
         \/ \E o \in Outcomes : Conclude(s, o)
         \/ run' = [run EXCEPT ![s] = NoRun]
  PROVE  Fit'
<1> USE DEF Typed, Fit, PlTypeOK
<1>1. run' \in [Scans -> Run] /\ HeadsOK'
  BY RunEnter, RunConclude, RunReset DEF PipelineTypeOK
<1> QED
  BY <1>1, TypedFrame DEF StoreTypeOK, PipelineTypeOK

(* The steps that change the job's local state and what was published.       *)
LEMMA TypedWork ==
  ASSUME Typed, UNCHANGED <<hostVars, storeVars, feedback, decision>>,
         run' \in [Scans -> Run] /\ HeadsOK',
         stored' \in [Scans -> [Findings -> Nat]],
         comments' \in [Scans -> [Findings -> Nat]],
         summaries' \in [Scans -> Nat],
         gate' \in [PRs -> [Heads -> Gate]],
         reviews' \in [Scans -> Nat]
  PROVE  Fit'
  BY TypedFrame DEF Typed, Fit, PlTypeOK, StoreTypeOK, PipelineTypeOK, storeVars

(* Arq's own steps and an exception before the try block.                    *)
LEMMA TypedArq ==
  ASSUME Typed, NEW s \in Scans,
         GiveUp(s) \/ WorkerStops(s) \/ JobTimesOut(s) \/ Acknowledge(s) \/ PreludeRaises(s)
  PROVE  Fit'
<1>1. job' \in [Scans -> JobStates]
  BY DEF GiveUp, WorkerStops, JobTimesOut, Acknowledge, PreludeRaises, Settle,
         Typed, Fit, PlTypeOK, StoreTypeOK, JobStates
<1>2. run' = [run EXCEPT ![s] = NoRun]
  BY DEF GiveUp, WorkerStops, JobTimesOut, Acknowledge, PreludeRaises, Settle
<1>3. /\ UNCHANGED <<hostVars, origin, stash, active, feedback, status, tries>>
      /\ UNCHANGED <<stored, comments, summaries, gate, reviews, decision>>
  BY DEF GiveUp, WorkerStops, JobTimesOut, Acknowledge, PreludeRaises, NothingPublished
<1> QED
  BY <1>1, <1>2, <1>3, TypedMove DEF Typed, Fit, PlTypeOK, StoreTypeOK, PipelineTypeOK

(* Arq starts a job: its tries stay within max_tries.                        *)
LEMMA TypedPickUp ==
  ASSUME Typed, NEW s \in Scans, PickUp(s)
  PROVE  Fit'
<1> USE DEF Typed, Fit, PlTypeOK
<1>1. run' \in [Scans -> Run] /\ HeadsOK'
  <2> DEFINE r == [NoRun EXCEPT !.pc = "load"]
  <2>1. r \in Run /\ r.pc = "load"
    BY HostAssumption DEF NoRun, Run, Stages
  <2>2. run' = [run EXCEPT ![s] = r]
    BY DEF PickUp
  <2> HIDE DEF r
  <2> QED
    BY <2>1, <2>2, RunSet DEF PipelineTypeOK, DiffStages
<1>2. tries' \in [Scans -> 0 .. MaxTries] /\ job' \in [Scans -> JobStates]
  BY StoreAssumption DEF PickUp, TriesLeft, StoreTypeOK, JobStates
<1> QED
  BY <1>1, <1>2, TypedFrame DEF PickUp, NothingPublished, StoreTypeOK, PipelineTypeOK

(* The stages that only choose the next one or write the row.                *)
LEMMA TypedControl ==
  ASSUME Typed, NEW s \in Scans,
         \/ LoadEvent(s) \/ CheckStale(s) \/ MarkRunning(s) \/ Resolve(s)
         \/ Finish(s) \/ ProviderFails(s) \/ StageRaises(s) \/ FinishRaises(s)
  PROVE  Fit'
<1> USE DEF Typed, Fit, PlTypeOK, StoreTypeOK, PipelineTypeOK
<1>1. CASE LoadEvent(s)
  BY <1>1, TypedMove
  DEF LoadEvent, OutsideUnchanged, NothingPublished, storeVars, Stages, DiffStages
<1>2. CASE CheckStale(s)
  BY <1>2, TypedMove
  DEF CheckStale, OutsideUnchanged, NothingPublished, storeVars, Stages, DiffStages, Outcomes
<1>3. CASE MarkRunning(s)
  <2>1. status' \in [Scans -> Statuses]
    BY <1>3 DEF MarkRunning, Statuses
  <2> QED
    BY <1>3, <2>1, TypedMove DEF MarkRunning, NothingPublished, Stages, DiffStages
<1>4. CASE Resolve(s)
  BY <1>4, TypedMove
  DEF Resolve, OutsideUnchanged, NothingPublished, storeVars, Stages, DiffStages, Outcomes
<1>5. CASE Finish(s)
  <2>1. status' \in [Scans -> Statuses] /\ decision' \in [Scans -> Verdicts \cup {"none"}]
    BY <1>5 DEF Finish, Statuses, Run
  <2> QED
    BY <1>5, <2>1, TypedMove DEF Finish, NothingPublished, Stages, DiffStages
<1>6. CASE ProviderFails(s)
  BY <1>6, TypedMove DEF ProviderFails, OutsideUnchanged, NothingPublished, storeVars, Outcomes
<1>7. CASE StageRaises(s)
  BY <1>7, TypedMove DEF StageRaises, OutsideUnchanged, NothingPublished, storeVars, Outcomes
<1>8. CASE FinishRaises(s)
  <2>1. status' \in [Scans -> Statuses] /\ decision' \in [Scans -> Verdicts \cup {"none"}]
    BY <1>8 DEF FinishRaises, Statuses, Run
  <2>2. job' \in [Scans -> JobStates]
    BY <1>8 DEF FinishRaises, Settle, JobStates
  <2>3. Conclude(s, "error") \/ run' = [run EXCEPT ![s] = NoRun]
    BY <1>8 DEF FinishRaises, Settle
  <2> QED
    BY <1>8, <2>1, <2>2, <2>3, TypedMove DEF FinishRaises, NothingPublished, Outcomes
<1> QED
  BY <1>1, <1>2, <1>3, <1>4, <1>5, <1>6, <1>7, <1>8

(* Only a scan that is known has a job that takes a step.                     *)
LEMMA WorksKnown ==
  ASSUME NEW s \in Scans, Works(s)
  PROVE  Known(s)
<1>1. job[s] \in {"queued", "running"} \/ run[s].pc \in Stages
  BY DEF Works, WorkerStep, WorkerFault, PickUp, GiveUp, Acknowledge, LoadEvent, CheckStale,
         MarkRunning, Resolve, FetchPullRequest, FetchDiff, RunDeterministic, RunLLM, Suppress,
         PostInline, PostSummary, SetStatusCheck, RequestChanges, Finish, WorkerStops,
         JobTimesOut, ProviderFails, StageRaises, PreludeRaises, FinishRaises, In, Stages
<1> QED
  BY <1>1 DEF Known, Stages

(* What a job reads of Diff lies within its domain.                          *)
LEMMA DiffTypes ==
  ASSUME Typed, NEW s \in Scans, Known(s)
  PROVE  /\ PR(s) \in PRs
         /\ head[PR(s)] \in Heads
         /\ run[s].pc \in DiffStages =>
              run[s].diff \in Heads /\ DiffFindings(s) \subseteq Findings
  BY PipelineAssumption DEF Typed, Fit, EventsOK, HeadsOK, PR, Event, DiffFindings

(* The two fetches take a head that the pull request has.                    *)
LEMMA TypedFetch ==
  ASSUME Typed, NEW s \in Scans, FetchPullRequest(s) \/ FetchDiff(s)
  PROVE  Fit'
<1> USE DEF Typed, Fit, PlTypeOK, PipelineTypeOK
<1>1. head[PR(s)] \in Heads /\ Heads \subseteq 0 .. MaxHead
  BY WorksKnown, DiffTypes, HostAssumption DEF Heads, Works, WorkerStep
<1>2. run' \in [Scans -> Run] /\ HeadsOK'
  <2>1. CASE FetchPullRequest(s)
    <3> DEFINE r == [run[s] EXCEPT !.pc = "diff", !.head = head[PR(s)]]
    <3>1. r \in Run /\ r.pc = "diff" /\ r.head \in Heads
      BY <1>1, ZenonT(60) DEF Run, Stages
    <3>2. run' = [run EXCEPT ![s] = r]
      BY <2>1 DEF FetchPullRequest, HeadAtHost
    <3> HIDE DEF r
    <3> QED
      BY <3>1, <3>2, RunSet DEF DiffStages
  <2>2. CASE FetchDiff(s)
    <3> DEFINE r == [run[s] EXCEPT !.pc = "detect", !.diff = head[PR(s)]]
    <3>1. r \in Run /\ r.pc = "detect" /\ r.head = run[s].head /\ r.diff \in Heads
      BY <1>1, ZenonT(60) DEF Run, Stages
    <3>2. run' = [run EXCEPT ![s] = r] /\ run[s].head \in Heads
      BY <2>2 DEF FetchDiff, In, HeadsOK
    <3> HIDE DEF r
    <3> QED
      BY <3>1, <3>2, RunSet
  <2> QED
    BY <2>1, <2>2
<1> QED
  BY <1>2, TypedWork DEF FetchPullRequest, FetchDiff, OutsideUnchanged, NothingPublished

(* Inserting rows keeps the findings table in its type.                      *)
LEMMA PersistTyped ==
  ASSUME stored \in [Scans -> [Findings -> Nat]], NEW s \in Scans, NEW K, Persist(s, K)
  PROVE  stored' \in [Scans -> [Findings -> Nat]]
<1> DEFINE rows == [f \in Findings |-> stored[s][f] + IF f \in K THEN 1 ELSE 0]
<1>1. rows \in [Findings -> Nat]
  OBVIOUS
<1>2. stored' = [stored EXCEPT ![s] = rows]
  BY DEF Persist
<1> HIDE DEF rows
<1> QED
  BY <1>1, <1>2

(* Detection adds only findings that the diff can have.                      *)
LEMMA TypedDetect ==
  ASSUME Typed, NEW s \in Scans, RunDeterministic(s) \/ RunLLM(s)
  PROVE  Fit'
<1> USE DEF Typed, Fit, PlTypeOK, PipelineTypeOK
<1>1. run[s].pc \in DiffStages /\ DiffFindings(s) \subseteq Findings
  BY WorksKnown, DiffTypes DEF RunDeterministic, RunLLM, In, DiffStages, Works, WorkerStep
<1>2. PICK pc \in {"llm", "suppress"}, F \in SUBSET Findings, K \in SUBSET Findings :
        run' = [run EXCEPT ![s] = [run[s] EXCEPT !.pc = pc, !.found = F]] /\ Persist(s, K)
  <2>1. CASE RunDeterministic(s)
    BY <2>1, <1>1 DEF RunDeterministic
  <2>2. CASE RunLLM(s)
    <3>1. PICK K \in SUBSET (DiffFindings(s) \ run[s].found) :
            /\ run' = [run EXCEPT ![s] = [run[s] EXCEPT !.pc = "suppress",
                                                        !.found = run[s].found \cup K]]
            /\ Persist(s, K)
      BY <2>2 DEF RunLLM
    <3>2. run[s].found \cup K \in SUBSET Findings /\ K \in SUBSET Findings
      BY <1>1 DEF Run
    <3> QED
      BY <3>1, <3>2
  <2> QED
    BY <2>1, <2>2
<1>3. run' \in [Scans -> Run] /\ HeadsOK'
  <2> DEFINE r == [run[s] EXCEPT !.pc = pc, !.found = F]
  <2>1. r \in Run /\ r.pc = pc /\ r.head = run[s].head /\ r.diff = run[s].diff
    BY ZenonT(60) DEF Run, Stages
  <2>2. run[s].head \in Heads /\ run[s].diff \in Heads
    BY <1>1 DEF HeadsOK
  <2>3. run' = [run EXCEPT ![s] = r]
    BY <1>2
  <2> HIDE DEF r
  <2> QED
    BY <2>1, <2>2, <2>3, RunSet
<1>4. stored' \in [Scans -> [Findings -> Nat]]
  BY <1>2, PersistTyped
<1> QED
  BY <1>3, <1>4, TypedWork DEF RunDeterministic, RunLLM, OutsideUnchanged, NothingPublished

(* Suppression, and the choice of findings to comment.                       *)
LEMMA TypedSuppress ==
  ASSUME Typed, NEW s \in Scans, Suppress(s)
  PROVE  Fit'
<1> USE DEF Typed, Fit, PlTypeOK, PipelineTypeOK
<1> DEFINE kept == run[s].found \ Suppressed
           r == [run[s] EXCEPT !.pc = "inline", !.found = kept, !.todo = Inline(kept)]
<1>1. kept \in SUBSET Findings /\ Inline(kept) \in SUBSET Findings
  BY DEF Run, Inline
<1>2. r \in Run /\ r.pc = "inline" /\ r.head = run[s].head /\ r.diff = run[s].diff
  BY <1>1, ZenonT(60) DEF Run, Stages
<1>3. run' = [run EXCEPT ![s] = r]
  BY DEF Suppress
<1>4. run[s].head \in Heads /\ run[s].diff \in Heads
  BY DEF Suppress, In, HeadsOK, DiffStages
<1> HIDE DEF r
<1>5. run' \in [Scans -> Run] /\ HeadsOK'
  BY <1>2, <1>3, <1>4, RunSet
<1> QED
  BY <1>5, TypedWork DEF Suppress, OutsideUnchanged, NothingPublished

(* Inline comments and the summary, with their decision.                     *)
LEMMA TypedComments ==
  ASSUME Typed, NEW s \in Scans, PostInline(s) \/ PostSummary(s)
  PROVE  Fit'
<1> USE DEF Typed, Fit, PlTypeOK, PipelineTypeOK
<1>1. run[s].head \in Heads /\ run[s].diff \in Heads
  BY DEF PostInline, PostSummary, In, HeadsOK, DiffStages
<1>2. run' \in [Scans -> Run] /\ HeadsOK'
  <2>1. CASE AnswerLost(s)
    BY <2>1, RunConclude DEF AnswerLost, Outcomes
  <2>2. CASE \E T \in SUBSET Findings : run' = [run EXCEPT ![s].todo = T]
    <3>1. PICK T \in SUBSET Findings : run' = [run EXCEPT ![s].todo = T]
      BY <2>2
    <3> DEFINE r == [run[s] EXCEPT !.todo = T]
    <3>2. /\ r \in Run /\ run' = [run EXCEPT ![s] = r]
          /\ r.pc = run[s].pc /\ r.head = run[s].head /\ r.diff = run[s].diff
      BY <3>1, ZenonT(60) DEF Run
    <3> HIDE DEF r
    <3> QED
      BY <1>1, <3>2, RunSet DEF HeadsOK
  <2>3. CASE run' = [run EXCEPT ![s] = [@ EXCEPT !.pc = "status", !.verdict = Verdict(run[s].found)]]
    <3> DEFINE r == [run[s] EXCEPT !.pc = "status", !.verdict = Verdict(run[s].found)]
    <3>1. r \in Run /\ r.pc = "status" /\ r.head = run[s].head /\ r.diff = run[s].diff
      <4>1. Verdict(run[s].found) \in Verdicts BY DEF Verdict, Verdicts
      <4>2. run[s] \in Run BY DEF Typed, Fit, PlTypeOK, PipelineTypeOK
      <4>3. QED BY ONLY <4>1, <4>2 DEF Run, Stages
    <3>2. run' = [run EXCEPT ![s] = r]
      BY <2>3
    <3> HIDE DEF r
    <3> QED
      BY <1>1, <3>1, <3>2, RunSet
  <2>4. \A f : Remaining(s, f) \in SUBSET Findings
    BY DEF Remaining, Run
  <2> QED
    BY <2>1, <2>2, <2>3, <2>4 DEF PostInline, PostSummary
<1>3. comments' \in [Scans -> [Findings -> Nat]] /\ summaries' \in [Scans -> Nat]
  <2>1. CASE PostInline(s)
    <3>1. PICK f \in run[s].todo : comments' = [comments EXCEPT ![s][f] = @ + 1]
      BY <2>1 DEF PostInline
    <3> QED
      BY <2>1, <3>1 DEF PostInline, Run
  <2>2. CASE PostSummary(s)
    BY <2>2 DEF PostSummary
  <2> QED
    BY <2>1, <2>2
<1> QED
  BY <1>2, <1>3, TypedWork DEF PostInline, PostSummary, OutsideUnchanged

(* The status check and the review.                                          *)
LEMMA TypedPolicy ==
  ASSUME Typed, NEW s \in Scans, SetStatusCheck(s) \/ RequestChanges(s)
  PROVE  Fit'
<1> USE DEF Typed, Fit, PlTypeOK, PipelineTypeOK
<1>1. run' \in [Scans -> Run] /\ HeadsOK'
  BY RunEnter, RunConclude
  DEF SetStatusCheck, RequestChanges, AnswerLost, In, DiffStages, Stages, Outcomes
<1>2. gate' \in [PRs -> [Heads -> Gate]] /\ reviews' \in [Scans -> Nat]
  <2>1. CASE SetStatusCheck(s)
    <3>1. PR(s) \in PRs
      BY <2>1, WorksKnown, DiffTypes DEF Works, WorkerStep
    <3> QED
      BY <2>1, <3>1 DEF SetStatusCheck, StatusHead, HeadsOK, DiffStages, Gate, Run, In
  <2>2. CASE RequestChanges(s)
    BY <2>2 DEF RequestChanges
  <2> QED
    BY <2>1, <2>2
<1> QED
  BY <1>1, <1>2, TypedWork DEF SetStatusCheck, RequestChanges, OutsideUnchanged

(* Workers change no head and no feedback, one of their actions changes a    *)
(* status, and none the row or the local state of another job.               *)
LEMMA WorkerFrame ==
  ASSUME Typed, NEW s \in Scans, Works(s)
  PROVE  /\ UNCHANGED <<hostVars, origin, feedback>>
         /\ SetStatusCheck(s) \/ UNCHANGED gate
         /\ \A t \in Scans : t # s =>
              run'[t] = run[t] /\ status'[t] = status[t] /\ job'[t] = job[t]
<1> USE DEF Typed, Fit, PlTypeOK, StoreTypeOK, PipelineTypeOK
<1>1. CASE WorkerStep(s)
  BY <1>1
  DEF WorkerStep, PickUp, GiveUp, Acknowledge, LoadEvent, CheckStale, MarkRunning, Resolve,
      FetchPullRequest, FetchDiff, RunDeterministic, RunLLM, Suppress, PostInline, PostSummary,
      SetStatusCheck, RequestChanges, Finish, Enter, Conclude, Settle, AnswerLost,
      OutsideUnchanged, NothingPublished, storeVars
<1>2. CASE WorkerFault(s)
  BY <1>2
  DEF WorkerFault, WorkerStops, JobTimesOut, ProviderFails, StageRaises, PreludeRaises,
      FinishRaises, Conclude, Settle, OutsideUnchanged, NothingPublished, storeVars
<1> QED
  BY <1>1, <1>2 DEF Works

(* Every step of a job keeps the types.                                      *)
LEMMA TypedWorks ==
  ASSUME Typed, NEW s \in Scans, Works(s)
  PROVE  Typed'
<1>1. Fit'
  BY TypedArq, TypedPickUp, TypedControl, TypedFetch, TypedDetect, TypedSuppress,
     TypedComments, TypedPolicy
  DEF Works, WorkerStep, WorkerFault
<1>2. EventsOK'
  <2>1. UNCHANGED <<head, event, origin>> /\ Known(s)
    BY WorkerFrame, WorksKnown DEF hostVars
  <2>2. \A t \in Scans : Known(t)' => Known(t)
    BY <2>1, WorkerFrame DEF Known
  <2> QED
    BY <2>1, <2>2 DEF Typed, EventsOK, Ev, PR
<1> QED
  BY <1>1, <1>2 DEF Typed

-----------------------------------------------------------------------------
(* What the rest of the system may do meanwhile: push commits, count feedback  *)
(* and make rows and jobs, without touching a scan that is known.             *)

Around ==
  /\ UNCHANGED <<run, stored, comments, summaries, gate, reviews, decision, tries>>
  /\ \A p \in PRs : head[p] <= head'[p]
  /\ \A k \in Prints : feedback[k] <= feedback'[k]
  /\ \A s \in Scans : Known(s) => Ev(s)' = Ev(s) /\ status'[s] = status[s]
  /\ \A s \in Scans : ~ Known(s) => status'[s] \in {"none", "queued"}

Moves == Around \/ \E s \in Scans : Works(s)

(* Pushes, active heads, lapsed events and feedback are such steps.           *)
LEMMA AroundSurroundings ==
  ASSUME Typed, Surroundings
  PROVE  Around /\ Typed'
<1> USE DEF Fit, PlTypeOK
<1>1. /\ head \in [PRs -> 0 .. MaxHead] /\ MaxHead \in Nat
      /\ feedback \in [Prints -> 0 .. Threshold] /\ Threshold \in Nat
  BY HostAssumption, PipelineAssumption DEF Typed, HostTypeOK, PipelineTypeOK
<1>2. /\ UNCHANGED <<event, status, origin, job, tries>>
      /\ UNCHANGED <<run, stored, comments, summaries, gate, reviews, decision>>
  BY DEF Surroundings, MarkFalsePositive, hostVars, storeVars, pipelineVars
<1>3. /\ head' \in [PRs -> 0 .. MaxHead]
      /\ \A p \in PRs : head[p] <= head'[p]
  BY <1>1 DEF Surroundings, MarkFalsePositive, Advance, hostVars
<1>4. /\ feedback' \in [Prints -> 0 .. Threshold]
      /\ \A k \in Prints : feedback[k] <= feedback'[k]
  BY <1>1 DEF Surroundings, MarkFalsePositive, pipelineVars
<1>5. active' \in [PRs -> 0 .. MaxHead] /\ stash' \subseteq Scans
  <2>1. active \in [PRs -> 0 .. MaxHead] /\ stash \subseteq Scans
    BY DEF Typed, StoreTypeOK
  <2>2. CASE UNCHANGED active /\ stash' \subseteq stash
    BY <2>1, <2>2
  <2>3. CASE \E p \in PRs : \E h \in 0 .. head[p] :
               active' = [active EXCEPT ![p] = h] /\ UNCHANGED <<head, stash>>
    BY <1>1, <2>1, <2>3
  <2> QED
    BY <2>2, <2>3 DEF Surroundings, MarkFalsePositive, ExpireStash, storeVars
<1>6. Around
  <2>1. \A s \in Scans : Ev(s)' = Ev(s)
    BY <1>2 DEF Ev
  <2>2. \A s \in Scans : ~ Known(s) => status[s] = "none"
    BY DEF Known
  <2> QED
    BY <1>2, <1>3, <1>4, <2>1, <2>2 DEF Around
<1>7. Fit'
  BY <1>2, <1>3, <1>4, <1>5 DEF Typed, HostTypeOK, StoreTypeOK, PipelineTypeOK, HeadsOK
<1>8. EventsOK'
  <2>1. \A p \in PRs : head[p] \in Heads => head'[p] \in Heads
    BY <1>1, <1>3 DEF Heads
  <2> SUFFICES ASSUME NEW s \in Scans, Known(s)
               PROVE  origin[s] \in Deliveries /\ Ev(s) \in Event /\ head'[PR(s)] \in Heads
    BY <1>2 DEF EventsOK, Known, Ev, PR
  <2> QED
    BY <2>1 DEF Typed, EventsOK, PR, Event
<1> QED
  BY <1>6, <1>7, <1>8 DEF Typed

(* Every step of the pipeline keeps the types.                               *)
LEMMA TypedNext ==
  ASSUME Typed, [PlNext]_plVars
  PROVE  Moves /\ Typed'
<1>1. CASE UNCHANGED plVars
  <2>1. Typed'
    BY <1>1
    DEF plVars, hostVars, storeVars, pipelineVars, Typed, Fit, PlTypeOK, HostTypeOK, StoreTypeOK,
        PipelineTypeOK, EventsOK, HeadsOK, Known, Ev, PR
  <2>2. /\ \A p \in PRs : head[p] <= head[p]
        /\ \A k \in Prints : feedback[k] <= feedback[k]
    BY HostAssumption, PipelineAssumption DEF Typed, Fit, PlTypeOK, HostTypeOK, PipelineTypeOK
  <2> QED
    BY <1>1, <2>1, <2>2 DEF plVars, hostVars, storeVars, pipelineVars, Moves, Around, Known, Ev
<1>2. CASE Surroundings
  BY <1>2, AroundSurroundings DEF Moves
<1>3. CASE PipelineNext
  BY <1>3, TypedWorks DEF PipelineNext, Works, Moves
<1> QED
  BY <1>1, <1>2, <1>3 DEF PlNext

(* Every variable the workers share with the API process and with each other  *)
(* keeps its type, however jobs interleave, fail and are started again; in    *)
(* particular no job is started more than max_tries times.                    *)
THEOREM TypeCorrect == PlSpec => []PlTypeOK
<1>1. PlSpec => []Typed
  BY TypedInit, TypedNext, PTL DEF PlSpec
<1>2. Typed => PlTypeOK
  BY DEF Typed, Fit
<1> QED
  BY <1>1, <1>2, PTL

-----------------------------------------------------------------------------
(* The security gate: the status on the current head is sound, and the        *)
(* pipeline implements SecurityGate.  The argument follows a job: the head it  *)
(* took with the pull request is not newer than the diff it worked on, which   *)
(* is not newer than the current head; what it found contains what detection   *)
(* cannot miss, up to suppression; and the status carries over both facts to   *)
(* the gate.                                                                 *)

JobOK(s) ==
  /\ run[s].pc = "diff" => run[s].head <= head[PR(s)]
  /\ run[s].pc \in DiffStages =>
       run[s].head <= run[s].diff /\ run[s].diff <= head[PR(s)]
  /\ run[s].pc \in {"llm", "suppress"} => CertainFindings(s) \subseteq run[s].found
  /\ run[s].pc \in {"inline", "status"} =>
       CertainFindings(s) \ Suppressed \subseteq run[s].found
  /\ run[s].pc \in {"llm", "suppress", "inline", "status"} =>
       run[s].found \subseteq DiffFindings(s)
  /\ run[s].pc = "status" => run[s].verdict = Verdict(run[s].found)

GateOK ==
  \A p \in PRs, h \in Heads :
    gate[p][h].state # "none" =>
      /\ h <= gate[p][h].diff
      /\ gate[p][h].diff <= head[p]
      /\ (MergeBlock # "off" /\ gate[p][h].state = "success") =>
            MustBlock(p, gate[p][h].diff) \subseteq Suppressed

GateInv == Typed /\ (\A s \in Scans : JobOK(s)) /\ GateOK

-----------------------------------------------------------------------------
(* What a step leaves alone, and what only grows.                            *)

(* Heads and suppression only grow, and a scan keeps its pull request.       *)
LEMMA Growth ==
  ASSUME Typed, Typed', Moves
  PROVE  /\ \A s \in Scans : Known(s) => PR(s)' = PR(s)
         /\ \A p \in PRs : head[p] <= head'[p]
         /\ Suppressed \subseteq Suppressed'
<1>1. CASE \E s \in Scans : Works(s)
  <2>1. UNCHANGED <<hostVars, origin, feedback>>
    BY <1>1, WorkerFrame
  <2>2. \A p \in PRs : head[p] <= head[p]
    BY HostAssumption DEF Typed, Fit, PlTypeOK, HostTypeOK
  <2> QED
    BY <2>1, <2>2 DEF hostVars, PR, Ev, Suppressed
<1>2. CASE Around
  <2>1. /\ feedback \in [Prints -> 0 .. Threshold] /\ feedback' \in [Prints -> 0 .. Threshold]
        /\ Threshold \in Nat
    BY PipelineAssumption DEF Typed, Fit, PlTypeOK, PipelineTypeOK
  <2>2. \A k \in Prints : feedback[k] <= feedback'[k]
    BY <1>2 DEF Around
  <2>3. \A f \in Findings : PrintOf[f] \in Prints
    BY PipelineAssumption
  <2>4. Suppressed \subseteq Suppressed'
    BY <2>1, <2>2, <2>3 DEF Suppressed
  <2> QED
    BY <1>2, <2>4 DEF Around, PR
<1> QED
  BY <1>1, <1>2 DEF Moves

(* A job whose local state does not change stays sound while the rest grows. *)
LEMMA JobKept ==
  ASSUME Typed, Typed', Moves, NEW s \in Scans, JobOK(s), run'[s] = run[s]
  PROVE  JobOK(s)'
<1>1. CASE Known(s)
  <2>1. PR(s)' = PR(s) /\ head[PR(s)] <= head'[PR(s)] /\ Suppressed \subseteq Suppressed'
    BY <1>1, Growth, DiffTypes
  <2>2. CertainFindings(s)' = CertainFindings(s) /\ DiffFindings(s)' = DiffFindings(s)
    BY <2>1 DEF CertainFindings, DiffFindings
  <2>3. head[PR(s)] \in Nat /\ head'[PR(s)] \in Nat
    BY <1>1, DiffTypes, HostAssumption DEF Typed, Fit, PlTypeOK, HostTypeOK
  <2>4. run[s].head \in Nat /\ run[s].diff \in Nat
    BY HostAssumption DEF Typed, Fit, PlTypeOK, PipelineTypeOK, Run
  <2> QED
    BY <2>1, <2>2, <2>3, <2>4 DEF JobOK
<1>2. CASE ~ Known(s)
  BY <1>2 DEF Known, JobOK, DiffStages
<1> QED
  BY <1>1, <1>2

(* A gate that does not change stays sound while the rest grows.             *)
LEMMA GateKept ==
  ASSUME Typed, Typed', Moves, GateOK, UNCHANGED gate
  PROVE  GateOK'
<1> SUFFICES ASSUME NEW p \in PRs, NEW h \in Heads, gate[p][h].state # "none"
             PROVE  /\ h <= gate[p][h].diff
                    /\ gate[p][h].diff <= head'[p]
                    /\ (MergeBlock # "off" /\ gate[p][h].state = "success") =>
                          MustBlock(p, gate[p][h].diff) \subseteq Suppressed'
  BY DEF GateOK, MustBlock
<1>1. head[p] <= head'[p] /\ Suppressed \subseteq Suppressed'
  BY Growth
<1>2. head[p] \in Nat /\ head'[p] \in Nat
  BY HostAssumption DEF Typed, Fit, PlTypeOK, HostTypeOK
<1>3. gate[p][h].diff \in Nat
  BY HostAssumption DEF Typed, Fit, PlTypeOK, PipelineTypeOK, Gate
<1> QED
  BY <1>1, <1>2, <1>3 DEF GateOK

-----------------------------------------------------------------------------
(* The job that takes the step.                                              *)

(* A job with no stage on a diff has nothing to keep.                        *)
LEMMA JobIdle ==
  ASSUME NEW s \in Scans, run'[s].pc \notin DiffStages \cup {"diff"}
  PROVE  JobOK(s)'
  BY DEF JobOK, DiffStages

(* A step that fetches, detects and publishes nothing keeps the job sound.   *)
LEMMA JobMove ==
  ASSUME Typed, NEW s \in Scans,
         \/ \E pc \in Stages \ (DiffStages \cup {"diff"}) : Enter(s, pc)
         \/ \E o \in Outcomes : Conclude(s, o)
         \/ run' = [run EXCEPT ![s] = NoRun]
         \/ run' = [run EXCEPT ![s] = [NoRun EXCEPT !.pc = "load"]]
  PROVE  JobOK(s)'
<1> run \in [Scans -> Run]
  BY DEF Typed, Fit, PlTypeOK, PipelineTypeOK
<1>1. run'[s].pc \notin DiffStages \cup {"diff"}
  <2>1. CASE \E pc \in Stages \ (DiffStages \cup {"diff"}) : Enter(s, pc)
    <3>1. PICK pc \in Stages \ (DiffStages \cup {"diff"}) : run' = [run EXCEPT ![s].pc = pc]
      BY <2>1 DEF Enter
    <3>2. run'[s].pc = pc
      BY <3>1 DEF Run
    <3> QED
      BY <3>2
  <2>2. CASE \E o \in Outcomes : Conclude(s, o)
    <3>1. PICK o \in Outcomes :
            run' = [run EXCEPT ![s] = [run[s] EXCEPT !.pc = "finish", !.out = o]]
      BY <2>2 DEF Conclude
    <3>2. run'[s].pc = "finish"
      BY <3>1 DEF Run
    <3> QED
      BY <3>2 DEF DiffStages
  <2>3. CASE run' = [run EXCEPT ![s] = NoRun]
    BY <2>3 DEF NoRun, DiffStages
  <2>4. CASE run' = [run EXCEPT ![s] = [NoRun EXCEPT !.pc = "load"]]
    BY <2>4 DEF NoRun, DiffStages
  <2> QED
    BY <2>1, <2>2, <2>3, <2>4
<1> QED
  BY <1>1, JobIdle

(* So do Arq's own steps, which put the job to rest.                         *)
LEMMA JobArq ==
  ASSUME Typed, NEW s \in Scans,
         \/ PickUp(s) \/ GiveUp(s) \/ Acknowledge(s) \/ LoadEvent(s) \/ CheckStale(s)
         \/ MarkRunning(s) \/ Resolve(s) \/ RequestChanges(s) \/ Finish(s)
         \/ WorkerFault(s)
  PROVE  JobOK(s)'
<1>1. CASE \/ PickUp(s) \/ GiveUp(s) \/ Acknowledge(s) \/ LoadEvent(s) \/ CheckStale(s)
           \/ MarkRunning(s) \/ Finish(s)
  BY <1>1, JobMove
  DEF PickUp, GiveUp, Acknowledge, LoadEvent, CheckStale, MarkRunning, Finish, Settle,
      Stages, DiffStages, Outcomes
<1>2. CASE Resolve(s) \/ RequestChanges(s)
  BY <1>2, JobMove DEF Resolve, RequestChanges, AnswerLost, Stages, DiffStages, Outcomes
<1>3. CASE WorkerFault(s)
  BY <1>3, JobMove
  DEF WorkerFault, WorkerStops, JobTimesOut, ProviderFails, StageRaises, PreludeRaises,
      FinishRaises, Settle, Outcomes
<1> QED
  BY <1>1, <1>2, <1>3

(* The facts about the pull request of a job that its later steps rest on.    *)
LEMMA JobFrame ==
  ASSUME Typed, NEW s \in Scans, Works(s)
  PROVE  /\ PR(s)' = PR(s) /\ head' = head /\ Suppressed' = Suppressed
         /\ run[s] \in Run
         /\ run'[s].diff = run[s].diff =>
              CertainFindings(s)' = CertainFindings(s) /\ DiffFindings(s)' = DiffFindings(s)
<1>1. UNCHANGED <<hostVars, origin, feedback>>
  BY WorkerFrame
<1> QED
  BY <1>1
  DEF hostVars, PR, Ev, Suppressed, CertainFindings, DiffFindings, Typed, Fit, PlTypeOK, PipelineTypeOK

(* The diff is fetched after the pull request and is not older than it.      *)
LEMMA JobFetch ==
  ASSUME Typed, NEW s \in Scans, JobOK(s), FetchPullRequest(s) \/ FetchDiff(s)
  PROVE  JobOK(s)'
<1>1. PR(s)' = PR(s) /\ head' = head /\ run[s] \in Run
  BY JobFrame DEF Works, WorkerStep
<1>2. head[PR(s)] \in Nat
  BY WorksKnown, DiffTypes DEF Heads, Works, WorkerStep
<1>3. CASE FetchPullRequest(s)
  <2>1. run'[s].pc = "diff" /\ run'[s].head = head[PR(s)]
    BY <1>1, <1>3 DEF FetchPullRequest, HeadAtHost, Run, Typed, Fit, PlTypeOK, PipelineTypeOK
  <2> QED
    BY <1>1, <1>2, <2>1 DEF JobOK, DiffStages
<1>4. CASE FetchDiff(s)
  <2>1. /\ run'[s].pc = "detect"
        /\ run'[s].diff = head[PR(s)]
        /\ run'[s].head = run[s].head
    BY <1>1, <1>4 DEF FetchDiff, Run, Typed, Fit, PlTypeOK, PipelineTypeOK
  <2>2. run[s].head <= head[PR(s)]
    BY <1>4 DEF FetchDiff, In, JobOK
  <2> QED
    BY <1>1, <1>2, <2>1, <2>2 DEF JobOK, DiffStages
<1> QED
  BY <1>3, <1>4

(* Detection finds what is certain; suppression removes what is suppressed.  *)
LEMMA JobDetect ==
  ASSUME Typed, NEW s \in Scans, JobOK(s), RunDeterministic(s) \/ RunLLM(s) \/ Suppress(s)
  PROVE  JobOK(s)'
<1>1. PR(s)' = PR(s) /\ head' = head /\ Suppressed' = Suppressed /\ run[s] \in Run
  BY JobFrame DEF Works, WorkerStep
<1>2. PICK pc, F, T :
        /\ run' = [run EXCEPT ![s] = [run[s] EXCEPT !.pc = pc, !.found = F, !.todo = T]]
        /\ \/ /\ pc = "llm" /\ RunDeterministic(s)
              /\ CertainFindings(s) \subseteq F /\ F \subseteq DiffFindings(s)
           \/ /\ pc = "suppress" /\ RunLLM(s)
              /\ \E K \in SUBSET DiffFindings(s) : F = run[s].found \cup K
           \/ /\ pc = "inline" /\ Suppress(s)
              /\ F = run[s].found \ Suppressed
  <2>1. CASE RunDeterministic(s)
    <3>1. PICK K \in SUBSET DiffFindings(s) :
            /\ CertainFindings(s) \subseteq K
            /\ run' = [run EXCEPT ![s] = [run[s] EXCEPT !.pc = "llm", !.found = K]]
      BY <2>1 DEF RunDeterministic
    <3>2. run' = [run EXCEPT ![s] = [run[s] EXCEPT !.pc = "llm", !.found = K,
                                                  !.todo = run[s].todo]]
      BY <1>1, <3>1 DEF Run
    <3> QED
      BY <2>1, <3>1, <3>2
  <2>2. CASE RunLLM(s)
    <3>1. PICK K \in SUBSET (DiffFindings(s) \ run[s].found) :
            run' = [run EXCEPT ![s] = [run[s] EXCEPT !.pc = "suppress",
                                                     !.found = run[s].found \cup K]]
      BY <2>2 DEF RunLLM
    <3>2. run' = [run EXCEPT ![s] = [run[s] EXCEPT !.pc = "suppress",
                                                  !.found = run[s].found \cup K,
                                                  !.todo = run[s].todo]]
      BY <1>1, <3>1 DEF Run
    <3>3. \E M \in SUBSET DiffFindings(s) : run[s].found \cup K = run[s].found \cup M
      OBVIOUS
    <3> QED
      BY <2>2, <3>2, <3>3
  <2>3. CASE Suppress(s)
    BY <2>3 DEF Suppress
  <2> QED
    BY <2>1, <2>2, <2>3
<1> DEFINE r == [run[s] EXCEPT !.pc = pc, !.found = F, !.todo = T]
<1>2a. /\ run'[s] = r
      /\ r.pc = pc /\ r.found = F /\ r.diff = run[s].diff /\ r.head = run[s].head
  BY <1>1, <1>2 DEF Run, Typed, Fit, PlTypeOK, PipelineTypeOK
<1> HIDE DEF r
<1>3. CertainFindings(s)' = CertainFindings(s) /\ DiffFindings(s)' = DiffFindings(s)
  BY <1>2a, JobFrame DEF Works, WorkerStep
<1>4. run[s].head <= run[s].diff /\ run[s].diff <= head[PR(s)]
  BY DEF JobOK, RunDeterministic, RunLLM, Suppress, In, DiffStages
<1>5. CASE pc = "llm"
  BY <1>1, <1>2, <1>2a, <1>3, <1>4, <1>5 DEF JobOK
<1>6. CASE pc = "suppress"
  <2>1. CertainFindings(s) \subseteq run[s].found /\ run[s].found \subseteq DiffFindings(s)
    BY <1>2, <1>6 DEF RunLLM, In, JobOK
  <2> QED
    BY <1>1, <1>2, <1>2a, <1>3, <1>4, <1>6, <2>1 DEF JobOK
<1>7. CASE pc = "inline"
  <2>1. CertainFindings(s) \subseteq run[s].found /\ run[s].found \subseteq DiffFindings(s)
    BY <1>2, <1>7 DEF Suppress, In, JobOK
  <2> QED
    BY <1>1, <1>2, <1>2a, <1>3, <1>4, <1>7, <2>1 DEF JobOK
<1> QED
  BY <1>2, <1>5, <1>6, <1>7

(* Publication keeps the findings and decides on all of them.                *)
LEMMA JobPublish ==
  ASSUME Typed, NEW s \in Scans, JobOK(s), PostInline(s) \/ PostSummary(s) \/ SetStatusCheck(s)
  PROVE  JobOK(s)'
<1> USE DEF Typed, Fit, PlTypeOK, PipelineTypeOK
<1>1. PR(s)' = PR(s) /\ head' = head /\ Suppressed' = Suppressed /\ run[s] \in Run
  BY JobFrame DEF Works, WorkerStep
<1>2. CASE AnswerLost(s) \/ (SetStatusCheck(s) /\ Conclude(s, "completed"))
  BY <1>2, JobMove DEF AnswerLost, Outcomes
<1>3. CASE ~ (AnswerLost(s) \/ (SetStatusCheck(s) /\ Conclude(s, "completed")))
  <2>1. /\ run'[s].diff = run[s].diff
        /\ run'[s].head = run[s].head
        /\ run'[s].found = run[s].found
        /\ \/ PostInline(s) /\ run'[s].pc = run[s].pc
           \/ /\ PostSummary(s) /\ run'[s].pc = "status"
              /\ run'[s].verdict = Verdict(run[s].found)
           \/ SetStatusCheck(s) /\ run'[s].pc = "changes"
    <3>1. CASE PostInline(s)
      <4>1. PICK T : run' = [run EXCEPT ![s].todo = T]
        BY <1>3, <3>1 DEF PostInline
      <4> QED
        BY <1>1, <3>1, <4>1 DEF Run
    <3>2. CASE PostSummary(s)
      <4>1. run' = [run EXCEPT ![s] = [run[s] EXCEPT !.pc = "status",
                                                      !.verdict = Verdict(run[s].found)]]
        BY <1>3, <3>2 DEF PostSummary
      <4> QED
        BY <1>1, <3>2, <4>1 DEF Run
    <3>3. CASE SetStatusCheck(s)
      <4>1. run' = [run EXCEPT ![s].pc = "changes"]
        BY <1>3, <3>3 DEF SetStatusCheck, Enter
      <4> QED
        BY <1>1, <3>3, <4>1 DEF Run
    <3> QED
      BY <3>1, <3>2, <3>3
  <2>2. CertainFindings(s)' = CertainFindings(s) /\ DiffFindings(s)' = DiffFindings(s)
    BY <2>1, JobFrame DEF Works, WorkerStep
  <2>3. run[s].head <= run[s].diff /\ run[s].diff <= head[PR(s)]
    BY DEF JobOK, PostInline, PostSummary, SetStatusCheck, In, DiffStages
  <2>4. CASE SetStatusCheck(s) /\ run'[s].pc = "changes"
    BY <1>1, <2>1, <2>3, <2>4 DEF JobOK
  <2>5. CASE \/ PostInline(s) /\ run'[s].pc = run[s].pc
             \/ /\ PostSummary(s) /\ run'[s].pc = "status"
                /\ run'[s].verdict = Verdict(run[s].found)
    <3>1. /\ run[s].pc = "inline"
          /\ CertainFindings(s) \ Suppressed \subseteq run[s].found
          /\ run[s].found \subseteq DiffFindings(s)
      BY <2>5 DEF PostInline, PostSummary, In, JobOK
    <3> QED
      BY <1>1, <2>1, <2>2, <2>3, <2>5, <3>1 DEF JobOK
  <2> QED
    BY <2>1, <2>4, <2>5
<1> QED
  BY <1>2, <1>3

-----------------------------------------------------------------------------
(* The gate.                                                                 *)

(* A verdict "success" on a set of findings that contains the certain ones,   *)
(* up to suppression, leaves no unsuppressed finding that must block.         *)
LEMMA SuccessIsClean ==
  ASSUME NEW p, NEW h, NEW K,
         MergeBlock # "off", Verdict(K) = "success",
         Certain[p][h] \ Suppressed \subseteq K
  PROVE  MustBlock(p, h) \subseteq Suppressed
  BY DEF MustBlock, Verdict, BlocksMerge, Blocks

(* A status carries what its job knows over to the gate.                     *)
LEMMA GatePublish ==
  ASSUME Typed, NEW s \in Scans, JobOK(s), GateOK, SetStatusCheck(s)
  PROVE  GateOK'
<1> DEFINE p == PR(s)
           h == run[s].head
           g == [state |-> run[s].verdict, diff |-> run[s].diff]
<1>1. p \in PRs /\ h \in Heads /\ run[s].diff \in Heads /\ g \in Gate
  <2>1. p \in PRs
    BY WorksKnown, DiffTypes DEF Works, WorkerStep
  <2> QED
    BY <2>1 DEF Typed, Fit, PlTypeOK, PipelineTypeOK, HeadsOK, SetStatusCheck, In, DiffStages, Run, Gate
<1>2. gate' = [gate EXCEPT ![p][h] = g] /\ gate \in [PRs -> [Heads -> Gate]]
  BY DEF SetStatusCheck, StatusHead, Typed, Fit, PlTypeOK, PipelineTypeOK
<1>3. head' = head /\ Suppressed' = Suppressed
  BY JobFrame DEF Works, WorkerStep
<1>4. /\ run[s].head <= run[s].diff
      /\ run[s].diff <= head[p]
      /\ CertainFindings(s) \ Suppressed \subseteq run[s].found
      /\ run[s].verdict = Verdict(run[s].found)
  BY DEF SetStatusCheck, In, JobOK, DiffStages
<1>5. (MergeBlock # "off" /\ g.state = "success") => MustBlock(p, g.diff) \subseteq Suppressed
  BY <1>4, SuccessIsClean DEF CertainFindings
<1> SUFFICES ASSUME NEW q \in PRs, NEW k \in Heads, gate'[q][k].state # "none"
             PROVE  /\ k <= gate'[q][k].diff
                    /\ gate'[q][k].diff <= head[q]
                    /\ (MergeBlock # "off" /\ gate'[q][k].state = "success") =>
                          MustBlock(q, gate'[q][k].diff) \subseteq Suppressed
  BY <1>3 DEF GateOK, MustBlock
<1>6. CASE q = p /\ k = h
  <2>1. gate'[q][k] = g
    BY <1>1, <1>2, <1>6
  <2> QED
    BY <2>1, <1>4, <1>5, <1>6
<1>7. CASE ~ (q = p /\ k = h)
  <2>1. gate'[q][k] = gate[q][k]
    BY <1>1, <1>2, <1>7
  <2> QED
    BY <2>1 DEF GateOK
<1> QED
  BY <1>6, <1>7

-----------------------------------------------------------------------------

(* A new pipeline has nothing to keep.                                       *)
LEMMA GateInvInit == PlInit => GateInv
<1> SUFFICES ASSUME PlInit PROVE GateInv
  OBVIOUS
<1>1. GateOK
  BY DEF PlInit, PipelineInit, GateOK, NoGate
<1>2. \A s \in Scans : JobOK(s)
  BY DEF PlInit, PipelineInit, JobOK, NoRun, DiffStages
<1> QED
  BY <1>1, <1>2, TypedInit DEF GateInv

(* Every step keeps jobs and gates sound.                                    *)
LEMMA GateMoves ==
  ASSUME GateInv, Typed', Moves
  PROVE  GateInv'
<1> USE DEF GateInv
<1>1. CASE Around
  BY <1>1, JobKept, GateKept DEF Around
<1>2. ASSUME NEW s \in Scans, Works(s)
      PROVE  GateInv'
  <2>1. JobOK(s)'
    BY <1>2, JobArq, JobFetch, JobDetect, JobPublish DEF Works, WorkerStep
  <2>2. \A t \in Scans : t # s => JobOK(t)'
    BY <1>2, WorkerFrame, JobKept
  <2>3. GateOK'
    BY <1>2, WorkerFrame, GateKept, GatePublish
  <2> QED
    BY <2>1, <2>2, <2>3
<1> QED
  BY <1>1, <1>2 DEF Moves

(* Hence the invariant.                                                      *)
LEMMA GateInvAlways == PlSpec => []GateInv
<1>1. GateInv /\ [PlNext]_plVars => GateInv'
  BY TypedNext, GateMoves DEF GateInv
<1> QED
  BY <1>1, GateInvInit, PTL DEF PlSpec

(* It says that the status of the current head is sound.                     *)
LEMMA GateInvSound ==
  ASSUME GateInv
  PROVE  CurrentGateSound
<1> SUFFICES ASSUME MergeBlock # "off",
                    NEW p \in PRs, head[p] > 0, gate[p][head[p]].state = "success"
             PROVE  MustBlock(p, head[p]) \subseteq Suppressed
  BY DEF CurrentGateSound
<1>1. head[p] \in Heads /\ head[p] \in Nat
  BY HostAssumption DEF GateInv, Typed, Fit, PlTypeOK, HostTypeOK, Heads
<1>2. gate[p][head[p]].diff \in Nat
  BY <1>1, HostAssumption DEF GateInv, Typed, Fit, PlTypeOK, PipelineTypeOK, Gate
<1>3. gate[p][head[p]].diff = head[p]
  BY <1>1, <1>2 DEF GateInv, GateOK
<1> QED
  BY <1>1, <1>3 DEF GateInv, GateOK

(* However scans, retries, failures and pushes race, a commit status          *)
(* "success" on the current head of a pull request never hides a critical      *)
(* finding that detection cannot miss and that nobody suppressed: the head of *)
(* the status is at most the fetched diff, which is at most the current head. *)
THEOREM GateSound == PlSpec => []CurrentGateSound
  BY GateInvSound, GateInvAlways, PTL

-----------------------------------------------------------------------------
(* The pipeline implements the abstract gate: of all its steps only those      *)
(* that move a head, record feedback or set a status show in SecurityGate.     *)


(* The abstract gate: the states of the statuses.                            *)
GateStates == [p \in PRs |-> [h \in Heads |-> gate[p][h].state]]

(* The two policies decide alike: SecurityGate has its own copy of decide.   *)
LEMMA SameVerdict == \A K : SG!Verdict(K) = Verdict(K)
  BY DEF SG!Verdict, SG!BlocksMerge, SG!Blocks, Verdict, BlocksMerge, Blocks

(* A new pipeline shows as a new gate.                                       *)
LEMMA RefinesInit == PlInit => SG!Init
<1> SUFFICES ASSUME PlInit PROVE SG!Init
  OBVIOUS
<1>1. GateStates = [p \in PRs |-> [h \in 1 .. MaxHead |-> "none"]]
  BY DEF PlInit, PipelineInit, NoGate, GateStates, Heads
<1>2. head \in [PRs -> 0 .. MaxHead]
  BY HostAssumption DEF PlInit, Heads
<1> QED
  BY <1>1, <1>2 DEF SG!Init, PlInit, PipelineInit, GateStates

(* A status that is set is one sound publication.                            *)
LEMMA RefinesPublish ==
  ASSUME GateInv, NEW s \in Scans, SetStatusCheck(s),
         NEW p \in PRs, NEW h \in Heads, NEW d \in Heads,
         p = PR(s), h = run[s].head, d = run[s].diff
  PROVE  SG!Publish(p, h, d)
<1> DEFINE K == run[s].found
<1>1. p \in PRs /\ h \in Heads /\ d \in Heads
  OBVIOUS
<1>2. /\ h <= d /\ d <= head[p]
      /\ Certain[p][d] \ Suppressed \subseteq K
      /\ K \subseteq Diff[p][d]
      /\ run[s].verdict = Verdict(K)
  BY DEF GateInv, SetStatusCheck, In, JobOK, DiffStages, CertainFindings, DiffFindings
<1>3. SG!Unsuppressed(Certain[p][d]) \subseteq K
  <2>1. Certain[p][d] \subseteq Findings
    BY <1>1, PipelineAssumption
  <2>2. \A f \in Findings : feedback[PrintOf[f]] \in Nat /\ Threshold \in Nat
    BY PipelineAssumption DEF GateInv, Typed, Fit, PlTypeOK, PipelineTypeOK
  <2> QED
    BY <1>2, <2>1, <2>2 DEF SG!Unsuppressed, Suppressed
<1>4. GateStates' = [GateStates EXCEPT ![p][h] = Verdict(K)]
  <2>1. gate \in [PRs -> [Heads -> Gate]]
    BY DEF GateInv, Typed, Fit, PlTypeOK, PipelineTypeOK
  <2>2. gate' = [gate EXCEPT ![p][h] = [state |-> Verdict(K), diff |-> d]]
    BY <1>2 DEF SetStatusCheck, StatusHead
  <2> QED
    BY <1>1, <2>1, <2>2 DEF GateStates
<1>5. UNCHANGED <<head, feedback>>
  BY WorkerFrame DEF GateInv, Works, WorkerStep, hostVars
<1> QED
  BY <1>2, <1>3, <1>4, <1>5, SameVerdict DEF SG!Publish, GateStates

(* Every step of a job is a step of the abstract gate or none.               *)
LEMMA RefinesWorks ==
  ASSUME GateInv, NEW s \in Scans, Works(s)
  PROVE  [SG!Next]_(SG!vars)
<1>1. CASE SetStatusCheck(s)
  <2>1. PR(s) \in PRs /\ run[s].head \in Heads /\ run[s].diff \in Heads
    BY <1>1, WorksKnown, DiffTypes DEF GateInv, HeadsOK, Typed, Fit, SetStatusCheck, In, DiffStages
  <2>2. PICK p \in PRs, h \in Heads, d \in Heads :
          p = PR(s) /\ h = run[s].head /\ d = run[s].diff
    BY <2>1
  <2>3. SG!Publish(p, h, d)
    BY <1>1, <2>2, RefinesPublish
  <2> QED
    BY <2>3 DEF SG!Next, Heads
<1>2. CASE UNCHANGED <<hostVars, feedback, gate>>
  BY <1>2 DEF hostVars, SG!vars
<1> QED
  BY <1>1, <1>2, WorkerFrame DEF GateInv, hostVars

(* So is every step of the pipeline.                                         *)
LEMMA RefinesNext ==
  ASSUME GateInv, [PlNext]_plVars
  PROVE  [SG!Next]_(SG!vars)
<1>1. CASE UNCHANGED plVars
  BY <1>1 DEF plVars, hostVars, pipelineVars, SG!vars
<1>2. CASE Surroundings
  <2>1. CASE \E k \in Prints : MarkFalsePositive(k)
    BY <2>1 DEF MarkFalsePositive, hostVars, SG!Next, SG!Mark
  <2>2. ASSUME NEW p \in PRs, Advance(p), UNCHANGED pipelineVars
        PROVE  SG!Next
    BY <2>2 DEF Advance, pipelineVars, SG!Next, SG!NewHead
  <2>3. CASE UNCHANGED head /\ UNCHANGED pipelineVars
    BY <2>3 DEF pipelineVars, SG!vars
  <2>4. \/ \E k \in Prints : MarkFalsePositive(k)
        \/ UNCHANGED pipelineVars /\ \E p \in PRs : Advance(p)
        \/ UNCHANGED pipelineVars /\ UNCHANGED head
    BY <1>2, Zenon DEF Surroundings
  <2> QED
    BY <2>1, <2>2, <2>3, <2>4, Zenon
<1>3. CASE PipelineNext
  BY <1>3, RefinesWorks DEF PipelineNext, Works
<1> QED
  BY <1>1, <1>2, <1>3 DEF PlNext, PipelineNext

(* The pipeline implements SecurityGate: the commit statuses of concurrent,   *)
(* retried and failing scans of runner.py, render.py and policy.py appear at  *)
(* the host as atomic publications, each on a head that is not newer than the *)
(* diff it judges, from which only suppressed findings are left out.          *)
THEOREM GateRefinement == PlSpec => ImplementsSecurityGate
<1>1. PlInit => SG!Init
  BY RefinesInit
<1>2. GateInv /\ [PlNext]_plVars => [SG!Next]_(SG!vars)
  BY RefinesNext
<1> QED
  BY <1>1, <1>2, GateInvAlways, PTL DEF PlSpec, SG!Spec, ImplementsSecurityGate

=============================================================================
