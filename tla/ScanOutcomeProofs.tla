-------------------------- MODULE ScanOutcomeProofs --------------------------
(***************************************************************************)
(* What a scan leaves behind: how often a retried job repeats itself, which     *)
(* comments have rows, and what a completed row promises, for every value of    *)
(* the constants and every set of faults.                                    *)
(*                                                                         *)
(* The properties speak of counters in the tables and at the host; they hold     *)
(* because of where the job stands: what it has yet to do in this try has been   *)
(* done in earlier tries at most.                                            *)
(***************************************************************************)
EXTENDS ScanPipelineProofs

(* The stages before anything is stored or published.                          *)
Early == {"load", "stale", "start", "resolve", "pr", "diff", "detect"}

(* What the try that is under way has yet to do was done less often than the job  *)
(* was started.                                                              *)
TryOK(s) ==
  /\ \A f \in Findings : comments[s][f] <= tries[s] /\ stored[s][f] <= tries[s]
  /\ summaries[s] <= tries[s] /\ reviews[s] <= tries[s]
  /\ run[s].pc \in Early => \A f \in Findings : stored[s][f] < tries[s]
  /\ run[s].pc = "llm" => \A f \in Findings \ run[s].found : stored[s][f] < tries[s]
  /\ run[s].pc \in Early \cup {"llm", "suppress"} =>
       \A f \in Findings : comments[s][f] < tries[s]
  /\ run[s].pc = "inline" => \A f \in run[s].todo : comments[s][f] < tries[s]
  /\ run[s].pc \in Early \cup {"llm", "suppress", "inline"} => summaries[s] < tries[s]
  /\ run[s].pc \in Early \cup {"llm", "suppress", "inline", "status", "changes"} =>
       reviews[s] < tries[s]

(* What a job is about to comment is stored.                                  *)
StoredOK(s) ==
  /\ \A f \in Findings : comments[s][f] > 0 => stored[s][f] > 0
  /\ run[s].pc \in {"llm", "suppress", "inline"} => \A f \in run[s].found : stored[s][f] > 0
  /\ run[s].pc = "inline" => run[s].todo \subseteq run[s].found

HasStatus(s) == \E h \in Heads : gate[PR(s)][h].state # "none"

(* What a job about to say "completed" has published.                          *)
PublishedOK(s) ==
  /\ run[s].pc \in {"status", "changes"} => summaries[s] > 0 /\ run[s].verdict # "none"
  /\ run[s].pc = "changes" => HasStatus(s)
  /\ (run[s].pc = "finish" /\ run[s].out = "completed") =>
       /\ summaries[s] > 0
       /\ run[s].verdict # "none"
       /\ HasStatus(s)
       /\ run[s].verdict = "failure" => reviews[s] > 0
  /\ status[s] = "completed" =>
       /\ summaries[s] > 0
       /\ decision[s] # "none"
       /\ HasStatus(s)
       /\ decision[s] = "failure" => reviews[s] > 0

OutcomeInv == Typed /\ \A s \in Scans : TryOK(s) /\ StoredOK(s) /\ PublishedOK(s)

-----------------------------------------------------------------------------
(* What a step leaves alone.                                                 *)

(* A worker's step changes nothing that is counted of another scan.            *)
LEMMA OthersKept ==
  ASSUME Typed, NEW s \in Scans, Works(s), NEW t \in Scans, t # s
  PROVE  /\ run'[t] = run[t] /\ tries'[t] = tries[t] /\ status'[t] = status[t]
         /\ job'[t] = job[t] /\ stash' = stash
         /\ stored'[t] = stored[t] /\ comments'[t] = comments[t]
         /\ summaries'[t] = summaries[t] /\ reviews'[t] = reviews[t]
         /\ decision'[t] = decision[t]
<1> USE DEF Typed, Fit, PlTypeOK, PipelineTypeOK, StoreTypeOK
<1>1. CASE WorkerStep(s)
  BY <1>1
  DEF WorkerStep, PickUp, GiveUp, Acknowledge, LoadEvent, CheckStale, MarkRunning, Resolve,
      FetchPullRequest, FetchDiff, RunDeterministic, RunLLM, Suppress, PostInline, PostSummary,
      SetStatusCheck, RequestChanges, Finish, Enter, Conclude, Settle, AnswerLost, Persist,
      OutsideUnchanged, NothingPublished, storeVars
<1>2. CASE WorkerFault(s)
  BY <1>2
  DEF WorkerFault, WorkerStops, JobTimesOut, ProviderFails, StageRaises, PreludeRaises,
      FinishRaises, Conclude, Settle, OutsideUnchanged, NothingPublished, storeVars
<1> QED
  BY <1>1, <1>2 DEF Works

(* A scan that is known keeps its pull request, and a pull request that has a       *)
(* status keeps one: publishing overwrites, it never removes.                   *)
LEMMA StatusStays ==
  ASSUME OutcomeInv, Typed', Moves, NEW t \in Scans, Known(t), HasStatus(t)
  PROVE  HasStatus(t)'
<1>1. PR(t)' = PR(t) /\ PR(t) \in PRs
  BY Growth, DiffTypes DEF OutcomeInv
<1>2. CASE UNCHANGED gate
  BY <1>1, <1>2 DEF HasStatus
<1>3. ASSUME NEW s \in Scans, SetStatusCheck(s) PROVE HasStatus(t)'
  <2>1. run[s].verdict # "none" /\ gate \in [PRs -> [Heads -> Gate]]
    BY <1>3 DEF OutcomeInv, PublishedOK, SetStatusCheck, In, Typed, Fit, PlTypeOK, PipelineTypeOK
  <2>2. PICK h \in Heads : gate[PR(t)][h].state # "none"
    BY DEF HasStatus
  <2>3. gate'[PR(t)][h].state \in {gate[PR(t)][h].state, run[s].verdict}
    BY <1>1, <1>3, <2>1 DEF SetStatusCheck
  <2>4. QED
    BY <1>1, <2>1, <2>2, <2>3 DEF HasStatus
<1>4. CASE Around
  BY <1>2, <1>4 DEF Around
<1>5. CASE \E s \in Scans : Works(s)
  BY <1>2, <1>3, <1>5, WorkerFrame DEF OutcomeInv
<1> QED
  BY <1>4, <1>5 DEF Moves

(* A scan whose job does not move keeps what was said of it.                    *)
LEMMA ScanKept ==
  ASSUME OutcomeInv, Typed', Moves, NEW t \in Scans,
         run'[t] = run[t] /\ tries'[t] = tries[t],
         Known(t) => status'[t] = status[t],
         ~ Known(t) => status'[t] \in {"none", "queued"},
         stored'[t] = stored[t] /\ comments'[t] = comments[t],
         summaries'[t] = summaries[t] /\ reviews'[t] = reviews[t] /\ decision'[t] = decision[t]
  PROVE  TryOK(t)' /\ StoredOK(t)' /\ PublishedOK(t)'
<1>1. TryOK(t) /\ StoredOK(t) /\ PublishedOK(t)
  BY DEF OutcomeInv
<1>2. TryOK(t)'
  BY <1>1 DEF TryOK
<1>3. StoredOK(t)'
  BY <1>1 DEF StoredOK
<1>4. CASE Known(t)
  <2>1. HasStatus(t) => HasStatus(t)'
    BY <1>4, StatusStays
  <2>2. PublishedOK(t)'
    BY <1>1, <1>4, <2>1 DEF PublishedOK
  <2> QED
    BY <1>2, <1>3, <2>2
<1>5. CASE ~ Known(t)
  <2>1. run'[t].pc = "off" /\ status'[t] # "completed"
    BY <1>5 DEF Known
  <2>2. PublishedOK(t)'
    BY <2>1 DEF PublishedOK
  <2> QED
    BY <1>2, <1>3, <2>2
<1> QED
  BY <1>4, <1>5

-----------------------------------------------------------------------------
(* The steps that store and publish nothing.                                  *)

Quiet(s) ==
  /\ stored'[s] = stored[s] /\ comments'[s] = comments[s]
  /\ summaries'[s] = summaries[s] /\ reviews'[s] = reviews[s] /\ tries'[s] = tries[s]

(* They end the try or its work, or they are early ones.                       *)
LEMMA QuietSteps ==
  ASSUME Typed, NEW s \in Scans,
         \/ GiveUp(s) \/ WorkerStops(s) \/ JobTimesOut(s) \/ Acknowledge(s) \/ PreludeRaises(s)
         \/ LoadEvent(s) \/ CheckStale(s) \/ MarkRunning(s) \/ Resolve(s)
         \/ FetchPullRequest(s) \/ FetchDiff(s)
         \/ Finish(s) \/ ProviderFails(s) \/ StageRaises(s) \/ FinishRaises(s)
  PROVE  /\ Quiet(s)
         /\ \/ run'[s].pc \in {"off", "ack"}
            \/ run'[s].pc = "finish" /\ run'[s].out # "completed"
            \/ run[s].pc \in Early /\ run'[s].pc \in Early
<1> USE DEF Typed, Fit, PlTypeOK, PipelineTypeOK, Quiet
<1>1. CASE GiveUp(s) \/ WorkerStops(s) \/ JobTimesOut(s) \/ Acknowledge(s) \/ PreludeRaises(s)
  <2>1. run'[s] = NoRun
    BY <1>1 DEF GiveUp, WorkerStops, JobTimesOut, Acknowledge, PreludeRaises, Settle
  <2>2. Quiet(s)
    BY <1>1 DEF GiveUp, WorkerStops, JobTimesOut, Acknowledge, PreludeRaises, NothingPublished
  <2> QED
    BY <2>1, <2>2 DEF NoRun
<1>2. ASSUME NEW pc, Enter(s, pc) PROVE run'[s].pc = pc
  BY <1>2 DEF Enter, Run
<1>3. ASSUME NEW o, Conclude(s, o) PROVE run'[s].pc = "finish" /\ run'[s].out = o
  BY <1>3 DEF Conclude, Run
<1>4. CASE LoadEvent(s) \/ CheckStale(s) \/ MarkRunning(s) \/ Resolve(s)
  <2>1. Quiet(s)
    BY <1>4 DEF LoadEvent, CheckStale, MarkRunning, Resolve, OutsideUnchanged, NothingPublished, storeVars
  <2> QED
    BY <1>2, <1>3, <1>4, <2>1 DEF LoadEvent, CheckStale, MarkRunning, Resolve, In, Early
<1>5. CASE FetchPullRequest(s) \/ FetchDiff(s)
  <2>1. Quiet(s)
    BY <1>5 DEF FetchPullRequest, FetchDiff, OutsideUnchanged, NothingPublished, storeVars
  <2>2. run[s] \in Run
    OBVIOUS
  <2>3. CASE FetchPullRequest(s)
    <3>1. run[s].pc = "pr" /\ run'[s].pc = "diff"
      BY <2>2, <2>3 DEF FetchPullRequest, In, Run
    <3> QED
      BY <2>1, <3>1 DEF Early
  <2>4. CASE FetchDiff(s)
    <3>1. run[s].pc = "diff" /\ run'[s].pc = "detect"
      BY <2>2, <2>4 DEF FetchDiff, In, Run
    <3> QED
      BY <2>1, <3>1 DEF Early
  <2> QED
    BY <1>5, <2>3, <2>4
<1>6. CASE ProviderFails(s) \/ StageRaises(s)
  <2>1. Quiet(s)
    BY <1>6 DEF ProviderFails, StageRaises, OutsideUnchanged, NothingPublished, storeVars
  <2> QED
    BY <1>3, <1>6, <2>1 DEF ProviderFails, StageRaises
<1>7. CASE Finish(s)
  BY <1>2, <1>7 DEF Finish, NothingPublished
<1>8. CASE FinishRaises(s)
  <2>1. Quiet(s)
    BY <1>8 DEF FinishRaises, NothingPublished
  <2>2. CASE Conclude(s, "error")
    BY <1>3, <2>1, <2>2
  <2>3. CASE Settle(s)
    BY <2>1, <2>3 DEF Settle, NoRun
  <2> QED
    BY <1>8, <2>2, <2>3 DEF FinishRaises
<1> QED
  BY <1>1, <1>4, <1>5, <1>6, <1>7, <1>8

(* What a quiet step writes into the row is what _finish was called with.         *)
LEMMA QuietRow ==
  ASSUME OutcomeInv, Typed', Moves, NEW s \in Scans, Known(s),
         \/ GiveUp(s) \/ WorkerStops(s) \/ JobTimesOut(s) \/ Acknowledge(s) \/ PreludeRaises(s)
         \/ LoadEvent(s) \/ CheckStale(s) \/ MarkRunning(s) \/ Resolve(s)
         \/ FetchPullRequest(s) \/ FetchDiff(s)
         \/ Finish(s) \/ ProviderFails(s) \/ StageRaises(s) \/ FinishRaises(s)
  PROVE  TryOK(s)' /\ StoredOK(s)' /\ PublishedOK(s)'
<1>1. TryOK(s) /\ StoredOK(s) /\ PublishedOK(s) /\ Typed
  BY DEF OutcomeInv
<1>2. /\ Quiet(s)
      /\ \/ run'[s].pc \in {"off", "ack"}
         \/ run'[s].pc = "finish" /\ run'[s].out # "completed"
         \/ run[s].pc \in Early /\ run'[s].pc \in Early
  BY <1>1, QuietSteps
<1>3. TryOK(s)'
  BY <1>1, <1>2 DEF TryOK, Quiet, Early
<1>4. StoredOK(s)'
  BY <1>1, <1>2 DEF StoredOK, Quiet, Early
<1>5. \/ status'[s] = status[s] /\ decision'[s] = decision[s]
      \/ status'[s] = "running"
      \/ /\ run[s].pc = "finish"
         /\ status'[s] = run[s].out /\ decision'[s] = run[s].verdict
  BY <1>1
  DEF GiveUp, WorkerStops, JobTimesOut, Acknowledge, PreludeRaises, LoadEvent, CheckStale,
      MarkRunning, Resolve, FetchPullRequest, FetchDiff, Finish, ProviderFails, StageRaises,
      FinishRaises, In, OutsideUnchanged, storeVars, Typed, Fit, PlTypeOK, PipelineTypeOK, StoreTypeOK
<1>6. PublishedOK(s)'
  BY <1>1, <1>2, <1>5, StatusStays DEF PublishedOK, Quiet, Early
<1> QED
  BY <1>3, <1>4, <1>6

-----------------------------------------------------------------------------
(* The steps that store or publish.                                          *)

(* The row keeps its promise when a step adds to what was published.            *)
LEMMA RowStays ==
  ASSUME OutcomeInv, Typed', Moves, NEW s \in Scans, Known(s),
         status'[s] = status[s] /\ decision'[s] = decision[s],
         summaries'[s] >= summaries[s] /\ reviews'[s] >= reviews[s]
  PROVE  status'[s] = "completed" =>
           /\ summaries'[s] > 0 /\ decision'[s] # "none" /\ HasStatus(s)'
           /\ decision'[s] = "failure" => reviews'[s] > 0
<1>1. /\ summaries[s] \in Nat /\ summaries'[s] \in Nat
      /\ reviews[s] \in Nat /\ reviews'[s] \in Nat
  BY DEF OutcomeInv, Typed, Fit, PlTypeOK, PipelineTypeOK
<1>2. HasStatus(s) => HasStatus(s)'
  BY StatusStays
<1>3. PublishedOK(s)
  BY DEF OutcomeInv
<1> QED
  BY <1>1, <1>2, <1>3 DEF PublishedOK

(* Arq starts the job again: all that the new try will do is one less than tries.  *)
LEMMA PickUpRow ==
  ASSUME OutcomeInv, Typed', Moves, NEW s \in Scans, Known(s), PickUp(s)
  PROVE  TryOK(s)' /\ StoredOK(s)' /\ PublishedOK(s)'
<1>1. TryOK(s) /\ StoredOK(s) /\ Typed
  BY DEF OutcomeInv
<1>2. run'[s].pc = "load"
  BY <1>1 DEF PickUp, NoRun, Typed, Fit, PlTypeOK, PipelineTypeOK
<1>3. tries'[s] = tries[s] + 1 /\ tries[s] \in Nat
  BY <1>1, StoreAssumption DEF PickUp, Typed, Fit, PlTypeOK, StoreTypeOK
<1>4. /\ UNCHANGED <<stored, comments, summaries, reviews, status, decision>>
      /\ stored \in [Scans -> [Findings -> Nat]] /\ comments \in [Scans -> [Findings -> Nat]]
      /\ summaries \in [Scans -> Nat] /\ reviews \in [Scans -> Nat]
  BY <1>1 DEF PickUp, NothingPublished, Typed, Fit, PlTypeOK, PipelineTypeOK
<1>5. TryOK(s)'
  BY <1>1, <1>2, <1>3, <1>4 DEF TryOK, Early
<1>6. StoredOK(s)'
  BY <1>1, <1>2, <1>4 DEF StoredOK
<1>7. PublishedOK(s)'
  BY <1>2, <1>4, RowStays DEF PublishedOK
<1> QED
  BY <1>5, <1>6, <1>7

(* Every finding that detection adds gets its row, and no finding gets two.      *)
LEMMA DetectRow ==
  ASSUME OutcomeInv, Typed', Moves, NEW s \in Scans, Known(s), RunDeterministic(s) \/ RunLLM(s)
  PROVE  TryOK(s)' /\ StoredOK(s)' /\ PublishedOK(s)'
<1>1. TryOK(s) /\ StoredOK(s) /\ Typed
  BY DEF OutcomeInv
<1>2. /\ run \in [Scans -> Run] /\ run[s] \in Run /\ run[s].found \subseteq Findings
      /\ stored \in [Scans -> [Findings -> Nat]] /\ tries[s] \in Nat
      /\ comments \in [Scans -> [Findings -> Nat]]
      /\ summaries[s] \in Nat /\ reviews[s] \in Nat
  BY <1>1, StoreAssumption DEF Typed, Fit, PlTypeOK, StoreTypeOK, PipelineTypeOK, Run
<1>3. UNCHANGED <<tries, comments, summaries, reviews, status, decision>>
  BY DEF RunDeterministic, RunLLM, OutsideUnchanged, NothingPublished, storeVars
<1>4. DiffFindings(s) \subseteq Findings
  BY <1>1, DiffTypes DEF RunDeterministic, RunLLM, In, DiffStages
<1>5. PICK K \in SUBSET Findings :
        /\ Persist(s, K)
        /\ \/ run[s].pc = "detect" /\ run'[s].pc = "llm" /\ run'[s].found = K
           \/ /\ run[s].pc = "llm" /\ run'[s].pc = "suppress"
              /\ run'[s].found = run[s].found \cup K
              /\ K \cap run[s].found = {}
  <2>1. CASE RunDeterministic(s)
    <3>1. PICK K \in SUBSET DiffFindings(s) :
            /\ Persist(s, K)
            /\ run' = [run EXCEPT ![s] = [run[s] EXCEPT !.pc = "llm", !.found = K]]
      BY <2>1 DEF RunDeterministic
    <3>2. run'[s].pc = "llm" /\ run'[s].found = K
      BY <1>2, <3>1 DEF Run
    <3> QED
      BY <1>4, <2>1, <3>1, <3>2 DEF RunDeterministic, In
  <2>2. CASE RunLLM(s)
    <3>1. PICK K \in SUBSET (DiffFindings(s) \ run[s].found) :
            /\ Persist(s, K)
            /\ run' = [run EXCEPT ![s] = [run[s] EXCEPT !.pc = "suppress",
                                                        !.found = run[s].found \cup K]]
      BY <2>2 DEF RunLLM
    <3>2. run'[s].pc = "suppress" /\ run'[s].found = run[s].found \cup K
      BY <1>2, <3>1 DEF Run
    <3>3. K \in SUBSET Findings /\ K \cap run[s].found = {}
      BY <1>4
    <3> QED
      BY <2>2, <3>1, <3>2, <3>3 DEF RunLLM, In
  <2> QED
    BY <2>1, <2>2
<1>6. \A f \in Findings : stored'[s][f] = stored[s][f] + IF f \in K THEN 1 ELSE 0
  BY <1>2, <1>5 DEF Persist
<1>7. \A f \in Findings : stored[s][f] \in Nat /\ comments[s][f] \in Nat
  BY <1>2
<1>8. TryOK(s)'
  BY <1>1, <1>2, <1>3, <1>5, <1>6, <1>7 DEF TryOK, Early
<1>9. StoredOK(s)'
  <2>1. \A f \in Findings : comments'[s][f] > 0 => stored'[s][f] > 0
    BY <1>1, <1>3, <1>6, <1>7 DEF StoredOK
  <2>2. \A f \in run'[s].found : stored'[s][f] > 0
    BY <1>1, <1>2, <1>5, <1>6, <1>7 DEF StoredOK
  <2> QED
    BY <1>5, <2>1, <2>2 DEF StoredOK
<1>10. PublishedOK(s)'
  BY <1>2, <1>3, <1>5, RowStays DEF PublishedOK
<1> QED
  BY <1>8, <1>9, <1>10

(* Suppression only removes findings, and only findings that are left are          *)
(* commented.                                                                *)
LEMMA SuppressRow ==
  ASSUME OutcomeInv, Typed', Moves, NEW s \in Scans, Known(s), Suppress(s)
  PROVE  TryOK(s)' /\ StoredOK(s)' /\ PublishedOK(s)'
<1>1. TryOK(s) /\ StoredOK(s) /\ Typed
  BY DEF OutcomeInv
<1>2. /\ run \in [Scans -> Run] /\ run[s] \in Run /\ run[s].found \subseteq Findings
      /\ summaries[s] \in Nat /\ reviews[s] \in Nat
  BY <1>1 DEF Typed, Fit, PlTypeOK, PipelineTypeOK, Run
<1>3. UNCHANGED <<tries, stored, comments, summaries, reviews, status, decision>>
  BY DEF Suppress, OutsideUnchanged, NothingPublished, storeVars
<1> DEFINE kept == run[s].found \ Suppressed
<1>4. run[s].pc = "suppress" /\ Inline(kept) \subseteq kept
  BY DEF Suppress, In, Inline
<1>5. run'[s].pc = "inline" /\ run'[s].found = kept /\ run'[s].todo = Inline(kept)
  BY <1>2 DEF Suppress, Run
<1>6. TryOK(s)'
  BY <1>1, <1>2, <1>3, <1>4, <1>5 DEF TryOK, Early
<1>7. StoredOK(s)'
  <2>1. \A f \in kept : stored'[s][f] > 0
    BY <1>1, <1>3, <1>4 DEF StoredOK
  <2>2. run'[s].todo \subseteq run'[s].found
    BY <1>4, <1>5
  <2> HIDE DEF kept
  <2> QED
    BY <1>1, <1>3, <1>5, <2>1, <2>2 DEF StoredOK
<1>8. PublishedOK(s)'
  BY <1>2, <1>3, <1>5, RowStays DEF PublishedOK
<1> QED
  BY <1>6, <1>7, <1>8

(* Publication takes one finding after the other from the list, then the summary,  *)
(* each once.  A lost answer ends the try with an outcome other than "completed".  *)
LEMMA CommentRow ==
  ASSUME OutcomeInv, Typed', Moves, NEW s \in Scans, Known(s), PostInline(s)
  PROVE  TryOK(s)' /\ StoredOK(s)' /\ PublishedOK(s)'
<1>1. TryOK(s) /\ StoredOK(s) /\ Typed
  BY DEF OutcomeInv
<1>2. /\ run \in [Scans -> Run] /\ run[s] \in Run
      /\ comments \in [Scans -> [Findings -> Nat]] /\ tries[s] \in Nat
      /\ summaries[s] \in Nat /\ reviews[s] \in Nat
  BY <1>1, StoreAssumption DEF Typed, Fit, PlTypeOK, StoreTypeOK, PipelineTypeOK
<1>3. UNCHANGED <<tries, stored, summaries, reviews, status, decision>>
  BY DEF PostInline, OutsideUnchanged, storeVars
<1>4. run[s].pc = "inline" /\ run[s].todo \subseteq Findings
  BY <1>2 DEF PostInline, In, Run
<1>5. PICK f \in run[s].todo :
        /\ comments' = [comments EXCEPT ![s][f] = @ + 1]
        /\ run' = [run EXCEPT ![s].todo = Remaining(s, f)] \/ AnswerLost(s)
  BY DEF PostInline
<1>6. /\ comments'[s][f] = comments[s][f] + 1
      /\ \A g \in Findings \ {f} : comments'[s][g] = comments[s][g]
      /\ \A g \in Findings : comments[s][g] \in Nat
  BY <1>2, <1>4, <1>5
<1>7. \/ /\ run'[s].pc = "inline" /\ run'[s].found = run[s].found
         /\ run'[s].todo = run[s].todo \ {f}
      \/ run'[s].pc = "finish" /\ run'[s].out # "completed"
  <2>1. CASE AnswerLost(s)
    BY <1>2, <2>1 DEF AnswerLost, Conclude, Run
  <2>2. CASE run' = [run EXCEPT ![s].todo = Remaining(s, f)]
    BY <1>2, <1>4, <2>2 DEF Remaining, Run
  <2> QED
    BY <1>5, <2>1, <2>2
<1>8. TryOK(s)'
  <2>1. \A g \in Findings : comments'[s][g] <= tries[s]
    BY <1>1, <1>2, <1>4, <1>5, <1>6 DEF TryOK
  <2>2. run'[s].pc = "inline" => \A g \in run'[s].todo : comments'[s][g] < tries[s]
    BY <1>1, <1>4, <1>6, <1>7 DEF TryOK
  <2> QED
    BY <1>1, <1>3, <1>4, <1>7, <2>1, <2>2 DEF TryOK, Early
<1>9. StoredOK(s)'
  <2>1. \A g \in Findings : comments'[s][g] > 0 => stored[s][g] > 0
    BY <1>1, <1>4, <1>5, <1>6 DEF StoredOK
  <2> QED
    BY <1>1, <1>3, <1>4, <1>7, <2>1 DEF StoredOK
<1>10. PublishedOK(s)'
  BY <1>2, <1>3, <1>7, RowStays DEF PublishedOK
<1> QED
  BY <1>8, <1>9, <1>10

(* The summary, the status and the review, in this order.                       *)
LEMMA PublishRow ==
  ASSUME OutcomeInv, Typed', Moves, NEW s \in Scans, Known(s),
         PostSummary(s) \/ SetStatusCheck(s) \/ RequestChanges(s)
  PROVE  TryOK(s)' /\ StoredOK(s)' /\ PublishedOK(s)'
<1>1. TryOK(s) /\ StoredOK(s) /\ PublishedOK(s) /\ Typed
  BY DEF OutcomeInv
<1>2. /\ run \in [Scans -> Run] /\ run[s] \in Run /\ tries[s] \in Nat
      /\ summaries \in [Scans -> Nat] /\ reviews \in [Scans -> Nat]
      /\ summaries[s] \in Nat /\ reviews[s] \in Nat
  BY <1>1, StoreAssumption DEF Typed, Fit, PlTypeOK, StoreTypeOK, PipelineTypeOK
<1>3. UNCHANGED <<tries, stored, comments, status, decision>>
  BY DEF PostSummary, SetStatusCheck, RequestChanges, OutsideUnchanged, storeVars
<1>4. ASSUME NEW o, Conclude(s, o)
      PROVE  run'[s].pc = "finish" /\ run'[s].out = o /\ run'[s].verdict = run[s].verdict
  BY <1>2, <1>4 DEF Conclude, Run
<1>5. ASSUME AnswerLost(s) PROVE run'[s].pc = "finish" /\ run'[s].out # "completed"
  BY <1>4, <1>5 DEF AnswerLost
<1>6. /\ PostSummary(s) =>
            \/ run'[s].pc = "status" /\ run'[s].verdict = Verdict(run[s].found)
            \/ run'[s].pc = "finish" /\ run'[s].out # "completed"
      /\ SetStatusCheck(s) =>
            \/ run'[s].pc = "changes" /\ run'[s].verdict = run[s].verdict
            \/ /\ run'[s].pc = "finish" /\ run'[s].verdict = run[s].verdict
               /\ run[s].verdict # "failure"
            \/ run'[s].pc = "finish" /\ run'[s].out # "completed"
      /\ RequestChanges(s) =>
            /\ run'[s].pc = "finish"
            /\ run'[s].verdict = run[s].verdict \/ run'[s].out # "completed"
  <2>1. ASSUME run' = [run EXCEPT ![s] = [@ EXCEPT !.pc = "status",
                                                   !.verdict = Verdict(run[s].found)]]
        PROVE  run'[s].pc = "status" /\ run'[s].verdict = Verdict(run[s].found)
    BY <1>2, <2>1 DEF Run
  <2>2. ASSUME Enter(s, "changes")
        PROVE  run'[s].pc = "changes" /\ run'[s].verdict = run[s].verdict
    BY <1>2, <2>2 DEF Enter, Run
  <2>3. ASSUME PostSummary(s)
        PROVE  \/ run'[s].pc = "status" /\ run'[s].verdict = Verdict(run[s].found)
               \/ run'[s].pc = "finish" /\ run'[s].out # "completed"
    BY <1>5, <2>1, <2>3 DEF PostSummary
  <2>4. ASSUME SetStatusCheck(s)
        PROVE  \/ run'[s].pc = "changes" /\ run'[s].verdict = run[s].verdict
               \/ /\ run'[s].pc = "finish" /\ run'[s].verdict = run[s].verdict
                  /\ run[s].verdict # "failure"
               \/ run'[s].pc = "finish" /\ run'[s].out # "completed"
    BY <1>4, <1>5, <2>2, <2>4 DEF SetStatusCheck, ReviewNeeded
  <2>5. ASSUME RequestChanges(s)
        PROVE  /\ run'[s].pc = "finish"
               /\ run'[s].verdict = run[s].verdict \/ run'[s].out # "completed"
    BY <1>4, <1>5, <2>5 DEF RequestChanges
  <2> QED
    BY <2>3, <2>4, <2>5
<1>7. StoredOK(s)'
  BY <1>1, <1>3, <1>6 DEF StoredOK
<1>8. CASE PostSummary(s)
  <2>1. /\ run[s].pc = "inline" /\ run[s].todo = {}
        /\ summaries'[s] = summaries[s] + 1 /\ reviews'[s] = reviews[s]
    BY <1>2, <1>8 DEF PostSummary, In
  <2>2. \/ run'[s].pc = "status" /\ run'[s].verdict # "none"
        \/ run'[s].pc = "finish" /\ run'[s].out # "completed"
    BY <1>6, <1>8 DEF Verdict
  <2>3. TryOK(s)'
    BY <1>1, <1>2, <1>3, <2>1, <2>2 DEF TryOK, Early
  <2>4. PublishedOK(s)'
    BY <1>2, <1>3, <2>1, <2>2, RowStays DEF PublishedOK
  <2> QED
    BY <1>7, <2>3, <2>4
<1>9. CASE SetStatusCheck(s)
  <2>1. /\ run[s].pc = "status" /\ summaries' = summaries /\ reviews' = reviews
        /\ summaries[s] > 0 /\ run[s].verdict # "none"
    BY <1>1, <1>9 DEF SetStatusCheck, In, PublishedOK
  <2>2. HasStatus(s)'
    <3>1. PR(s)' = PR(s) /\ PR(s) \in PRs
      BY <1>1, Growth, DiffTypes
    <3>2. run[s].head \in Heads /\ gate \in [PRs -> [Heads -> Gate]]
      BY <1>1, <2>1 DEF Typed, Fit, PlTypeOK, PipelineTypeOK, HeadsOK, DiffStages
    <3>3. gate'[PR(s)][run[s].head].state = run[s].verdict
      BY <1>9, <3>1, <3>2 DEF SetStatusCheck, StatusHead
    <3> QED
      BY <2>1, <3>1, <3>2, <3>3 DEF HasStatus
  <2>3. \/ run'[s].pc = "changes" /\ run'[s].verdict = run[s].verdict
        \/ /\ run'[s].pc = "finish" /\ run'[s].verdict = run[s].verdict
           /\ run[s].verdict # "failure"
        \/ run'[s].pc = "finish" /\ run'[s].out # "completed"
    BY <1>6, <1>9
  <2>4. TryOK(s)'
    BY <1>1, <1>2, <1>3, <2>1, <2>3 DEF TryOK, Early
  <2>5. PublishedOK(s)'
    BY <1>2, <1>3, <2>1, <2>2, <2>3, RowStays DEF PublishedOK
  <2> QED
    BY <1>7, <2>4, <2>5
<1>10. CASE RequestChanges(s)
  <2>1. /\ run[s].pc = "changes" /\ summaries' = summaries /\ reviews'[s] = reviews[s] + 1
        /\ summaries[s] > 0 /\ run[s].verdict # "none" /\ HasStatus(s)'
    BY <1>1, <1>2, <1>10, StatusStays DEF RequestChanges, In, PublishedOK
  <2>2. /\ run'[s].pc = "finish"
        /\ run'[s].verdict = run[s].verdict \/ run'[s].out # "completed"
    BY <1>6, <1>10
  <2>3. TryOK(s)'
    BY <1>1, <1>2, <1>3, <2>1, <2>2 DEF TryOK, Early
  <2>4. PublishedOK(s)'
    BY <1>2, <1>3, <2>1, <2>2, RowStays DEF PublishedOK
  <2> QED
    BY <1>7, <2>3, <2>4
<1> QED
  BY <1>8, <1>9, <1>10

-----------------------------------------------------------------------------

(* A new pipeline has stored and published nothing.                             *)
LEMMA OutcomeInit == PlInit => OutcomeInv
<1> SUFFICES ASSUME PlInit, NEW s \in Scans PROVE TryOK(s) /\ StoredOK(s) /\ PublishedOK(s)
  BY TypedInit DEF OutcomeInv
<1> QED
  BY DEF PlInit, PipelineInit, NoRun, TryOK, StoredOK, PublishedOK, Early

(* Every step keeps the invariant.                                            *)
LEMMA OutcomeMoves ==
  ASSUME OutcomeInv, Typed', Moves
  PROVE  OutcomeInv'
<1>1. CASE Around
  BY <1>1, ScanKept DEF Around, OutcomeInv
<1>2. ASSUME NEW s \in Scans, Works(s)
      PROVE  OutcomeInv'
  <2>1. Known(s) /\ Typed
    BY <1>2, WorksKnown DEF OutcomeInv
  <2>2. TryOK(s)' /\ StoredOK(s)' /\ PublishedOK(s)'
    BY <1>2, <2>1, QuietRow, PickUpRow, DetectRow, SuppressRow, CommentRow, PublishRow
    DEF Works, WorkerStep, WorkerFault
  <2>3. ASSUME NEW t \in Scans, t # s PROVE TryOK(t)' /\ StoredOK(t)' /\ PublishedOK(t)'
    <3>1. ~ Known(t) => status[t] = "none"
      BY DEF Known
    <3> QED
      BY <1>2, <2>1, <2>3, <3>1, OthersKept, ScanKept
  <2> QED
    BY <2>2, <2>3 DEF OutcomeInv
<1> QED
  BY <1>1, <1>2 DEF Moves

(* Hence the invariant.                                                      *)
LEMMA OutcomeAlways == PlSpec => []OutcomeInv
<1>1. OutcomeInv /\ [PlNext]_plVars => OutcomeInv'
  BY TypedNext, OutcomeMoves DEF OutcomeInv
<1> QED
  BY <1>1, OutcomeInit, PTL DEF PlSpec

(* Retries are the only source of repetition: however a job is cut off, resumed   *)
(* and raced by others, it stores and comments a finding, and posts its summary     *)
(* and its review, at most once per start.                                      *)
THEOREM RepetitionIsBounded == PlSpec => []OncePerTry
<1>1. OutcomeInv => OncePerTry
  BY DEF OutcomeInv, TryOK, OncePerTry
<1> QED
  BY <1>1, OutcomeAlways, PTL

(* No comment of a scan is at the host without a row for its finding, whatever      *)
(* cuts the job off.                                                          *)
THEOREM NoOrphanComment == PlSpec => []CommentsAreStored
<1>1. OutcomeInv => CommentsAreStored
  BY DEF OutcomeInv, StoredOK, CommentsAreStored
<1> QED
  BY <1>1, OutcomeAlways, PTL

(* A row that says "completed" has its summary, a status and, when it blocks, the   *)
(* review at the host.                                                        *)
THEOREM CompletedMeansPublished == PlSpec => []CompletedIsPublished
<1>1. OutcomeInv => CompletedIsPublished
  BY DEF OutcomeInv, PublishedOK, HasStatus, CompletedIsPublished
<1> QED
  BY <1>1, OutcomeAlways, PTL

-----------------------------------------------------------------------------
(* The row of a job that is over, when only the code host can fail.              *)

SettleOK(s) ==
  /\ job[s] # "none" => s \in stash
  /\ job[s] \in {"none", "queued"} => tries[s] = 0
  /\ job[s] = "running" <=> run[s].pc # "off"
  /\ run[s].pc = "finish" => run[s].out \in Outcomes
  /\ run[s].pc = "ack" => status[s] \in Outcomes
  /\ job[s] = "settled" => status[s] \in Outcomes

SettleInv == Typed /\ \A s \in Scans : SettleOK(s)

(* Between load and finish a job stays at work, and goes to _finish with an outcome. *)
LEMMA StagesGoOn ==
  ASSUME SettleInv, NEW s \in Scans,
         \/ LoadEvent(s) \/ CheckStale(s) \/ MarkRunning(s) \/ Resolve(s)
         \/ FetchPullRequest(s) \/ FetchDiff(s)
         \/ RunDeterministic(s) \/ RunLLM(s) \/ Suppress(s)
         \/ PostInline(s) \/ PostSummary(s) \/ SetStatusCheck(s) \/ RequestChanges(s)
         \/ ProviderFails(s)
  PROVE  SettleOK(s)'
<1>1. /\ run \in [Scans -> Run] /\ run[s] \in Run /\ run[s].pc # "off"
      /\ job[s] = "running" /\ s \in stash
  <2>1. run \in [Scans -> Run] /\ run[s] \in Run
    BY DEF SettleInv, Typed, Fit, PlTypeOK, PipelineTypeOK
  <2>2. run[s].pc # "off"
    BY DEF LoadEvent, CheckStale, MarkRunning, Resolve, FetchPullRequest, FetchDiff,
           RunDeterministic, RunLLM, Suppress, PostInline, PostSummary, SetStatusCheck,
           RequestChanges, ProviderFails, In
  <2> QED
    BY <2>1, <2>2 DEF SettleInv, SettleOK
<1>2. UNCHANGED <<job, stash>>
  BY DEF LoadEvent, CheckStale, MarkRunning, Resolve, FetchPullRequest, FetchDiff,
         RunDeterministic, RunLLM, Suppress, PostInline, PostSummary, SetStatusCheck,
         RequestChanges, ProviderFails, OutsideUnchanged, storeVars
<1> DEFINE AtWork == run'[s].pc \in Stages \ {"finish", "ack"}
           Over == run'[s].pc = "finish" /\ run'[s].out \in Outcomes
<1>3. ASSUME NEW o \in Outcomes, Conclude(s, o) PROVE Over
  BY <1>1, <1>3 DEF Conclude, Run
<1>4. ASSUME NEW pc \in Stages \ {"finish", "ack"}, Enter(s, pc) PROVE AtWork
  <2>1. run'[s].pc = pc
    BY <1>1, <1>4 DEF Enter, Run
  <2> QED
    BY <2>1
<1>5. ASSUME AnswerLost(s) PROVE Over
  BY <1>3, <1>5 DEF AnswerLost, Outcomes
<1>6. AtWork \/ Over
  <2> HIDE DEF AtWork, Over
  <2>1. CASE LoadEvent(s) \/ CheckStale(s) \/ MarkRunning(s) \/ Resolve(s) \/ ProviderFails(s)
    BY <1>1, <1>3, <1>4, <2>1
    DEF LoadEvent, CheckStale, MarkRunning, Resolve, ProviderFails, Stages, Outcomes
  <2>2. ASSUME FetchPullRequest(s) \/ FetchDiff(s) \/ RunDeterministic(s) \/ RunLLM(s) \/ Suppress(s)
        PROVE  AtWork
    <3>1. ASSUME FetchPullRequest(s) PROVE run'[s].pc = "diff"
      BY <1>1, <3>1 DEF FetchPullRequest, Run
    <3>2. ASSUME FetchDiff(s) PROVE run'[s].pc = "detect"
      BY <1>1, <3>2 DEF FetchDiff, Run
    <3>3. ASSUME RunDeterministic(s) PROVE run'[s].pc = "llm"
      <4>1. PICK K : run' = [run EXCEPT ![s] = [run[s] EXCEPT !.pc = "llm", !.found = K]]
        BY <3>3 DEF RunDeterministic
      <4> QED
        BY <1>1, <4>1 DEF Run
    <3>4. ASSUME RunLLM(s) PROVE run'[s].pc = "suppress"
      <4>1. PICK K : run' = [run EXCEPT ![s] = [run[s] EXCEPT !.pc = "suppress", !.found = K]]
        BY <3>4 DEF RunLLM
      <4> QED
        BY <1>1, <4>1 DEF Run
    <3>5. ASSUME Suppress(s) PROVE run'[s].pc = "inline"
      BY <1>1, <3>5 DEF Suppress, Run
    <3> QED
      BY <2>2, <3>1, <3>2, <3>3, <3>4, <3>5 DEF AtWork, Stages
  <2>3. ASSUME PostInline(s), ~ AnswerLost(s) PROVE AtWork
    <3>1. PICK T : run' = [run EXCEPT ![s].todo = T]
      BY <2>3 DEF PostInline
    <3>2. run'[s].pc = "inline"
      BY <1>1, <2>3, <3>1 DEF PostInline, In, Run
    <3> QED
      BY <3>2 DEF AtWork, Stages
  <2>4. ASSUME PostSummary(s), ~ AnswerLost(s) PROVE AtWork
    <3>1. run' = [run EXCEPT ![s] = [run[s] EXCEPT !.pc = "status",
                                                   !.verdict = Verdict(run[s].found)]]
      BY <2>4 DEF PostSummary
    <3>2. run'[s].pc = "status"
      BY <1>1, <3>1 DEF Run
    <3> QED
      BY <3>2 DEF AtWork, Stages
  <2>5. CASE SetStatusCheck(s)
    BY <1>3, <1>4, <1>5, <2>5 DEF SetStatusCheck, Stages, Outcomes
  <2>6. CASE RequestChanges(s)
    BY <1>3, <1>5, <2>6 DEF RequestChanges, Outcomes
  <2> QED
    BY <1>5, <2>1, <2>2, <2>3, <2>4, <2>5, <2>6
<1> QED
  BY <1>1, <1>2, <1>6 DEF SettleOK, Stages

(* Every step of a worker that can be taken keeps the invariant.                 *)
LEMMA SettleOwn ==
  ASSUME SettleInv, Faults \subseteq {"provider", "token"}, NEW s \in Scans,
         WorkerStep(s) \/ WorkerFault(s)
  PROVE  SettleOK(s)'
<1>1. SettleOK(s) /\ run \in [Scans -> Run] /\ run[s] \in Run
  BY DEF SettleInv, Typed, Fit, PlTypeOK, PipelineTypeOK
<1>2. /\ job \in [Scans -> JobStates] /\ status \in [Scans -> Statuses]
      /\ tries \in [Scans -> 0 .. MaxTries]
  BY DEF SettleInv, Typed, Fit, PlTypeOK, StoreTypeOK
<1>3. CASE PickUp(s)
  <2>1. /\ run'[s].pc = "load" /\ job[s] = "queued" /\ job'[s] = "running" /\ stash' = stash
    BY <1>1, <1>2, <1>3 DEF PickUp, NoRun
  <2> QED
    BY <1>1, <2>1 DEF SettleOK
<1>4. CASE GiveUp(s)
  BY <1>1, <1>4, StoreAssumption DEF GiveUp, Exhausted, SettleOK
<1>5. CASE Acknowledge(s)
  <2>1. run'[s] = NoRun /\ job'[s] = "settled" /\ stash' = stash /\ status' = status
    BY <1>1, <1>2, <1>5 DEF Acknowledge, Settle
  <2> QED
    BY <1>1, <1>5, <2>1 DEF Acknowledge, In, SettleOK, NoRun
<1>6. CASE Finish(s)
  <2>1. run'[s].pc = "ack" /\ status'[s] = run[s].out /\ UNCHANGED <<stash, job>>
    BY <1>1, <1>2, <1>6 DEF Finish, Enter, Run
  <2> QED
    BY <1>1, <1>6, <2>1 DEF Finish, In, SettleOK
<1>7. ~ (WorkerStops(s) \/ JobTimesOut(s) \/ StageRaises(s) \/ PreludeRaises(s) \/ FinishRaises(s))
  BY DEF WorkerStops, JobTimesOut, StageRaises, PreludeRaises, FinishRaises
<1> QED
  BY <1>3, <1>4, <1>5, <1>6, <1>7, StagesGoOn DEF WorkerStep, WorkerFault

(* Around the jobs, a stashed event stays while its scan has a job, and a job comes    *)
(* from nowhere but the queue.                                                 *)
Enqueues ==
  \A s \in Scans :
    /\ s \in stash => s \in stash'
    /\ job[s] # "none" => job'[s] = job[s]
    /\ job[s] = "none" => job'[s] = "none" \/ (job'[s] = "queued" /\ s \in stash')

(* Every step keeps the invariant.                                            *)
LEMMA SettleMoves ==
  ASSUME SettleInv, Typed', Faults \subseteq {"provider", "token"},
         (Around /\ Enqueues) \/ \E s \in Scans : Works(s)
  PROVE  SettleInv'
<1>1. CASE Around /\ Enqueues
  <2> SUFFICES ASSUME NEW s \in Scans PROVE SettleOK(s)'
    BY DEF SettleInv
  <2>1. run' = run /\ tries' = tries /\ (job[s] # "none" => status'[s] = status[s])
    BY <1>1 DEF Around, Known
  <2> QED
    BY <1>1, <2>1 DEF Enqueues, SettleInv, SettleOK
<1>2. ASSUME NEW s \in Scans, Works(s) PROVE SettleInv'
  <2>1. ASSUME NEW t \in Scans, t # s PROVE SettleOK(t)'
    BY <1>2, <2>1, OthersKept DEF SettleInv, SettleOK
  <2>2. SettleOK(s)'
    BY <1>2, SettleOwn DEF Works
  <2> QED
    BY <2>1, <2>2 DEF SettleInv
<1> QED
  BY <1>1, <1>2

(* When the code host is all that can fail, no error path forgets the row: a job     *)
(* that is over has left one of the outcomes in it.                             *)
THEOREM NoRowForgotten == PlSpec => []SettledHasOutcome
<1>1. CASE Faults \subseteq {"provider", "token"}
  <2>1. PlInit => SettleInv
    <3>1. ASSUME PlInit, NEW s \in Scans PROVE SettleOK(s)
      BY <3>1 DEF PlInit, PipelineInit, NoRun, SettleOK
    <3> QED
      BY <3>1, TypedInit DEF SettleInv
  <2>2. SettleInv /\ [PlNext]_plVars => SettleInv'
    <3> SUFFICES ASSUME SettleInv, [PlNext]_plVars PROVE SettleInv'
      OBVIOUS
    <3>1. Typed'
      BY TypedNext DEF SettleInv
    <3>2. CASE UNCHANGED plVars \/ Surroundings
      <4>1. UNCHANGED <<run, tries, status, job, stash>>
        BY <1>1, <3>2 DEF Surroundings, MarkFalsePositive, ExpireStash, plVars, pipelineVars, storeVars
      <4> QED
        BY <3>1, <4>1 DEF SettleInv, SettleOK
    <3>3. CASE PipelineNext
      BY <1>1, <3>1, <3>3, SettleMoves DEF PipelineNext, Works
    <3> QED
      BY <3>2, <3>3 DEF PlNext
  <2>3. SettleInv => SettledHasOutcome
    BY DEF SettleInv, SettleOK, SettledHasOutcome
  <2> QED
    BY <2>1, <2>2, <2>3, PTL DEF PlSpec
<1>2. CASE ~ Faults \subseteq {"provider", "token"}
  <2>1. SettledHasOutcome
    BY <1>2 DEF SettledHasOutcome
  <2> QED
    BY <2>1, PTL
<1> QED
  BY <1>1, <1>2

=============================================================================
