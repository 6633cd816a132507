---------------------------- MODULE ScanPipeline ----------------------------
(***************************************************************************)
(* The workers: Arq's handling of run_scan jobs (worker/main.py), the scan    *)
(* pipeline (pipeline/runner.py) and the two stages that publish to the code *)
(* host (pipeline/render.py, pipeline/policy.py).                             *)
(*                                                                         *)
(* A job runs as its coroutine does, one action per await that others can    *)
(* observe.  Any number of jobs run side by side (max_jobs of every worker); *)
(* a job can be cut off after any await by the end of its worker or by        *)
(* job_timeout, and each call it makes can fail.                              *)
(***************************************************************************)
EXTENDS ScanStore, MergePolicy

CONSTANTS
  Diff,     \* Diff[p][h]: the findings the detectors can report on head h of p
  Certain,  \* Certain[p][h]: those the in-process detectors always report, being in
            \* text that the host's parser shows as added (SafetyNet)
  Prints,   \* fingerprints
  PrintOf,    \* PrintOf[f]: Finding.fingerprint, which several findings can share
  Threshold \* FP_SUPPRESS_THRESHOLD

ASSUME PipelineAssumption ==
  /\ Threshold \in Nat \ {0}
  /\ PrintOf \in [Findings -> Prints]
  /\ Diff \in [PRs -> [Heads -> SUBSET Findings]]
  /\ Certain \in [PRs -> [Heads -> SUBSET Findings]]
  /\ \A p \in PRs, h \in Heads : Certain[p][h] \subseteq Diff[p][h]

VARIABLES
  run,        \* run[s]: the local state of the job of s
  stored,     \* stored[s][f]: rows of the findings table
  comments,   \* comments[s][f]: inline comments the host received
  summaries,  \* summaries[s]: summary comments the host received
  gate,       \* gate[p][h]: the commit status aegis/security-gate
  reviews,    \* reviews[s]: request_changes calls the host received
  decision,   \* decision[s]: the decision column of the row
  feedback    \* feedback[k]: false_positive rows for fingerprint k

pipelineVars == <<run, stored, comments, summaries, gate, reviews, decision, feedback>>

plVars == <<hostVars, storeVars, pipelineVars>>

Stages ==
  { "load", "stale", "start", "resolve", "pr", "diff", "detect", "llm",
    "suppress", "inline", "status", "changes", "finish", "ack" }

(* head and diff: the heads of the pull request when fetch_pull_request and   *)
(* fetch_diff were answered; found: state.findings; todo: those still to be   *)
(* commented; verdict: result.decision; out: the status _finish will write.   *)
Run == [ pc      : Stages \cup {"off"},
         head    : 0 .. MaxHead,
         diff    : 0 .. MaxHead,
         found   : SUBSET Findings,
         todo    : SUBSET Findings,
         verdict : Verdicts \cup {"none"},
         out     : Outcomes \cup {"none"} ]

NoRun == [ pc |-> "off", head |-> 0, diff |-> 0, found |-> {}, todo |-> {},
           verdict |-> "none", out |-> "none" ]

NoGate == [state |-> "none", diff |-> 0]

Gate == [state : Verdicts \cup {"none"}, diff : 0 .. MaxHead]

PipelineTypeOK ==
  /\ run \in [Scans -> Run]
  /\ stored \in [Scans -> [Findings -> Nat]]
  /\ comments \in [Scans -> [Findings -> Nat]]
  /\ summaries \in [Scans -> Nat]
  /\ gate \in [PRs -> [Heads -> Gate]]
  /\ reviews \in [Scans -> Nat]
  /\ decision \in [Scans -> Verdicts \cup {"none"}]
  /\ feedback \in [Prints -> 0 .. Threshold]

PipelineInit ==
  /\ run = [s \in Scans |-> NoRun]
  /\ stored = [s \in Scans |-> [f \in Findings |-> 0]]
  /\ comments = [s \in Scans |-> [f \in Findings |-> 0]]
  /\ summaries = [s \in Scans |-> 0]
  /\ gate = [p \in PRs |-> [h \in Heads |-> NoGate]]
  /\ reviews = [s \in Scans |-> 0]
  /\ decision = [s \in Scans |-> "none"]
  /\ feedback = [k \in Prints |-> 0]

-----------------------------------------------------------------------------

PR(s) == Ev(s).pr

In(s, pc) == run[s].pc = pc

Enter(s, pc) == run' = [run EXCEPT ![s].pc = pc]

(* The coroutine goes to _finish with outcome o.                             *)
Conclude(s, o) == run' = [run EXCEPT ![s] = [@ EXCEPT !.pc = "finish", !.out = o]]

(* The job is over for Arq, with or without an exception.                    *)
Settle(s) ==
  /\ job' = [job EXCEPT ![s] = "settled"]
  /\ run' = [run EXCEPT ![s] = NoRun]

(* A request took effect at the host, but its answer did not come back (httpx *)
(* raises, the runner's catch-all takes over) or was a 5xx (ProviderError).   *)
AnswerLost(s) ==
  "provider" \in Faults /\ \E o \in {"provider_error", "error"} : Conclude(s, o)

OutsideUnchanged == UNCHANGED <<hostVars, storeVars, feedback>>

NothingPublished == UNCHANGED <<comments, summaries, gate, reviews>>

(* _suppressed_fingerprints: fingerprints marked often enough, by anyone and *)
(* in any repository.                                                        *)
Suppressed == {f \in Findings : feedback[PrintOf[f]] >= Threshold}

-----------------------------------------------------------------------------
(* Somebody marks a false positive in the thread of a finding with            *)
(* fingerprint k, in whatever repository (_record_feedback).                 *)
(* Counting stops at the threshold, beyond which nothing depends on it.      *)
MarkFalsePositive(k) ==
  /\ feedback[k] < Threshold
  /\ feedback' = [feedback EXCEPT ![k] = @ + 1]
  /\ UNCHANGED <<hostVars, storeVars>>
  /\ UNCHANGED <<run, stored, comments, summaries, gate, reviews, decision>>

-----------------------------------------------------------------------------
(* Arq: a job is started at most MaxTries times, then it is given up.        *)

(* Mutations of the two definitions below.                                   *)
OneTryTooMany(s) == tries[s] <= MaxTries
NeverExhausted(s) == tries[s] > MaxTries

TriesLeft(s) == tries[s] < MaxTries
Exhausted(s) == tries[s] = MaxTries

PickUp(s) ==
  /\ job[s] = "queued"
  /\ TriesLeft(s)
  /\ job' = [job EXCEPT ![s] = "running"]
  /\ tries' = [tries EXCEPT ![s] = @ + 1]
  /\ run' = [run EXCEPT ![s] = [NoRun EXCEPT !.pc = "load"]]
  /\ UNCHANGED <<hostVars, feedback, status, origin, stash, active>>
  /\ UNCHANGED <<stored, decision>> /\ NothingPublished

GiveUp(s) ==
  /\ job[s] = "queued"
  /\ Exhausted(s)
  /\ Settle(s)
  /\ UNCHANGED <<hostVars, feedback, status, origin, stash, active, tries>>
  /\ UNCHANGED <<stored, decision>> /\ NothingPublished

(* The worker dies or is shut down: Arq runs the job again.                  *)
WorkerStops(s) ==
  /\ "worker" \in Faults
  /\ job[s] = "running"
  /\ job' = [job EXCEPT ![s] = "queued"]
  /\ run' = [run EXCEPT ![s] = NoRun]
  /\ UNCHANGED <<hostVars, feedback, status, origin, stash, active, tries>>
  /\ UNCHANGED <<stored, decision>> /\ NothingPublished

(* job_timeout: the coroutine is cancelled and the job counts as failed.     *)
JobTimesOut(s) ==
  /\ "timeout" \in Faults
  /\ job[s] = "running"
  /\ ~ In(s, "ack")
  /\ Settle(s)
  /\ UNCHANGED <<hostVars, feedback, status, origin, stash, active, tries>>
  /\ UNCHANGED <<stored, decision>> /\ NothingPublished

Acknowledge(s) ==
  /\ In(s, "ack")
  /\ Settle(s)
  /\ UNCHANGED <<hostVars, feedback, status, origin, stash, active, tries>>
  /\ UNCHANGED <<stored, decision>> /\ NothingPublished

-----------------------------------------------------------------------------
(* run_scan_pipeline.                                                        *)

(* _load_event: without its event the scan is dropped, row untouched.        *)
LoadEvent(s) ==
  /\ In(s, "load")
  /\ Enter(s, IF s \in stash THEN "stale" ELSE "ack")
  /\ UNCHANGED <<stored, decision>> /\ OutsideUnchanged /\ NothingPublished

(* is_stale: an active head is known and it is not the head of the event.    *)
IsStale(s) == active[PR(s)] # 0 /\ active[PR(s)] # Ev(s).head

CheckStale(s) ==
  /\ In(s, "stale")
  /\ \/ IsStale(s) /\ Conclude(s, "superseded")
     \/ ~ IsStale(s) /\ Enter(s, "start")
  /\ UNCHANGED <<stored, decision>> /\ OutsideUnchanged /\ NothingPublished

MarkRunning(s) ==
  /\ In(s, "start")
  /\ status' = [status EXCEPT ![s] = "running"]
  /\ Enter(s, "resolve")
  /\ UNCHANGED <<hostVars, feedback, origin, stash, active, job, tries>>
  /\ UNCHANGED <<stored, decision>> /\ NothingPublished

(* Mutation of Resolve: without a token it returns and writes no outcome.    *)
ResolveSilently(s) ==
  /\ In(s, "resolve")
  /\ Enter(s, "pr") \/ ("token" \in Faults /\ Enter(s, "ack"))
  /\ UNCHANGED <<stored, decision>> /\ OutsideUnchanged /\ NothingPublished

(* resolve: the repository may be registered, with a token, or not.          *)
Resolve(s) ==
  /\ In(s, "resolve")
  /\ Enter(s, "pr") \/ ("token" \in Faults /\ Conclude(s, "no_token"))
  /\ UNCHANGED <<stored, decision>> /\ OutsideUnchanged /\ NothingPublished

(* Mutation of HeadAtHost: the head of the event is taken for the current one. *)
HeadOfEvent(s) == Ev(s).head

HeadAtHost(s) == head[PR(s)]

(* Two requests: the pull request, with its current head, then its diff.  The *)
(* host answers for the pull requests it has.                                *)
FetchPullRequest(s) ==
  /\ In(s, "pr")
  /\ HeadAtHost(s) # 0
  /\ run' = [run EXCEPT ![s] = [@ EXCEPT !.pc = "diff", !.head = HeadAtHost(s)]]
  /\ UNCHANGED <<stored, decision>> /\ OutsideUnchanged /\ NothingPublished

FetchDiff(s) ==
  /\ In(s, "diff")
  /\ run' = [run EXCEPT ![s] = [@ EXCEPT !.pc = "detect", !.diff = head[PR(s)]]]
  /\ UNCHANGED <<stored, decision>> /\ OutsideUnchanged /\ NothingPublished

DiffFindings(s) == Diff[PR(s)][run[s].diff]
CertainFindings(s) == Certain[PR(s)][run[s].diff]

(* Mutation of Persist: the row of the scan is not found.                    *)
PersistNothing(s, K) == UNCHANGED stored

Persist(s, K) ==
  stored' = [stored EXCEPT ![s] =
               [f \in Findings |-> @[f] + IF f \in K THEN 1 ELSE 0]]

(* Filter, context and the deterministic detectors; external tools and file  *)
(* fetches may be missing, so only the certain findings are sure.            *)
RunDeterministic(s) ==
  /\ In(s, "detect")
  /\ \E K \in SUBSET DiffFindings(s) :
       /\ CertainFindings(s) \subseteq K
       /\ run' = [run EXCEPT ![s] = [@ EXCEPT !.pc = "llm", !.found = K]]
       /\ Persist(s, K)
  /\ UNCHANGED decision /\ OutsideUnchanged /\ NothingPublished

(* The ensemble can add findings and never removes one.                      *)
RunLLM(s) ==
  /\ In(s, "llm")
  /\ \E K \in SUBSET (DiffFindings(s) \ run[s].found) :
       /\ run' = [run EXCEPT ![s] = [@ EXCEPT !.pc = "suppress", !.found = run[s].found \cup K]]
       /\ Persist(s, K)
  /\ UNCHANGED decision /\ OutsideUnchanged /\ NothingPublished

(* Suppression by team feedback; then score, blast radius and the choice of  *)
(* the findings to comment, which touch nothing outside the job.             *)
Suppress(s) ==
  /\ In(s, "suppress")
  /\ LET kept == run[s].found \ Suppressed
     IN  run' = [run EXCEPT ![s] = [@ EXCEPT !.pc = "inline", !.found = kept,
                                          !.todo = Inline(kept)]]
  /\ UNCHANGED <<stored, decision>> /\ OutsideUnchanged /\ NothingPublished

(* Mutation of Remaining: the posted finding stays in the list.              *)
RemainingAll(s, f) == run[s].todo

Remaining(s, f) == run[s].todo \ {f}

PostInline(s) ==
  /\ In(s, "inline")
  /\ \E f \in run[s].todo :
       /\ comments' = [comments EXCEPT ![s][f] = @ + 1]
       /\ \/ run' = [run EXCEPT ![s].todo = Remaining(s, f)]
          \/ AnswerLost(s)
  /\ UNCHANGED <<stored, decision, summaries, gate, reviews>> /\ OutsideUnchanged

(* The summary; when it is posted the policy stage decides.                  *)
PostSummary(s) ==
  /\ In(s, "inline")
  /\ run[s].todo = {}
  /\ summaries' = [summaries EXCEPT ![s] = @ + 1]
  /\ \/ run' = [run EXCEPT ![s] = [@ EXCEPT !.pc = "status", !.verdict = Verdict(run[s].found)]]
     \/ AnswerLost(s)
  /\ UNCHANGED <<stored, decision, comments, gate, reviews>> /\ OutsideUnchanged

(* Mutations: the status goes to the head of the moment; no review is asked. *)
HeadOfTheMoment(s) == head[PR(s)]
NoReview(s) == FALSE

(* The commit of the status is the one fetch_pull_request returned.          *)
StatusHead(s) == run[s].head

(* decision.block                                                            *)
ReviewNeeded(s) == run[s].verdict = "failure"

SetStatusCheck(s) ==
  /\ In(s, "status")
  /\ gate' = [gate EXCEPT ![PR(s)][StatusHead(s)] =
                [state |-> run[s].verdict, diff |-> run[s].diff]]
  /\ \/ ReviewNeeded(s) /\ Enter(s, "changes")
     \/ ~ ReviewNeeded(s) /\ Conclude(s, "completed")
     \/ AnswerLost(s)
  /\ UNCHANGED <<stored, decision, comments, summaries, reviews>> /\ OutsideUnchanged

RequestChanges(s) ==
  /\ In(s, "changes")
  /\ reviews' = [reviews EXCEPT ![s] = @ + 1]
  /\ Conclude(s, "completed") \/ AnswerLost(s)
  /\ UNCHANGED <<stored, decision, comments, summaries, gate>> /\ OutsideUnchanged

(* _finish writes the row.                                                   *)
Finish(s) ==
  /\ In(s, "finish")
  /\ status' = [status EXCEPT ![s] = run[s].out]
  /\ decision' = [decision EXCEPT ![s] = run[s].verdict]
  /\ Enter(s, "ack")
  /\ UNCHANGED <<hostVars, feedback, origin, stash, active, job, tries>>
  /\ UNCHANGED stored /\ NothingPublished

-----------------------------------------------------------------------------
(* Failures of the calls the pipeline makes.                                 *)

(* A request to the host is refused or does not get through: ProviderError,  *)
(* or the exception of httpx.  There is no retry.                            *)
ProviderFails(s) ==
  /\ "provider" \in Faults
  /\ run[s].pc \in {"pr", "diff", "inline", "status", "changes"}
  /\ \E o \in {"provider_error", "error"} : Conclude(s, o)
  /\ UNCHANGED <<stored, decision>> /\ OutsideUnchanged /\ NothingPublished

(* Inside the try block every other exception becomes outcome "error".       *)
StageRaises(s) ==
  /\ "internal" \in Faults
  /\ run[s].pc \in {"resolve", "detect", "llm", "suppress"}
  /\ Conclude(s, "error")
  /\ UNCHANGED <<stored, decision>> /\ OutsideUnchanged /\ NothingPublished

(* Before the try block an exception ends the job; the row stays as it is.   *)
PreludeRaises(s) ==
  /\ "internal" \in Faults
  /\ run[s].pc \in {"load", "stale", "start"}
  /\ Settle(s)
  /\ UNCHANGED <<hostVars, feedback, status, origin, stash, active, tries>>
  /\ UNCHANGED <<stored, decision>> /\ NothingPublished

(* _finish raises, before or after its commit.  Inside the try block the     *)
(* handler finishes again, with "error"; elsewhere the job ends.             *)
FinishRaises(s) ==
  /\ "internal" \in Faults
  /\ In(s, "finish")
  /\ \/ UNCHANGED <<status, decision>>
     \/ /\ status' = [status EXCEPT ![s] = run[s].out]
        /\ decision' = [decision EXCEPT ![s] = run[s].verdict]
  /\ \/ /\ run[s].out \in {"completed", "no_token"}
        /\ Conclude(s, "error")
        /\ UNCHANGED job
     \/ /\ run[s].out \notin {"completed", "no_token"}
        /\ Settle(s)
  /\ UNCHANGED <<hostVars, feedback, origin, stash, active, tries>>
  /\ UNCHANGED stored /\ NothingPublished

-----------------------------------------------------------------------------

WorkerStep(s) ==
  \/ PickUp(s) \/ GiveUp(s) \/ Acknowledge(s)
  \/ LoadEvent(s) \/ CheckStale(s) \/ MarkRunning(s) \/ Resolve(s)
  \/ FetchPullRequest(s) \/ FetchDiff(s)
  \/ RunDeterministic(s) \/ RunLLM(s) \/ Suppress(s)
  \/ PostInline(s) \/ PostSummary(s) \/ SetStatusCheck(s) \/ RequestChanges(s)
  \/ Finish(s)

WorkerFault(s) ==
  \/ WorkerStops(s) \/ JobTimesOut(s) \/ ProviderFails(s)
  \/ StageRaises(s) \/ PreludeRaises(s) \/ FinishRaises(s)

PipelineNext == \E s \in Scans : WorkerStep(s) \/ WorkerFault(s)

-----------------------------------------------------------------------------
(* The pipeline alone: every scan is queued at the start, for any head its    *)
(* pull request has had, and the rest of the system may push commits, change *)
(* the active head, let a stashed event lapse and mark findings at any time.  *)

PlInit ==
  /\ head \in [PRs -> Heads]
  /\ \E of \in [Deliveries -> PRs \X Heads] :
       /\ \A d \in Deliveries : of[d][2] <= head[of[d][1]]
       /\ event = [d \in Deliveries |->
                     [kind |-> "pr", pr |-> of[d][1], head |-> of[d][2],
                      hdr |-> d, signed |-> TRUE]]
  /\ status = [s \in Scans |-> "queued"]
  /\ origin \in [Scans -> Deliveries]
  /\ stash = Scans
  /\ active \in [PRs -> 0 .. MaxHead]
  /\ \A p \in PRs : active[p] <= head[p]
  /\ job = [s \in Scans |-> "queued"]
  /\ tries = [s \in Scans |-> 0]
  /\ PipelineInit

Surroundings ==
  \/ /\ \/ \E p \in PRs : Advance(p) /\ UNCHANGED <<active, stash>>
        \/ \E p \in PRs : \E h \in 0 .. head[p] :
              active' = [active EXCEPT ![p] = h] /\ UNCHANGED <<head, stash>>
        \/ \E s \in Scans : ExpireStash(s) /\ UNCHANGED <<head, active>>
     /\ UNCHANGED <<event, status, origin, job, tries, pipelineVars>>
  \/ \E k \in Prints : MarkFalsePositive(k)

PlNext == PipelineNext \/ Surroundings

PlSpec == PlInit /\ [][PlNext]_plVars

(* Workers poll the queue, and every await of a job ends in an answer, an     *)
(* exception or a cancellation.                                               *)
PlFairSpec == PlSpec /\ \A s \in Scans : WF_plVars(WorkerStep(s))

-----------------------------------------------------------------------------

PlTypeOK == HostTypeOK /\ StoreTypeOK /\ PipelineTypeOK

(* A critical finding that the in-process detectors always report on head h. *)
MustBlock(p, h) == {f \in Certain[p][h] : Severity[f] = "critical"}

(* The status on the current head of a pull request is never "success" while  *)
(* its diff holds a critical finding that detection cannot miss and that no   *)
(* team feedback suppresses, however many scans, retries and pushes raced:     *)
(* head and diff are fetched apart and may differ, but then the head of the   *)
(* status is no longer the current one.                                       *)
CurrentGateSound ==
  MergeBlock # "off" =>
    \A p \in PRs :
      (head[p] > 0 /\ gate[p][head[p]].state = "success") =>
        MustBlock(p, head[p]) \subseteq Suppressed

(* A row that says "completed" has been published, whatever failed meanwhile:   *)
(* the summary, a status on some head, and the review of a blocking decision.  *)
CompletedIsPublished ==
  \A s \in Scans :
    status[s] = "completed" =>
      /\ summaries[s] > 0
      /\ decision[s] # "none"
      /\ \E h \in Heads : gate[PR(s)][h].state # "none"
      /\ decision[s] = "failure" => reviews[s] > 0

(* Whatever the host shows as a comment of a scan is in the findings table:   *)
(* a job cut off at any point leaves no comment without its row.              *)
CommentsAreStored ==
  \A s \in Scans, f \in Findings : comments[s][f] > 0 => stored[s][f] > 0

(* Retries are the only source of repetition: per start of the job, at most   *)
(* one comment on a finding, one row, one summary and one review.             *)
OncePerTry ==
  \A s \in Scans :
    /\ \A f \in Findings : comments[s][f] <= tries[s] /\ stored[s][f] <= tries[s]
    /\ summaries[s] <= tries[s]
    /\ reviews[s] <= tries[s]

(* When only the code host can fail, no error path forgets the row: a job     *)
(* that is over has left one of the outcomes in it.                           *)
SettledHasOutcome ==
  Faults \subseteq {"provider", "token"} =>
    \A s \in Scans : job[s] = "settled" => status[s] \in Outcomes

(* The pipeline implements the abstract gate: the steps of all its jobs,       *)
(* their retries and failures, show at the host as single sound publications. *)
SG == INSTANCE SecurityGate
        WITH gate <- [p \in PRs |-> [h \in Heads |-> gate[p][h].state]]

ImplementsSecurityGate == SG!Spec

(* Every job that is queued is over some day, whatever fails.                 *)
JobsSettle == \A s \in Scans : (job[s] = "queued") ~> (job[s] = "settled")

=============================================================================
