# Aegis: a formal model of the review service

Aegis is a service that reviews pull requests for security problems. A code host
(GitHub, GitLab, Bitbucket) sends webhooks to it; it scans the diff, posts
comments, sets the commit status `aegis/security-gate` and asks for changes. This
directory holds TLA+ modules that model how Aegis does that, TLC configurations
that check them on small instances, and proofs that TLAPS checks for all instances.
File names with line numbers refer to the repository (`aegis/...`, `docs/...`).

## 1. The system

### Components

| Component | State it keeps | Operations | What makes it correct |
|---|---|---|---|
| Code host (outside; `providers/`) | head of each pull request, comments, statuses | emits events, answers fetches, receives publications | - |
| Webhook gateway (`api/webhooks.py`) | requests in flight | `receive`: classify, verify, claim, insert row, enqueue | only verified events cause work; what is accepted is not lost; one scan per claim |
| Idempotency and queue (`idempotency.py`, `queue.py`) | Redis: claims, stashed events, active head per pull request, Arq jobs | `claim`, `enqueue_scan`, `enqueue_dialog`, `is_stale` | a job finds its row and its event; superseding never leaves a head alone |
| Worker and runner (`worker/main.py`, `pipeline/runner.py`) | coroutine state of each job, `scans` table | `run_scan_pipeline`, `_finish` | every outcome is recorded; a completed row was published; the job ends |
| Deterministic detection (`deterministic_stage.py`, `deterministic/`) | `findings` table | detectors | what is certain, in the text that the parser shows, is found and stored |
| LLM ensemble (`llm_stage.py`, `llm/`) | health cache of the router, `llm_calls` and `findings` tables | `complete`, two detectors, judge | no tier is skipped untried; what is degraded is reported; the LLMs remove nothing |
| Risk score (`risk_score.py`) | - | `risk_breakdown`, `risk_label` | totals follow the weights; the label agrees with the gate |
| Suppression (`suppression.py`) and feedback (`dialog.py`) | `feedback` table | count false positives per fingerprint | only team feedback removes a finding |
| Publication (`render.py`, `policy.py`) | - (the host's state) | inline comments, summary, status, review | the status on the current head is a verdict on its diff |
| Dialog (`dialog.py`) | `dialog_turns`, `feedback`, `ignore_globs` | commands and answers in a thread | what an answer says was done before it, or is known to be in vain; the job ends |
| Repository registry, vault, admin API (`repos.py`, `vault.py`, `api/admin.py`, `api/auth.py`) | repositories, secrets, policies; the vault key | `login`, `create_repo`, `_add_ignore_glob`, `resolve`, `webhook_secret` | a registration is there as a whole; lookups find the newest one; only admins register; requests end |
| Diff parsing, filter, context (`diffparse.py`, `gitlab.py`, `filter.py`, `context.py`) | - (local to a scan) | parse a patch, sort files, merge windows | line numbers and positions are those of the file, but where GitLab's parser goes another way; the context has the changed lines |
| Blast radius, application, migrations, evaluation | - | select callers, start, measure | not modelled (section 5) |

The gateway and the workers are separate processes. They share Postgres and
Redis and nothing else: the gateway writes a row, an event, an active head and a
job; a worker reads them later. Each is an asyncio program, so that requests, and
jobs, interleave at every `await`, and a crash or an exception can come at any of
them. There is no transaction across two of these writes.

### What is hard

* *Interleaving.* Two requests for one pull request, or for one delivery; two jobs
  of one pull request (nothing serializes them, `queue.py:3-5` notwithstanding);
  pushes while a job runs; two detectors over one health cache; two dialog jobs over
  one list of ignore globs; two registrations and a dialog job over one policy row.
* *Ordering.* Deliveries arrive in any order, and the active head is overwritten by
  whichever is handled last.
* *Stale state.* The head is checked once, fetched once, and its diff is fetched by
  another request; the status is published minutes later.
* *Partial failure.* Claim, row, stash, active head and job are separate writes; so
  are comments, summary, status, review and the outcome of the row.
* *Crashes, retries, timeouts.* Arq starts a job again when its worker stops, and
  does not when `job_timeout` cuts it off.

`PROJECT.json` lists every hazard at its line, with the properties that cover it.

## 2. The modules

    CodeHost               pull requests, webhook events, dedupe keys
      ScanStore            scans table, stash, active heads, Arq jobs
        WebhookGateway     api/webhooks.py, idempotency.py, queue.py
          GatewayProofs      what the gateway promises of repeated and failing deliveries
        ScanPipeline       worker/main.py, runner.py, stages (with MergePolicy)
          ScanPipelineProofs types, soundness of the gate; ScanPipeline implements SecurityGate
          ScanOutcomeProofs  repetition, stored comments, outcomes
        ScanService        gateway and workers over the shared store
          ScanServiceProofs  no head is left alone; what is published is earned; what the
                             gateway and the pipeline promise holds of the whole
    MergePolicy            policy.decide and the comment gate, as functions
    SecurityGate           abstract specification of the commit status
    Dialog                 pipeline/dialog.py and its jobs
      DialogProofs           what the dialog says and does
    RepoRegistry           api/admin.py, api/auth.py, repos.py, db/session.py
      RepoRegistryProofs     registrations are whole and hold; lookups are current
    DiffParser             providers/diffparse.py, _parse_gitlab_diff
      ChangedLines         filter.py, context.py, deterministic_stage.py and its tools
        ChangedLinesProofs   line numbers, context, losses; ChangedLines implements SafetyNet
    SafetyNet              abstract specification of the deterministic stage
    RiskScore              risk_score.py (with MergePolicy)
      LLMEnsemble          llm_stage.py, llm/router.py, and the score of the result
        EnsembleProofs       fallbacks, consolidation, score; LLMEnsemble implements LLMReview
    LLMReview              abstract specification of the LLM stage
    MCGateway, MCPipeline, MCService, MCDialog, MCRegistry, MCLines, MCEnsemble
                           instances for TLC

`ScanPipeline` takes two stages as single actions; `SafetyNet` and `LLMReview` state what
these actions may do, and `ChangedLines` and `LLMEnsemble`, which model the stages in
detail, implement them.

**CodeHost.** `head[p]` is the current head of pull request `p`, a number: commits
are pushed one after the other. `event[d]` is what delivery `d` says. `Push`,
`Touch`, `Comment`, `Noise` and `Missigned` are the events `parse_event` of the
three providers tells apart, with or without a delivery id. `DedupeKey` is
`WebhookEvent.dedupe_key`.

**WebhookGateway.** A request in slot `r` walks through the awaits of `receive`:
`Receive`, `Verify`, `Claim`, then `EnqueueDialog`, or `InsertRow`, `StashEvent`,
`ActivateHead`, `EnqueueJob`, then `Respond`. `After` gives the order of the awaits.
`HandlerFails` is an exception or the end of the process after any of them: what
was done stays done. `ExpireClaim` and `ExpireKeys` are the 24 hour lives of the keys.

**ScanPipeline.** `run[s]` is the local state of the job of scan `s`: its program
counter, the heads at the two fetches, the findings, the comments still to post,
the decision, the outcome. One action per await that others can observe, named
for the stage: `LoadEvent`, `CheckStale`, `MarkRunning`, `Resolve`,
`FetchPullRequest`, `FetchDiff`, `RunDeterministic`, `RunLLM`, `Suppress`,
`PostInline`, `PostSummary`, `SetStatusCheck`, `RequestChanges`, `Finish`. Arq is
`PickUp`, `Acknowledge`, `GiveUp`, `WorkerStops` and `JobTimesOut`. Failures are
`ProviderFails` (the call did not get through), `AnswerLost` (it took effect, and
failed for the caller), `StageRaises` and `PreludeRaises` (inside and before the try
block) and `FinishRaises` (before or after the commit of `_finish`).
The host's side is `comments`, `summaries`, `gate`, `reviews`; the tables are
`stored`, `decision`, `feedback` and ScanStore's `status`.
`PlSpec` is the pipeline alone, in surroundings that push, change the active head,
lapse stashed events and give feedback at any time: an over-approximation of
what the gateway and the host do.

**SecurityGate.** What a reader of the commit status may rely on: each status
appears in one step, on a head `h`, with the verdict on the findings of the diff of
`h` or of a later head; of the findings that cannot be missed only suppressed ones
are left out. `ScanPipeline` implements it (`ImplementsSecurityGate`), the mapping
drops everything but the state of each status.

**ScanService.** The conjunction of the three, over one store. It is where the
order of deliveries meets `is_stale`.

**Dialog.** `note[n]` is comment `n` at the host, reduced to its thread, its author and the
command `parse_command` makes of it. `Deliver` starts where the gateway let its event through;
`Register` is the registration of the repository, at any time (`known`); `DPickUp` to
`DAcknowledge` are Arq again, and the other actions the awaits of `handle_dialog_event`: `Open`
(`should_answer`, `resolve`), `FetchThread`, then `RecordFeedback`, or `ReadGlobs` and
`WriteGlobs`, then `Reply`, `CountTurns`, `PersistTurn`. Reading and committing of one session are
separate actions, as other jobs come between. `vain` are the ignore commands that looked for the
repository when it was not registered. `Reply` posts a comment: `EchoOf` is what `parse_command`
reads in the fixed answers, and anything for an explanation.

**RepoRegistry.** One repository and what is registered of it: `row` is what is committed, `tx[w]`
the transaction of a `create_repo` request or of an ignore command between the awaits that flush,
load or commit, `rd[r]` a lookup of `repos.py`, whose SELECTs see what is committed at their
moment. Postgres is modelled by what READ COMMITTED does with these statements: the insert of a
key that an open transaction has inserted waits (`InsertMayGo`), so does the update of a row that
it has written (`RepoIsFree`, `PolicyIsFree`); a duplicate key fails; SQLAlchemy updates only the
columns that differ from what was loaded (`Column`). The lazy load of the policy flushes first,
the UPDATE of a slug that differs (`Renames`, `admin.py:90`) and the two secrets, so that a
request that renames the repository holds its row until it commits (`LoadPolicy`). Rows are waited
for in one order, that of the repository and then that of its policy; ignore commands wait for the
latter alone. The foreign keys of the INSERTs lock the repository's row as well, but in a mode
(`FOR KEY SHARE`) that does not conflict with an UPDATE of the slug. `Login`, `Tick` and
`Authorised` are the bearer tokens, `Restart` exchanges the vault key, which signs tokens and
encrypts secrets.

**DiffParser.** `patch` is the patch of a file as the host sends it, raw line by raw line, each
with its true numbers; `parsed[p]` is what parser `p` has made of it so far, so that every state
compares both parsers with the truth. `Header`, `Line` and `NoNewline` are the raw lines a host
can send next. `Tear` is a separator in the last one and the text after it: `_parse_gitlab_diff`
walks over `str.splitlines()` (`gitlab.py:229`), which ends a line not only at a newline but also
at `\f`, `\v`, `\x1c`-`\x1e`, `\x85`, U+2028, U+2029 and a lone `\r`, which for the file, for the
host and for unidiff are characters of the line. What follows is a line of its own to that parser,
a header, an added, a removed or a context line by what it begins with. `rests` are these texts,
and each parsed line says of which text it was made (`at`), so that a text which one parser shows
as added and the other does not can be told.

**ChangedLines.** After the last raw line the scan goes through its stages: `Filter` (the first
reason that applies, in the order of `apply_filter`), `Context` (windows around the hunks, sorted;
`MergeNext` is one turn of the loop of `_merge_windows`, `todo` what it has not gone through, and
`Merged` its end), then one action per detector, with the mapping of that detector from its own
line numbers to those of the patch (`TempLine` for Gitleaks, `WithNumber` and `FirstWithNumber`
for Semgrep and Bandit), and what it loses: noted in `degraded`, or silently (`mute`).
`StageRaises` is what `run_deterministic` does not catch. `extract_context` splits the file by
`splitlines()` too (`context.py:62`), so that `textLen`, the lines in its eyes, can be more than
`fileLen`, those of the file. `Whole` says that the parser shows the patch as it is: always with
unidiff, with GitLab if no line has a separator.

**SafetyNet.** The stage ends in one step that reports every text with a secret that the parser
shows as added (`shown`), and nothing but such text and dependencies, or raises and reports
nothing. If the parser shows the lines whole, `shown` is the changed code; of a patch whose lines
GitLab's parser tears, nothing relates the two.

**RiskScore.** `List(f)` is one turn of the loop of `risk_breakdown`: `totals` is its
dictionary and `listed` what it has gone through, so that behaviours are runs of the
loop on all lists.

**LLMEnsemble.** `call[r]` is the call of `router.complete` for role `r`: it waits for a probe
(`healthy`) or a completion of the `at`-th tier of `FallbackOrder[r]`; `Turns(r)` are the places
of that order that count. `NextTier` is the part of the loop without an await, `cache` the health
cache, shared by the detectors; `Forget` is the lapse of an entry. `ProbeRaises` is an exception
of a probe that `healthy` does not catch, as `router.py:95` is outside the `try` of `complete`: it
ends the stage, and the other detector goes on unheard. `Place` and `Spot` are the two keys of
`_fallback_consolidate`, which sorts by `cwe or ""` and drops by `cwe or title`. `Begin`,
`Collect` and `Publish` are the stage around the calls, `ConsolidateOne` one turn of the loop of
`_fallback_consolidate` (`rest` is what it has not gone through, `kept` its list), `StoringFails`
the database raising, `ScoreOne` the loop of RiskScore over what was published. `LLMReview` is
what `ScanPipeline` takes for granted of the stage (its action `RunLLM`).

### Abstractions

* Findings are members of a finite set; `Diff[p][h]` are those that can be reported on head `h`
  and `Certain[p][h]` those that the in-process detectors (`deterministic/secrets.py`, no I/O)
  always report. `PrintOf[f]` is the fingerprint, shared when two findings agree in file, line,
  CWE and rule.
* External tools, file fetches and LLMs report any subset of the rest.
* In `ScanPipeline` the risk score is any function of the set of findings (constant `Score`). That
  the score depends on the order of the list as well is seen in `RiskScore` only; the gate's
  properties about critical findings do not depend on it.
* In `ChangedLines` every changed line is one that each tool would report. Tools and mappings work
  line by line, so what becomes of one line does not depend on what is on the others; a line
  without a finding adds nothing to the properties. Files are independent of each other, so one
  file beside a manifest is enough.
* A text with a secret stands for a line that is reported: `scan_secrets` stops at the first
  pattern in a line, and a second one in the same line is behind the same finding.
* In `ScanPipeline` a finding is certain only if it is in text that the host's parser shows as
  added. A secret that GitLab's parser tears off its line is not among `Certain`;
  `CurrentGateSound` does not speak of it.
* The registry has one repository and, as policy columns, one that is compared by the gate, one by
  the merge policy, and the list that two writers share; the other columns are written and read
  like the first.
* In `Dialog` the repository is registered at some time and its list begins empty; a later
  registration, which replaces the list by its own, is in `RepoRegistry`. The code reads
  `repo.policy`, a lazily loaded relation, from an async session (`repos.py:94`, `dialog.py:203`,
  `admin.py:95`); whether SQLAlchemy loads it or raises is left open: both outcomes are in the
  models (`Raises`, `PreludeRaises`, the fault "lazy" of the registry).
* An LLM finding is one finding whoever reports it, with one confidence, and a judge that lists it
  twice counts once. Token accounting and prompts are left out.
* Comments of one scan are posted in any order (the code: in list order).
* A commit belongs to one pull request and its head never goes back to an earlier commit; pull
  request events carry a head.
* Redis keys do not lapse while a request is in flight (24 hours against milliseconds). Feedback
  is counted up to the threshold, beyond which nothing depends on it.
* The policy of a repository does not change during a run.
* `origin`, `lapsed`, `replies`, `gate[p][h].diff` and `tries` of settled jobs are history: the
  code does not read them back.

## 3. The runs

Bounds are the constants of each `.cfg`. In the instances the even heads carry a
hard-coded credential, which is critical: the second commit adds it, the third
removes it.

| Run | Bounds | Shows |
|---|---|---|
| `gateway_safety` | 2 deliveries sent twice, 2 requests at once, 3 scans, all gateway faults | `OneScanPerClaim`, `OnlyVerifiedWork`, `QueuedIsEnqueued`, `LossNeedsFailure`, `JobsAreReady` |
| `pipeline_race` | 2 scans, 3 heads, failing host and missing tokens | `CurrentGateSound`, `SettledHasOutcome`, `ImplementsSecurityGate` |
| `pipeline_retry` | 1 scan, 2 tries, 2 findings with one fingerprint, all worker faults, fairness | `CompletedIsPublished`, `CommentsAreStored`, `OncePerTry`, `JobsSettle` |
| `service_order` | 3 heads, 3 deliveries, 2 requests at once, 3 jobs | `HeadIsGated`, `SupersededHasRival` |
| `service_faults` | 2 deliveries sent twice, 2 scans, 2 tries, failing handlers and workers, bad signatures | `HeadIsGated`, `GatesAreEarned` |
| `service_live` | 2 heads, 2 deliveries, 2 jobs, fairness | `HeadsGetGated` |
| `gateway_lost` | violation | `DuplicateIsCovered` |
| `dialog_jobs` | 2 comments, 2 threads, one of which names a finding, 2 patterns and none, registration at any time, 2 tries, all faults, fairness | `FeedbackIsAskedFor`, `AnswersAreBacked`, `TurnsAreBounded`, `IgnoresAreKept`, `DialogsSettle` |
| `ensemble` | 4 tiers that fail and whose probes raise, the configured primaries, 4 findings that models report, one lapsing entry, fairness | `FallbackIsJustified`, `ConsolidationIsExact`, `ImplementsReview`, `EnsembleEnds`, `TotalsFollowWeights`, `LabelAgreesWithGate` |
| `registry` | 2 registrations with different slugs, 1 ignore command, 1 lookup, 2 vault keys, tokens of one second, all faults, fairness | `RegistrationIsWhole`, `IsolatedRegistrationHolds`, `LookupsAreCurrent`, `WorkIsAuthorised`, `RequestsEnd` |
| `changed_lines` | patches of up to 5 raw lines, one separator in the place of one of them, after which an added line, a context line or a header seems to follow, one separator outside the patch; hunks that are adjacent, near or apart, one line of context, all tool failures | `NumberingIsRight`, `ChangedLinesContract`, `LossIsExplained`, `ContextCoversHunks`, `ImplementsSafetyNet` |
| `gitlab_lines` | violation | `LineMappingIsIdentical` |

*Why these bounds.* Two requests at once are enough for every race over one key, and two sends for
a redelivery to meet its first request or to come after it. The races of the gate need a push
between the two fetches and one more push that makes the stale status current or the verdict
wrong: three heads, the middle one bad. Two jobs overwrite each other's status. Superseding needs
two scans, and a cycle among them would need three. One retry repeats everything that can be
repeated; what holds for the second try holds for later ones, as `tries` is only compared with its
bound. Two dialog jobs are enough for one to write what another has read, and for an answer to be
answered; users do not say `scan full` there (`Said`), whose job differs from that of an
explanation only in its answer. The findings of `ensemble` are three at one spot: two with one
CWE and weight, at confidences of 0.90 and 0.79, and one at exactly 0.80 that has no CWE but the title of
theirs, so that it sorts first and takes the spot from the more confident one; then one outside
the changed lines, and a certain one that makes a score of exactly 60 with the first. (Which of
two confident ones with one CWE is kept is covered by the theorem.) In the same instance the cache
entry of `cloud-generalist`, the tier that is in all three orders, may lapse. The two
registrations of `registry` differ in every column and one of them lists the pattern that the
ignore command adds, so that a lost or mixed update shows; a third writer would meet the same
locks one after the other. With `Ttl` 0 and `MaxNow` 1 a token is used in the second it expires in
and in the one after. Five raw lines hold a hunk with a marker between a removed and an added
line, and two hunks with two lines each but one; gaps of 0, 2 and 5 unchanged lines with one line
of context make windows that overlap, touch and stay apart. One separator is enough for the texts
before and after it in its line, for the lines after it in its hunk and for those of the next
hunk; a second one would only move the numbers further, of which nothing is claimed. `Named` is a
number that a false header names. `CHECK_DEADLOCK FALSE` is set as the system stops when no more
events come.

*Findings as sets.* `service_*` runs other than `service_live` have no findings:
their properties are about which scans run and where statuses appear, not about
verdicts, which `pipeline_race` covers with the full set of interleavings.

*Fairness.* `PlFairSpec` and `FairSpec` assume that a job or request that can take a
step takes one: asyncio resumes each coroutine whose await has ended, httpx and the
tools have timeouts, workers poll the queue. Nothing is assumed of the host, of
users or of faults, except in `FairSpec`, that the host sends each delivery at least
once. `JobsSettle` and `DialogsSettle` are checked with all faults, and `EnsembleEnds` with
tiers that fail at any time: every call of a client has a timeout; `HeadsGetGated` without faults, for a
fault may lose a scan for good (`gateway_lost`). `RequestsEnd` (`RFairSpec`) assumes weak fairness of each
open transaction alone: if a lock were never released, or two transactions waited for each
other, the wait would last for ever in spite of it.

*What the service properties say together.* Superseding is by inequality, not by age
(`queue.py:52`): a scan of the newest head may give up in favour of an older one. `HeadIsGated`
shows that this loses nothing: the scan that stays publishes on the head it *fetches*, and the
active head of the last request always has a scan that does not give up. The mutant that publishes
on the head of the event breaks exactly this.

*What the dialog properties say together.* The answers are fixed texts that do not depend on
whether anything was done (`dialog.py:89-99`), and some are given in vain. "Marked this finding as
a false positive" is the answer in a thread that names no finding too, of which `_record_feedback`
writes no row (`dialog.py:175-176`); "Added repository ignore pattern" is the answer for an empty
pattern (`dialog.py:190-191`) and for a repository that is not registered (`dialog.py:201-202`,
where the token comes from the environment). `AnswersAreBacked` says that a false-positive answer
has its row in exactly the threads that name a finding, in whatever try, so that no row is late
and none is missing elsewhere, and that no turn is stored without its answer; `IgnoresAreKept`
that an answered pattern is in the policy but for the two cases (`arg = None`, `vain`) and when
two jobs write the list crosswise (`crossed`). The effects of a command can be repeated
(`FeedbackIsAskedFor` allows one row per start), and turn numbers can repeat (`TurnsAreBounded` is
what remains).

*What the registry properties say together.* Two overlapping registrations may leave a policy that
neither asked for (each updates only the columns it changed), and a lookup that overlaps one may pair
an old secret with a new policy. What remains, and is checked, is that registrations come and go
as a whole, that one which nothing overlapped is found as it was asked for, and that a
lookup is never older than its own beginning.

*What the line properties say together.* What `parse_unified_diff` shows is right without
exception. GitLab's parser has two ways off, and `NumberingIsRight` says where each of them bites.
A marker in the middle of a hunk makes the next number one too high, exactly. A separator within a
line makes the text after it a line of its own: the numbers of the lines that follow in the hunk,
and the positions of all that follow in the patch, move by as many as there are such texts, or
anywhere if one begins with `@@`, and nothing is claimed of them; a text that does not begin with
`+` is no added line, and what is on it is not seen by the detectors that read the parser's lines.
The other properties state what follows. A secret in such a text is lost, without an entry in
`degraded` (`Torn` in `LossIsExplained`); a Semgrep or Bandit finding is lost on a line whose
number has moved (`torn`, or next to a marker). None is reported on a line that was not added,
unless the patch has a separator and the host is GitLab (`Whole` in `ChangedLinesContract`). All
of this needs a source file with such a character on or before a changed line.

### Disagreements with the documentation

The two violation runs quote their documents in `PROJECT.json`: `gateway_lost` (a redelivery after
a failed handler is answered "duplicate" though nothing was queued) and `gitlab_lines` (the two
parsers do not number alike). Others were seen while modelling and are not given runs of their
own: GitLab's parser tears lines at characters that end none (`gitlab.py:229`, against the same
promise of `diffparse.py:4-5`); the bot confirms what it has not done (section above); a detector
that falls back to another tier is not marked as degraded, only one that no tier answered
(`llm_stage.py:103`; `docs/06-model-strategy.md:14-17` marks the fallback); a finding of severity
info weighs 1, not 5 (`risk_score.py:35`, `docs/15-backend-specification.md:304`); an admin token
lives a day and is not refreshed (`auth.py:25`; `docs/15-backend-specification.md:1083` has 15
minutes); a retried job posts its comments again (`docs/11-deployment.md:47`: posting is
idempotent and a retry does not duplicate; `OncePerTry` is what remains); the bot answers its own
answers, as its comments are delivered like any other (`FeedbackIsAskedFor` and `TurnsAreBounded`
are what remains), and the answer to a false-positive command contains the words of that command
and records feedback of its own (`docs/04-vcs-integration.md:103`: own messages are ignored); a
lighter finding that joins a bucket can lower the risk score (`risk_score.py`;
`TotalsFollowWeights` is what remains); an OSV answer that is not JSON ends the scan (`sca.py:80`)
though "any failure degrades to "no SCA finding" rather than blocking the scan" (`sca.py:6-7`);
the answer to a registration shows the policy as it was loaded (`admin.py:117`); a job cut off by
`job_timeout` leaves its row "running" and is not run again, as the cancellation passes `except
Exception` (`runner.py:134`; `docs/11-deployment.md:50` promises at-least-once for unfinished
tasks); `is_stale` compares for inequality, its comment says "newer commit" (`queue.py:50-52`);
the limits of the dialog are not enforced (`config.py:122` has no use); a high-entropy token has
CWE-798 and weighs 35, not 20 (`secrets.py:106`, `docs/15-backend-specification.md:302`);
`dedupe_key` contains the delivery id (`schemas.py:102-107`), so that two deliveries for one
commit give two scans (`idempotency.py:3-5` says the first wins); scans of one repository are not
serialized (`queue.py:3-5`); after host failures no `neutral` status is published
(`docs/03-architecture.md:158`) and no call is retried (`docs/15-backend-specification.md:1060`);
a scan that is running is not aborted by a new commit (`docs/15-backend-specification.md:1065`);
comment events are deduplicated by delivery, not by comment id (`webhooks.py:101`).

## 4. The proofs

Each theorem holds for every value of the constants that satisfies the named
assumptions (`HostAssumption`, `StoreAssumption`, `PolicyAssumption`,
`PipelineAssumption`, `GatewayAssumption`, `DialogAssumption`, `ParserAssumption`,
`LinesAssumption`, `RiskAssumption`, `EnsembleAssumption`, `RegistryAssumption`), which say what kind of
value each constant is, and which TLC evaluates on every run.

| Module | Theorem | Property |
|---|---|---|
| `ScanPipelineProofs` | `TypeCorrect`, `GateSound`, `GateRefinement` | `PlTypeOK`, `CurrentGateSound`, `ImplementsSecurityGate` |
| `ScanOutcomeProofs` | `RepetitionIsBounded`, `NoOrphanComment`, `CompletedMeansPublished`, `NoRowForgotten` | `OncePerTry`, `CommentsAreStored`, `CompletedIsPublished`, `SettledHasOutcome` |
| `GatewayProofs` | `GatewayTyped`, `Idempotent`, `VerifiedWorkOnly`, `QueuedMeansEnqueued`, `OnlyFailuresLose`, `NoJobTooEarly` | `GwTypeOK`, `OneScanPerClaim`, `OnlyVerifiedWork`, `QueuedIsEnqueued`, `LossNeedsFailure`, `JobsAreReady` |
| `ScanServiceProofs` | `HeadNotLeftAlone`, `NoVainSuperseding`, `StatusesAreEarned` | `HeadIsGated`, `SupersededHasRival`, `GatesAreEarned` |
| | `ServiceTyped`, `ServiceGateSound`, `ServiceImplementsGate` | `PlTypeOK`, `CurrentGateSound`, `ImplementsSecurityGate` |
| | `ServiceRepetitionIsBounded`, `ServiceNoOrphanComment`, `ServiceCompletedMeansPublished`, `ServiceForgetsNoRow` | `OncePerTry`, `CommentsAreStored`, `CompletedIsPublished`, `SettledHasOutcome` |
| | `ServiceIdempotent`, `ServiceVerifiedWorkOnly`, `ServiceQueuedMeansEnqueued`, `ServiceOnlyFailuresLose`, `ServiceNoJobTooEarly` | `OneScanPerClaim`, `OnlyVerifiedWork`, `QueuedIsEnqueued`, `LossNeedsFailure`, `JobsAreReady` |
| `RepoRegistryProofs` | `RegistryTyped`, `RegistrationWhole`, `RegistrationHolds`, `LookupsCurrent`, `WorkAuthorised` | `RTypeOK`, `RegistrationIsWhole`, `IsolatedRegistrationHolds`, `LookupsAreCurrent`, `WorkIsAuthorised` |
| `DialogProofs` | `DialogTyped`, `OnlyAskedFor`, `AnswersBacked`, `NumbersNeverRunAhead`, `NoIgnoreLost` | `DTypeOK`, `FeedbackIsAskedFor`, `AnswersAreBacked`, `TurnsAreBounded`, `IgnoresAreKept` |
| `ChangedLinesProofs` | `NumbersAreRight`, `LinesTyped`, `NetRefinement`, `ContractHolds`, `ContextIsWhole`, `LossExplained` | `NumberingIsRight`, `CTypeOK`, `ImplementsSafetyNet`, `ChangedLinesContract`, `ContextCoversHunks`, `LossIsExplained` |
| `EnsembleProofs` | `FallbackJustified`, `FallbackIsExact`, `TotalsAreRight`, `LabelAgrees`, `ReviewRefinement` | `FallbackIsJustified`, `ConsolidationIsExact`, `TotalsFollowWeights`, `LabelAgreesWithGate`, `ImplementsReview` |

*The gate.* That a status is sound when it appears is not inductive: the job carries the
findings through many steps, while others push, give feedback and publish.
`GateInv` adds what each job knows at each program counter (`JobOK`: the head it fetched is at most
the head of its diff, which is at most the current one; what it found contains all that is certain
on that diff, less what feedback suppresses) and what is known of each status once it is out
(`GateOK`). The status of the current head is then one over the diff of that very head.
`GateRefinement` maps each publication to one step of `SecurityGate`, everything else to a stutter.

*Outcomes.* `OutcomeInv` joins three parts for each job: what the try under way has yet to do
was done less often than the job was started (`TryOK`), what it is about to comment is stored
(`StoredOK`), and what it must publish before the row says completed is published (`PublishedOK`).
`NoRowForgotten` has its own
invariant (`SettleInv`) and holds for `Faults` within `{"provider", "token"}`: with a timeout or a
failing database there are counterexamples, as section 3 says.

*The gateway.* `GwInv` says at each await of a request what it has found out and done
(`ReqOK`), where each row comes from (`ScanOK`), what a reply means (`DeliveryOK`), and that
the work a claim stands for was done, is under way or failed (`ClaimOK`).

*The composed service.* The lemmas about jobs ask little of the rest of the system: each holds for any
`Moves`, a step of some job or a step of its surroundings (`Around`: heads and feedback grow, a scan that
is known keeps its row and event). `ScanServiceProofs` shows that the host, the handlers, the lapsing keys
and the feedback of the whole service are such surroundings (`ServiceAround`), so that `GateInv`,
`OutcomeInv`, `SettleInv` and the refinement of `SecurityGate`, proved for the pipeline in an
environment that is as free as possible, hold of the service too; for `SettleInv` a handler must also
enqueue a job only for a scan whose event is stashed (`Enqueues`). The promises of the gateway
carry over as `SvcInv` contains `GwInv`.

Superseding compares heads for inequality, so that no order on the scans says which one stays.
`SvcInv` adds to `GwInv` that each pull request with activated scans has a *leader* (`Led`): the
scan whose request last set the active head. Nothing makes it give up, as the active head is its
own or has lapsed (`Leads`); and once a scan for the current head was activated (`Seen`), the
leader fetches, or has fetched, that head and publishes there. A push breaks nothing, for no scan
has seen the new head. A request that sets the active head makes its scan the leader, which has
not started, as its job is still to be enqueued (`OwnOK`). The one way to lose the lead is a
handler that fails between the two awaits: the exception `Harmed`, of which `gateway_lost` shows a
case. Rivals (`RunOK`) and the origin of each status (`GatesAreEarned`) are inductive next to it.

*The dialog.* The answers of a job are backed as its program counter passed the write before the
reply, which `CommandStage` leads to where there is something to write, or the command is in
`vain` (`DJobOK`); the numbers of turns are bounded by the rows at the time of counting, which
only grow (`TurnsAreBounded` is inductive next to it).

*The registry.* `RInv` follows the open transactions. `WriterOK` says what each of them holds: one
that inserts the repository is the only one (`OneInserter`, from the unique constraint) and runs
while there is none, so every other one read a policy that was there. A request that renames runs
as one that found the repository, and its slug is the one that it read. `AloneOK` says that the
rows are still what a transaction read as long as nobody overlapped it, so that what it writes is
what it was asked for. `RowsOK` speaks of what is committed: a secret belongs to a transaction
that is over and came in under a token that was good. What a lookup has read is still there, or
something newer (`ReaderOK`).

*Lines.* The parsers are followed raw line by raw line: the counters of each parser differ from
the truth by what `PInv` says: not at all with unidiff, by one after a marker with GitLab, and by
nothing that is known after a separator until the next header. `ChangedLinesProofs` carries this
through the stages with the contract of what was found so far (`CInv`). For the context it needs
more of the parsers: every added line lies in a hunk (`HunksOK`). The loop that merges windows
keeps those it made within the file and apart, covers the hunks it has dealt with, and meets the
rest in the order of their starts (`MInv`). A tool that did not find all there was has been noted
as degraded, or had said nothing (`ToolsRan`), which is what `LossExplained` rests on.

*The ensemble.* An entry of the health cache that says "down" belongs to a tier somebody tried
(`CacheOK`), whoever wrote it. The loop of the rule keeps the most confident candidate of each
spot because it goes through them in the order of the sort (`LoopOK`), by place and then by
confidence. `TotalsKept` adds one finding to one bucket.

Out of the prover's reach is liveness: `JobsSettle`, `HeadsGetGated`, `DialogsSettle`,
`EnsembleEnds` and `RequestsEnd` are checked by TLC only.

## 5. What is only checked, and what is not modelled

Only model-checked: the liveness properties just named. Every other property of the passing runs is a theorem.

Not modelled:

* `pipeline/blast_radius.py`: it builds the text of a diagram; no state and no decision depends on it.
* The wording of comments, prompts and their budgets, token accounting (`tokenest.py`), the calls that
  are stored in `llm_calls`.
* `obs/`, `api/app.py`: metrics, logging, probes, wiring. `queue_depth` is incremented in the
  API process and decremented in a worker (`runner.py:62`), so the gauge of either drifts; nothing reads it.
* `list_repos` and the statistics of `admin.py`: they only read.
* `extract_python_call_context` (`context.py`): a search in a syntax tree.
* Migrations, `eval/`, container files.
* HMAC and encryption: a signature is good or bad, a secret is readable with its key.
* Request and payload formats of the three hosts. Whether GitHub counts the first `@@` line in
  a diff position, and whether GitLab refuses a comment past the end of a file, is the host's;
  a refused call is `ProviderFails`.
* Files that a pull request empties or deletes, which have no changed line.
* Two pull requests with one head commit: their statuses share a place at the host
  (`github.py:181`), and no code tells them apart.

Claims live 24 hours, so a delivery that comes again after that is scanned again
(`ExpireClaim`); that is why `OneScanPerClaim` speaks of live claims.

## 6. Plan

Done: the scan path from the webhook to the status with its abstract gate, the dialog,
the registry, the deterministic stage, the LLM stage and the score, each with its
runs, and proofs of every safety property and every refinement that the passing runs check, those
of the scan path for the composed service too.

Left: two pull requests with a shared head commit, whose statuses overwrite each other at the host.
