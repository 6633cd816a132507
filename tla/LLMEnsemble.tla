----------------------------- MODULE LLMEnsemble -----------------------------
(***************************************************************************)
(* The LLM ensemble of one scan (pipeline/llm_stage.py) over one router       *)
(* (llm/router.py), and the risk score of what it leaves: two detectors run   *)
(* concurrently and share the router's health cache, then a judge, or a       *)
(* fixed rule when no judge answers, consolidates what they reported; like     *)
(* the loop of the score, the loop of that rule is one candidate per step.     *)
(* Suppression, which runs before the score and only removes findings, is in   *)
(* ScanPipeline.                                                              *)
(***************************************************************************)
EXTENDS RiskScore, SequencesExt

CONSTANTS
  Lapsing,     \* bound: the tiers whose cache entry can lapse
  Primary,     \* Primary[r]: the configured tier of role r
  Det,         \* the findings of the deterministic stage
  Raw,         \* the findings that a model can report
  Changed,     \* those of them on changed lines
  Place,       \* Place[f]: file, line and CWE of f, none being ""
  Spot,        \* Spot[f]: file, line and CWE or title of f
  Confidence   \* Confidence[f], in percent

(* The tiers that the router has a client for.                               *)
Tiers == {"local-secure", "local-base", "cloud-generalist", "cloud-judge"}

Detectors == {"detector_a", "detector_b"}
Roles == Detectors \cup {"judge"}

ASSUME EnsembleAssumption ==
  /\ Lapsing \subseteq Tiers
  /\ Primary \in [Roles -> STRING]
  /\ Place \in [Raw -> Nat]
  /\ Spot \in [Raw -> Nat]
  /\ Det \subseteq Findings /\ Raw \subseteq Findings /\ Det \cap Raw = {}
  /\ Changed \subseteq Raw
  /\ Confidence \in [Raw -> 0 .. 100]

VARIABLES
  cache,     \* cache[t]: the health of tier t the router remembers
  suspects,  \* history: the tiers that a probe or a call found down
  call,      \* call[r]: what the complete() of role r is doing
  answer,    \* answer[r]: the findings parsed from its completion
  degraded,  \* the roles in result.degraded
  found,     \* state.findings
  rest,      \* the candidates that the loop of the rule has not gone through
  kept,      \* those that it keeps
  phase      \* the part of the scan that is running

eVars == <<rVars, cache, suspects, call, answer, degraded, found, rest, kept, phase>>

(* pc: "probe" and "ask" wait for healthy() and complete() of the client of    *)
(* the at-th tier; "done" and "out" have a completion and an LLMError, and     *)
(* "raised" another exception.                                               *)
Call == [pc : {"idle", "probe", "ask", "done", "out", "raised"}, at : 0 .. 4]

ETypeOK ==
  /\ RTypeOK
  /\ cache \in [Tiers -> {"unknown", "up", "down"}]
  /\ suspects \subseteq Tiers
  /\ call \in [Roles -> Call]
  /\ answer \in [Roles -> SUBSET Changed]
  /\ degraded \subseteq Roles
  /\ Det \subseteq found /\ found \subseteq Det \cup Changed
  /\ rest \subseteq Changed /\ kept \subseteq Changed
  /\ phase \in {"start", "detect", "judge", "score", "failed"}

-----------------------------------------------------------------------------
(* The router.                                                               *)

FallbackOrder ==
  [ detector_a |-> <<Primary["detector_a"], "cloud-generalist", "local-base", "cloud-judge">>,
    detector_b |-> <<Primary["detector_b"], "local-base", "cloud-generalist", "local-secure">>,
    judge      |-> <<Primary["judge"], "cloud-judge", "local-secure", "cloud-generalist">> ]

(* The places of the order that count: dict.fromkeys keeps the first of equal   *)
(* tiers, and a tier without a client is passed over.                         *)
Turns(r) ==
  {j \in 1 .. 4 : /\ FallbackOrder[r][j] \in Tiers
                  /\ \A i \in 1 .. j - 1 : FallbackOrder[r][i] # FallbackOrder[r][j]}

(* Mutation: a tier remembered as up is passed over.                         *)
PassOver(c, t) == c[t] # "unknown"

(* A fresh entry of the cache says that the tier is down.                    *)
KnownDown(c, t) == c[t] = "down"

(* Mutation of NextTier: a role that fails tries the first tier again.       *)
TryAgain(r, i, c) == [pc |-> "probe", at |-> 1]

(* complete() goes on with the first tier from the i-th that is not known to  *)
(* be down, without an await: it probes the tier, or asks it at once if it    *)
(* is known to be up; without such a tier it raises LLMError.                 *)
NextTier(r, i, c) ==
  LET open == {j \in Turns(r) : j >= i /\ ~ KnownDown(c, FallbackOrder[r][j])}
      j == CHOOSE j \in open : \A k \in open : j <= k
  IN  IF open = {} THEN [pc |-> "out", at |-> 0]
      ELSE [pc |-> IF c[FallbackOrder[r][j]] = "up" THEN "ask" ELSE "probe", at |-> j]

TierOf(r) == FallbackOrder[r][call[r].at]

StageUnchanged == UNCHANGED <<rVars, found, rest, kept, phase>>

(* _run and the judge's handler report a role whose complete() raised.       *)
Degrade(r, pc) == IF pc = "out" THEN degraded \cup {r} ELSE degraded

GoTo(r, c) ==
  /\ call' = [call EXCEPT ![r] = c]
  /\ degraded' = Degrade(r, c.pc)

Probe(r) ==
  /\ call[r].pc = "probe"
  /\ \/ /\ cache' = [cache EXCEPT ![TierOf(r)] = "up"]
        /\ GoTo(r, [call[r] EXCEPT !.pc = "ask"])
        /\ UNCHANGED suspects
     \/ /\ cache' = [cache EXCEPT ![TierOf(r)] = "down"]
        /\ GoTo(r, NextTier(r, call[r].at + 1, cache'))
        /\ suspects' = suspects \cup {TierOf(r)}
  /\ UNCHANGED answer /\ StageUnchanged

(* healthy() raises something else than an httpx.HTTPError, of a malformed URL   *)
(* for one: complete() and the stage with it, while the other detector goes on.  *)
ProbeRaises(r) ==
  /\ call[r].pc = "probe"
  /\ call' = [call EXCEPT ![r].pc = "raised"]
  /\ phase' = "failed"
  /\ UNCHANGED <<rVars, cache, suspects, answer, degraded, found, rest, kept>>

(* Mutation of Parse: lines outside the diff are kept.                       *)
ParseAll(K) == K

(* parse_findings: an answer that is no JSON of the schema has no findings,    *)
(* and those outside the changed lines are dropped.                          *)
Parse(K) == K \cap Changed

Ask(r) ==
  /\ call[r].pc = "ask"
  /\ \/ \E K \in SUBSET Raw :
          /\ answer' = [answer EXCEPT ![r] = Parse(K)]
          /\ GoTo(r, [call[r] EXCEPT !.pc = "done"])
          /\ UNCHANGED <<cache, suspects>>
     \/ /\ cache' = [cache EXCEPT ![TierOf(r)] = "down"]
        /\ GoTo(r, NextTier(r, call[r].at + 1, cache'))
        /\ suspects' = suspects \cup {TierOf(r)}
        /\ UNCHANGED answer
  /\ StageUnchanged

(* An entry of the cache is older than tier_health_ttl_seconds.              *)
Forget(t) ==
  /\ phase \in {"detect", "judge", "failed"}
  /\ cache[t] # "unknown"
  /\ cache' = [cache EXCEPT ![t] = "unknown"]
  /\ UNCHANGED <<suspects, call, answer, degraded>> /\ StageUnchanged

-----------------------------------------------------------------------------
(* The stage.                                                                *)

Candidates == UNION {answer[r] : r \in Detectors}

(* The candidates of one place are next to each other, the most confident       *)
(* first, so that a detector's report of a finding and the other's are equal    *)
(* here. Two of one spot have one place, unless the title of one that has no    *)
(* CWE is the CWE of the other: it sorts before it whatever its confidence.     *)
SortsBefore(f, g) ==
  \/ Place[f] < Place[g]
  \/ Place[f] = Place[g] /\ Confidence[f] >= Confidence[g]

(* Mutation: what a spot already has is forgotten.                           *)
TakeAll(f) == IF Confidence[f] < 80 THEN kept ELSE kept \cup {f}

Take(f) ==
  IF Confidence[f] < 80 \/ (\E g \in kept : Spot[g] = Spot[f]) THEN kept ELSE kept \cup {f}

Ended(r) == call[r].pc \in {"done", "out"}

(* Without a changed code file nobody is asked.                              *)
Begin ==
  /\ phase = "start"
  /\ \/ /\ phase' = "score"
        /\ UNCHANGED <<call, degraded>>
     \/ /\ phase' = "detect"
        /\ call' = [r \in Roles |-> IF r \in Detectors THEN NextTier(r, 1, cache) ELSE call[r]]
        /\ degraded' = {r \in Detectors : call'[r].pc = "out"}
  /\ UNCHANGED <<rVars, cache, suspects, answer, found, rest, kept>>

(* gather has both detectors; without candidates nobody asks the judge.      *)
Collect ==
  /\ phase = "detect"
  /\ \A r \in Detectors : Ended(r)
  /\ \/ /\ Candidates = {}
        /\ phase' = "score"
        /\ UNCHANGED <<call, degraded>>
     \/ /\ Candidates # {}
        /\ phase' = "judge"
        /\ GoTo("judge", NextTier("judge", 1, cache))
  /\ rest' = Candidates
  /\ UNCHANGED <<rVars, cache, suspects, answer, found, kept>>

(* One turn of the loop of _fallback_consolidate.                            *)
ConsolidateOne ==
  /\ phase = "judge"
  /\ call["judge"].pc = "out"
  /\ \E f \in rest :
       /\ \A g \in rest : SortsBefore(f, g)
       /\ kept' = Take(f)
       /\ rest' = rest \ {f}
  /\ UNCHANGED <<rVars, cache, suspects, call, answer, degraded, found, phase>>

(* What the judge says replaces the candidates, also where it says nothing of *)
(* them or something new.                                                    *)
Publish ==
  /\ phase = "judge"
  /\ \/ call["judge"].pc = "done" /\ found' = found \cup answer["judge"]
     \/ call["judge"].pc = "out" /\ rest = {} /\ found' = found \cup kept
  /\ phase' = "score"
  /\ UNCHANGED <<rVars, cache, suspects, call, answer, degraded, rest, kept>>

(* Storing the calls or the findings raises, which ends the scan.            *)
StoringFails ==
  /\ \/ phase = "detect" /\ \A r \in Detectors : Ended(r)
     \/ phase = "judge" /\ Ended("judge")
  /\ phase' = "failed"
  /\ UNCHANGED <<rVars, cache, suspects, call, answer, degraded, found, rest, kept>>

(* compute_risk_score goes through the deterministic findings, and then       *)
(* through the others in the order in which they were published.             *)
ScoreOne ==
  /\ phase = "score"
  /\ LET left == found \ ToSet(listed)
     IN  \/ left \cap Det # {} /\ List(CHOOSE f \in left \cap Det : TRUE)
         \/ left \cap Det = {} /\ \E f \in left : List(f)
  /\ UNCHANGED <<cache, suspects, call, answer, degraded, found, rest, kept, phase>>

EInit ==
  /\ RInit
  /\ cache = [t \in Tiers |-> "unknown"]
  /\ suspects = {}
  /\ call = [r \in Roles |-> [pc |-> "idle", at |-> 0]]
  /\ answer = [r \in Roles |-> {}]
  /\ degraded = {}
  /\ found = Det
  /\ rest = {}
  /\ kept = {}
  /\ phase = "start"

EnsembleStep == \/ \E r \in Roles : Probe(r) \/ Ask(r)
                \/ Begin \/ Collect \/ ConsolidateOne \/ Publish \/ ScoreOne

ENext ==
  \/ EnsembleStep \/ StoringFails
  \/ \E r \in Roles : ProbeRaises(r)
  \/ \E t \in Lapsing : Forget(t)

ESpec == EInit /\ [][ENext]_eVars

(* Every call of a client ends: httpx has a timeout.                         *)
EFairSpec == ESpec /\ WF_eVars(EnsembleStep)

-----------------------------------------------------------------------------

(* A role has turned to a later tier of its order, or given up, only past      *)
(* tiers that a probe or a call of this scan found down, its own or another's: *)
(* neither sharing the cache nor its lapsing skips a tier that nobody tried.  *)
FallbackIsJustified ==
  \A r \in Roles :
    call[r].pc # "idle" =>
      \A j \in Turns(r) :
        (call[r].pc = "out" \/ j < call[r].at) => FallbackOrder[r][j] \in suspects

(* Without a judge, the findings are confident candidates, one for each spot     *)
(* that has any: the most confident one of it, or of those without a CWE if     *)
(* there are such at a spot of findings with one.                            *)
ConsolidationIsExact ==
  (phase = "score" /\ call["judge"].pc = "out") =>
    LET K == {f \in Candidates : Confidence[f] >= 80}
        L == found \ Det
    IN  /\ L \subseteq K
        /\ \A f \in K : Cardinality({g \in L : Spot[g] = Spot[f]}) = 1
        /\ \A f \in K, g \in L :
             Spot[g] = Spot[f] =>
               \/ Place[g] < Place[f]
               \/ Place[g] = Place[f] /\ Confidence[g] >= Confidence[f]

(* Whatever tiers fail and however the cache lapses, the ensemble ends, and    *)
(* all it left is in the score.                                              *)
EnsembleEnds == <>(phase = "failed" \/ (phase = "score" /\ ToSet(listed) = found))

(* The stage seen from the runner: RunLLM of ScanPipeline.                    *)
Review == INSTANCE LLMReview WITH done <- (phase = "score")

ImplementsReview == Review!Spec

=============================================================================
