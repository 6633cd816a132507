---------------------------- MODULE EnsembleProofs ----------------------------
(***************************************************************************)
(* The LLM stage and the score, for every value of the constants: any          *)
(* configured tiers, any findings, and any tier failing or being forgotten at   *)
(* any time.                                                                 *)
(*                                                                         *)
(* What a role may skip depends on a cache that others write: the invariant     *)
(* ties every entry that says "down" to a tier that somebody tried. What the     *)
(* rule keeps is right at its end because each turn of its loop leaves the       *)
(* confident candidate that sorts first of every spot it has met.               *)
(***************************************************************************)
EXTENDS LLMEnsemble, FiniteSetTheorems, TLAPS

(* What is known to be down was found down.                                    *)
CacheOK == \A t \in Tiers : KnownDown(cache, t) => t \in suspects

(* Where the calls stand in each part of the stage.                            *)
CallOK ==
  /\ \A r \in Roles : call[r].pc \in {"probe", "ask"} => call[r].at \in Turns(r)
  /\ phase = "start" => \A r \in Roles : call[r].pc = "idle"
  /\ phase \in {"start", "detect"} => call["judge"].pc = "idle"
  /\ phase \in {"judge", "score"} =>
       \A r \in Detectors : call[r].pc \notin {"probe", "ask"}
  /\ phase = "judge" => call["judge"].pc # "idle"
  /\ phase \in {"score", "failed"} => call["judge"].pc \notin {"probe", "ask"}

(* The loop of the rule: what is kept is confident, one for each spot that had   *)
(* a confident candidate, and no confident candidate of its spot sorts before it.  *)
(* A stage that failed may leave a detector running, which still reports.        *)
LoopOK ==
  /\ phase = "start" => Candidates = {}
  /\ phase \in {"start", "detect"} => kept = {} /\ found = Det
  /\ phase = "judge" => found = Det /\ rest \subseteq Candidates
  /\ phase # "failed" => kept \subseteq Candidates
  /\ \A f \in kept : Confidence[f] >= 80
  /\ phase \in {"judge", "score"} =>
       \A f \in Candidates \ rest :
         Confidence[f] >= 80 => \E g \in kept : Spot[g] = Spot[f]
  /\ \A f, g \in kept : Spot[f] = Spot[g] => f = g
  /\ phase # "failed" =>
       \A f \in Candidates, g \in kept :
         (Confidence[f] >= 80 /\ Spot[g] = Spot[f]) => SortsBefore(g, f)
  /\ (phase = "score" /\ call["judge"].pc = "out") => rest = {} /\ found = Det \cup kept

EInv == ETypeOK /\ CacheOK /\ CallOK /\ FallbackIsJustified /\ LoopOK

-----------------------------------------------------------------------------
(* The router.                                                               *)

(* Where complete() goes from the i-th tier: past tiers that are known to be     *)
(* down, to the first that is not, or out.                                     *)
LEMMA NextIsNext ==
  ASSUME NEW r \in Roles, NEW i \in 1 .. 5, NEW c
  PROVE  /\ NextTier(r, i, c) \in Call
         /\ NextTier(r, i, c).pc \in {"probe", "ask", "out"}
         /\ NextTier(r, i, c).pc # "out" => NextTier(r, i, c).at \in Turns(r)
         /\ \A j \in Turns(r) :
              (j >= i /\ (NextTier(r, i, c).pc = "out" \/ j < NextTier(r, i, c).at)) =>
                KnownDown(c, FallbackOrder[r][j])
<1> DEFINE open == {j \in Turns(r) : j >= i /\ ~ KnownDown(c, FallbackOrder[r][j])}
           first == CHOOSE j \in open : \A k \in open : j <= k
<1>1. Turns(r) \subseteq 1 .. 4
  BY DEF Turns
<1>2. CASE open = {}
  <2>1. NextTier(r, i, c) = [pc |-> "out", at |-> 0]
    BY <1>2 DEF NextTier
  <2> QED
    BY <1>2, <2>1 DEF Call
<1>3. CASE open # {}
  <2>1. NextTier(r, i, c) =
          [pc |-> IF c[FallbackOrder[r][first]] = "up" THEN "ask" ELSE "probe", at |-> first]
    BY <1>3 DEF NextTier
  <2>2. \E j \in open : \A k \in open : j <= k
    <3>1. open \subseteq 1 .. 4
      BY <1>1
    <3> HIDE DEF open
    <3>2. CASE 1 \in open
      BY <3>1, <3>2
    <3>3. CASE 1 \notin open /\ 2 \in open
      BY <3>1, <3>3
    <3>4. CASE 1 \notin open /\ 2 \notin open /\ 3 \in open
      BY <3>1, <3>4
    <3>5. CASE 1 \notin open /\ 2 \notin open /\ 3 \notin open
      <4>1. \A j \in open : j = 4
        BY <3>1, <3>5
      <4> QED
        BY <1>3, <4>1
    <3> QED
      BY <3>2, <3>3, <3>4, <3>5
  <2>3. first \in open /\ \A k \in open : first <= k
    BY <2>2
  <2> HIDE DEF first
  <2>4. NextTier(r, i, c).at = first /\ NextTier(r, i, c).pc \in {"ask", "probe"}
    BY <2>1
  <2>5. NextTier(r, i, c) \in Call
    BY <1>1, <2>1, <2>3 DEF Call
  <2>6. ASSUME NEW j \in Turns(r), j >= i, j < first PROVE KnownDown(c, FallbackOrder[r][j])
    BY <1>1, <2>3, <2>6
  <2>7. first \in Turns(r)
    BY <2>3
  <2>8. \A j \in Turns(r) : (j >= i /\ j < first) => KnownDown(c, FallbackOrder[r][j])
    BY <2>6
  <2> QED
    BY <2>4, <2>5, <2>7, <2>8
<1> QED
  BY <1>2, <1>3

(* Tiers of the places that count have clients.                                *)
LEMMA TurnsAreTiers ==
  ASSUME NEW r \in Roles, NEW j \in Turns(r)
  PROVE  FallbackOrder[r][j] \in Tiers
  BY DEF Turns

(* A tier that fails is remembered as down and as found down, and its role goes  *)
(* on from the next.                                                         *)
LEMMA TierFails ==
  ASSUME EInv, NEW r \in Roles, call[r].pc \in {"probe", "ask"},
         cache' = [cache EXCEPT ![TierOf(r)] = "down"],
         GoTo(r, NextTier(r, call[r].at + 1, cache')),
         suspects' = suspects \cup {TierOf(r)}
  PROVE  /\ call' \in [Roles -> Call] /\ cache' \in [Tiers -> {"unknown", "up", "down"}]
         /\ suspects' \subseteq Tiers /\ degraded' \subseteq Roles
         /\ CacheOK' /\ FallbackIsJustified'
         /\ \A q \in Roles \ {r} : call'[q] = call[q]
         /\ call'[r].pc \in {"probe", "ask", "out"}
         /\ call'[r].pc # "out" => call'[r].at \in Turns(r)
<1> USE DEF EInv, ETypeOK
<1>1. call[r].at \in Turns(r) /\ call[r].at \in 1 .. 4 /\ TierOf(r) \in Tiers
  BY DEF CallOK, Turns, TierOf
<1>2. call[r].at + 1 \in 1 .. 5
  BY <1>1
<1> DEFINE next == NextTier(r, call[r].at + 1, cache')
<1>3. /\ next \in Call /\ next.pc \in {"probe", "ask", "out"}
      /\ next.pc # "out" => next.at \in Turns(r)
      /\ \A j \in Turns(r) : (j >= call[r].at + 1 /\ (next.pc = "out" \/ j < next.at)) =>
           KnownDown(cache', FallbackOrder[r][j])
  BY <1>2, NextIsNext
<1>4. call' = [call EXCEPT ![r] = next] /\ degraded' = Degrade(r, next.pc)
  BY DEF GoTo
<1> HIDE DEF next
<1>5. call' \in [Roles -> Call] /\ call'[r] = next /\ \A q \in Roles \ {r} : call'[q] = call[q]
  BY <1>3, <1>4
<1>6. /\ cache' \in [Tiers -> {"unknown", "up", "down"}] /\ suspects' \subseteq Tiers
      /\ degraded' \subseteq Roles
  BY <1>1, <1>4 DEF Degrade
<1>7. CacheOK'
  BY <1>1 DEF CacheOK, KnownDown
<1>8. FallbackIsJustified'
  <2> SUFFICES ASSUME NEW q \in Roles, call'[q].pc # "idle", NEW j \in Turns(q),
                      call'[q].pc = "out" \/ j < call'[q].at
               PROVE  FallbackOrder[q][j] \in suspects'
    BY DEF FallbackIsJustified
  <2>1. FallbackOrder[q][j] \in Tiers
    BY TurnsAreTiers
  <2>2. CASE q # r
    BY <1>5, <2>2 DEF FallbackIsJustified
  <2>3. CASE q = r /\ j >= call[r].at + 1
    <3>1. KnownDown(cache', FallbackOrder[r][j])
      BY <1>3, <1>5, <2>3
    <3> QED
      BY <1>7, <2>1, <2>3, <3>1 DEF CacheOK
  <2>4. CASE q = r /\ j = call[r].at
    BY <2>4 DEF TierOf
  <2>5. CASE q = r /\ j < call[r].at
    BY <2>5 DEF FallbackIsJustified
  <2>6. j \in 1 .. 4
    BY DEF Turns
  <2> QED
    BY <1>1, <2>2, <2>3, <2>4, <2>5, <2>6
<1> QED
  BY <1>3, <1>5, <1>6, <1>7, <1>8

-----------------------------------------------------------------------------
(* The steps.                                                                *)

(* Steps of a call leave the stage alone.                                       *)
LEMMA CallsKeepLoop ==
  ASSUME EInv, StageUnchanged, \A q \in Detectors : answer'[q] = answer[q] \/ phase \in {"detect", "failed"},
         \A q \in Roles : answer'[q] \in SUBSET Changed,
         \A q \in Detectors : answer[q] \subseteq answer'[q],
         (phase = "score" /\ call'["judge"].pc = "out") => call["judge"].pc = "out"
  PROVE  LoopOK'
<1> USE DEF EInv, LoopOK, StageUnchanged
<1>1. CASE phase \in {"detect", "failed"}
  <2>1. Candidates \subseteq Candidates'
    BY DEF Candidates
  <2> QED
    BY <1>1, <2>1
<1>2. CASE phase \notin {"detect", "failed"}
  <2>1. Candidates' = Candidates
    BY <1>2 DEF Candidates
  <2> QED
    BY <1>2, <2>1
<1> QED
  BY <1>1, <1>2

(* A probe ends.                                                             *)
LEMMA ProbeKeeps ==
  ASSUME EInv, NEW r \in Roles, Probe(r)
  PROVE  EInv'
<1> USE DEF EInv, ETypeOK
<1>1. call[r].pc = "probe" /\ call[r].at \in Turns(r) /\ TierOf(r) \in Tiers
  BY DEF Probe, CallOK, Turns, TierOf
<1>2. answer' = answer /\ StageUnchanged
  BY DEF Probe
<1>3. /\ phase \in {"detect", "judge", "failed"}
      /\ (phase = "judge" => r = "judge") /\ (phase # "judge" => r # "judge")
  BY <1>1 DEF CallOK, Roles, Detectors
<1>4. LoopOK'
  BY <1>2, <1>3, CallsKeepLoop
<1>5. CASE /\ cache' = [cache EXCEPT ![TierOf(r)] = "up"]
           /\ GoTo(r, [call[r] EXCEPT !.pc = "ask"])
           /\ UNCHANGED suspects
  <2> DEFINE next == [call[r] EXCEPT !.pc = "ask"]
  <2>1. next \in Call /\ next.pc = "ask" /\ next.at = call[r].at
    BY DEF Call
  <2>2. call' = [call EXCEPT ![r] = next] /\ degraded' = degraded
    BY <1>5, <2>1 DEF GoTo, Degrade
  <2> HIDE DEF next
  <2>3. call' \in [Roles -> Call] /\ call'[r] = next /\ \A q \in Roles \ {r} : call'[q] = call[q]
    BY <2>1, <2>2
  <2>4. CallOK'
    BY <1>1, <1>2, <1>3, <2>1, <2>3 DEF CallOK, StageUnchanged, Roles, Detectors
  <2>5. CacheOK'
    BY <1>1, <1>5 DEF CacheOK, KnownDown
  <2>6. FallbackIsJustified'
    BY <1>1, <1>5, <2>1, <2>3 DEF FallbackIsJustified
  <2>7. ETypeOK'
    BY <1>1, <1>2, <1>5, <2>2, <2>3 DEF StageUnchanged, rVars, RTypeOK
  <2> QED
    BY <1>4, <2>4, <2>5, <2>6, <2>7
<1>6. CASE /\ cache' = [cache EXCEPT ![TierOf(r)] = "down"]
           /\ GoTo(r, NextTier(r, call[r].at + 1, cache'))
           /\ suspects' = suspects \cup {TierOf(r)}
  <2>1. /\ call' \in [Roles -> Call] /\ cache' \in [Tiers -> {"unknown", "up", "down"}]
        /\ suspects' \subseteq Tiers /\ degraded' \subseteq Roles
        /\ CacheOK' /\ FallbackIsJustified'
        /\ \A q \in Roles \ {r} : call'[q] = call[q]
        /\ call'[r].pc \in {"probe", "ask", "out"}
        /\ call'[r].pc # "out" => call'[r].at \in Turns(r)
    BY <1>1, <1>6, TierFails
  <2>2. CallOK'
    BY <1>1, <1>2, <1>3, <2>1 DEF CallOK, StageUnchanged, Roles, Detectors
  <2>3. ETypeOK'
    BY <1>2, <2>1 DEF StageUnchanged, rVars, RTypeOK
  <2> QED
    BY <1>4, <2>1, <2>2, <2>3
<1> QED
  BY <1>5, <1>6 DEF Probe

(* A completion ends.                                                         *)
LEMMA AskKeeps ==
  ASSUME EInv, NEW r \in Roles, Ask(r)
  PROVE  EInv'
<1> USE DEF EInv, ETypeOK
<1>1. call[r].pc = "ask" /\ call[r].at \in Turns(r) /\ TierOf(r) \in Tiers
  BY DEF Ask, CallOK, Turns, TierOf
<1>2. StageUnchanged
  BY DEF Ask
<1>3. /\ phase \in {"detect", "judge", "failed"}
      /\ (phase = "judge" => r = "judge") /\ (phase # "judge" => r # "judge")
  BY <1>1 DEF CallOK, Roles, Detectors
<1>4. ASSUME NEW K \in SUBSET Raw,
             answer' = [answer EXCEPT ![r] = Parse(K)],
             GoTo(r, [call[r] EXCEPT !.pc = "done"]),
             UNCHANGED <<cache, suspects>>
      PROVE  EInv'
  <2> DEFINE next == [call[r] EXCEPT !.pc = "done"]
  <2>1. next \in Call /\ next.pc = "done" /\ next.at = call[r].at
    BY DEF Call
  <2>2. call' = [call EXCEPT ![r] = next] /\ degraded' = degraded
    BY <1>4, <2>1 DEF GoTo, Degrade
  <2> HIDE DEF next
  <2>3. call' \in [Roles -> Call] /\ call'[r] = next /\ \A q \in Roles \ {r} : call'[q] = call[q]
    BY <2>1, <2>2
  <2>4. CallOK'
    BY <1>1, <1>2, <1>3, <2>1, <2>3 DEF CallOK, StageUnchanged, Roles, Detectors
  <2>5. CacheOK'
    BY <1>4 DEF CacheOK, KnownDown
  <2>6. FallbackIsJustified'
    BY <1>1, <1>4, <2>1, <2>3 DEF FallbackIsJustified
  <2>7. ETypeOK'
    BY <1>2, <1>4, <2>2, <2>3 DEF StageUnchanged, rVars, RTypeOK, Parse
  <2>8. LoopOK'
    <3>1. CASE phase = "judge"
      <4>1. \A q \in Detectors : answer'[q] = answer[q]
        BY <1>3, <1>4, <3>1 DEF Detectors, Roles
      <4>2. Candidates' = Candidates
        BY <4>1 DEF Candidates
      <4> QED
        BY <1>2, <3>1, <4>2 DEF LoopOK, StageUnchanged
    <3>2. CASE phase \in {"detect", "failed"}
      BY <1>2, <3>2 DEF LoopOK, StageUnchanged
    <3> QED
      BY <1>3, <3>1, <3>2
  <2> QED
    BY <2>4, <2>5, <2>6, <2>7, <2>8
<1>5. CASE /\ cache' = [cache EXCEPT ![TierOf(r)] = "down"]
           /\ GoTo(r, NextTier(r, call[r].at + 1, cache'))
           /\ suspects' = suspects \cup {TierOf(r)}
           /\ UNCHANGED answer
  <2>1. /\ call' \in [Roles -> Call] /\ cache' \in [Tiers -> {"unknown", "up", "down"}]
        /\ suspects' \subseteq Tiers /\ degraded' \subseteq Roles
        /\ CacheOK' /\ FallbackIsJustified'
        /\ \A q \in Roles \ {r} : call'[q] = call[q]
        /\ call'[r].pc \in {"probe", "ask", "out"}
        /\ call'[r].pc # "out" => call'[r].at \in Turns(r)
    BY <1>1, <1>5, TierFails
  <2>2. CallOK'
    BY <1>1, <1>2, <1>3, <2>1 DEF CallOK, StageUnchanged, Roles, Detectors
  <2>3. ETypeOK'
    BY <1>2, <1>5, <2>1 DEF StageUnchanged, rVars, RTypeOK
  <2>4. LoopOK'
    BY <1>2, <1>3, <1>5, CallsKeepLoop
  <2> QED
    BY <2>1, <2>2, <2>3, <2>4
<1> QED
  BY <1>4, <1>5 DEF Ask

(* A probe raises.                                                           *)
LEMMA RaiseKeeps ==
  ASSUME EInv, NEW r \in Roles, ProbeRaises(r)
  PROVE  EInv'
<1> USE DEF EInv, ETypeOK
<1>1. /\ call[r].pc = "probe" /\ phase' = "failed"
      /\ UNCHANGED <<rVars, cache, suspects, answer, degraded, found, rest, kept>>
  BY DEF ProbeRaises
<1> DEFINE next == [call[r] EXCEPT !.pc = "raised"]
<1>2. next \in Call /\ next.pc = "raised" /\ next.at = call[r].at /\ call' = [call EXCEPT ![r] = next]
  BY DEF Call, ProbeRaises
<1> HIDE DEF next
<1>3. call' \in [Roles -> Call] /\ call'[r] = next /\ \A q \in Roles \ {r} : call'[q] = call[q]
  BY <1>2
<1>4. /\ phase \in {"detect", "judge", "failed"}
      /\ (phase = "judge" => r = "judge") /\ (phase # "judge" => r # "judge")
  BY <1>1 DEF CallOK, Roles, Detectors
<1>5. CallOK'
  BY <1>1, <1>2, <1>3, <1>4 DEF CallOK, Roles, Detectors
<1>6. CacheOK' /\ FallbackIsJustified'
  BY <1>1, <1>2, <1>3 DEF CacheOK, FallbackIsJustified
<1>7. LoopOK'
  BY <1>1 DEF LoopOK, Candidates
<1>8. ETypeOK'
  BY <1>1, <1>3 DEF rVars, RTypeOK
<1> QED
  BY <1>5, <1>6, <1>7, <1>8

(* An entry of the cache lapses.                                               *)
LEMMA ForgetKeeps ==
  ASSUME EInv, NEW t \in Tiers, Forget(t)
  PROVE  EInv'
<1> USE DEF EInv, ETypeOK
<1>1. /\ cache' = [cache EXCEPT ![t] = "unknown"] /\ suspects' = suspects /\ call' = call
      /\ answer' = answer /\ degraded' = degraded /\ StageUnchanged
  BY DEF Forget
<1>2. CacheOK' /\ cache' \in [Tiers -> {"unknown", "up", "down"}]
  BY <1>1 DEF CacheOK, KnownDown
<1>3. CallOK' /\ FallbackIsJustified'
  BY <1>1 DEF CallOK, FallbackIsJustified, StageUnchanged
<1>4. LoopOK'
  BY <1>1, CallsKeepLoop
<1>5. ETypeOK'
  BY <1>1, <1>2 DEF StageUnchanged, rVars, RTypeOK
<1> QED
  BY <1>2, <1>3, <1>4, <1>5

(* The stage begins.                                                          *)
LEMMA BeginKeeps ==
  ASSUME EInv, Begin
  PROVE  EInv'
<1> USE DEF EInv, ETypeOK
<1>1. /\ phase = "start" /\ phase' \in {"score", "detect"}
      /\ UNCHANGED <<rVars, cache, suspects, answer, found, rest, kept>>
  BY DEF Begin
<1>2. CacheOK'
  BY <1>1 DEF CacheOK
<1>3. LoopOK'
  <2>1. Candidates' = Candidates /\ Candidates = {} /\ call["judge"].pc = "idle"
    BY <1>1 DEF Candidates, LoopOK, CallOK
  <2>2. phase' = "score" => call' = call
    BY DEF Begin
  <2> QED
    BY <1>1, <2>1, <2>2 DEF LoopOK
<1>4. CASE phase' = "score"
  <2>1. call' = call /\ degraded' = degraded
    BY <1>4 DEF Begin
  <2>2. CallOK' /\ FallbackIsJustified'
    BY <1>1, <1>4, <2>1 DEF CallOK, FallbackIsJustified, Detectors, Roles
  <2>3. ETypeOK'
    BY <1>1, <1>4, <2>1 DEF rVars, RTypeOK
  <2> QED
    BY <1>2, <1>3, <2>2, <2>3
<1>5. CASE phase' = "detect"
  <2>1. /\ call' = [r \in Roles |-> IF r \in Detectors THEN NextTier(r, 1, cache) ELSE call[r]]
        /\ degraded' = {r \in Detectors : call'[r].pc = "out"}
    BY <1>5 DEF Begin
  <2>2. \A r \in Detectors :
          /\ call'[r] = NextTier(r, 1, cache)
          /\ call'[r] \in Call
          /\ call'[r].pc \in {"probe", "ask", "out"}
          /\ call'[r].pc # "out" => call'[r].at \in Turns(r)
          /\ \A j \in Turns(r) :
               (call'[r].pc = "out" \/ j < call'[r].at) => KnownDown(cache, FallbackOrder[r][j])
    <3> SUFFICES ASSUME NEW r \in Detectors
                 PROVE  /\ call'[r] = NextTier(r, 1, cache)
                        /\ call'[r] \in Call
                        /\ call'[r].pc \in {"probe", "ask", "out"}
                        /\ call'[r].pc # "out" => call'[r].at \in Turns(r)
                        /\ \A j \in Turns(r) :
                             (call'[r].pc = "out" \/ j < call'[r].at) =>
                               KnownDown(cache, FallbackOrder[r][j])
      OBVIOUS
    <3>1. r \in Roles /\ call'[r] = NextTier(r, 1, cache)
      BY <2>1 DEF Roles
    <3>2. \A j \in Turns(r) : j >= 1
      BY DEF Turns
    <3> QED
      BY <3>1, <3>2, NextIsNext
  <2>3. call'["judge"] = call["judge"] /\ call["judge"].pc = "idle" /\ call["judge"] \in Call
    BY <1>1, <2>1 DEF Roles, Detectors, CallOK
  <2>4. call' \in [Roles -> Call]
    BY <2>1, <2>2, <2>3 DEF Roles
  <2>5. CallOK'
    BY <1>5, <2>2, <2>3 DEF CallOK, Roles
  <2>6. FallbackIsJustified'
    <3> SUFFICES ASSUME NEW r \in Detectors, NEW j \in Turns(r),
                        call'[r].pc = "out" \/ j < call'[r].at
                 PROVE  FallbackOrder[r][j] \in suspects'
      BY <2>3 DEF FallbackIsJustified, Roles
    <3>1. KnownDown(cache, FallbackOrder[r][j])
      BY <2>2
    <3>2. FallbackOrder[r][j] \in Tiers
      BY TurnsAreTiers DEF Roles
    <3> QED
      BY <1>1, <3>1, <3>2 DEF CacheOK
  <2>7. ETypeOK'
    BY <1>1, <1>5, <2>1, <2>4 DEF rVars, RTypeOK, Roles
  <2> QED
    BY <1>2, <1>3, <2>5, <2>6, <2>7
<1> QED
  BY <1>1, <1>4, <1>5

(* Both detectors have ended.                                                 *)
LEMMA CollectKeeps ==
  ASSUME EInv, Collect
  PROVE  EInv'
<1> USE DEF EInv, ETypeOK
<1>1. /\ phase = "detect" /\ phase' \in {"score", "judge"} /\ rest' = Candidates
      /\ UNCHANGED <<rVars, cache, suspects, answer, found, kept>>
      /\ \A r \in Detectors : call[r].pc \in {"done", "out"}
  BY DEF Collect, Ended
<1>2. CacheOK'
  BY <1>1 DEF CacheOK
<1>3. Candidates' = Candidates /\ kept = {} /\ found = Det /\ call["judge"].pc = "idle"
      /\ Candidates \subseteq Changed
  BY <1>1 DEF Candidates, LoopOK, CallOK, Roles
<1>4. CASE phase' = "score"
  <2>1. call' = call /\ degraded' = degraded
    BY <1>4 DEF Collect
  <2>2. CallOK' /\ FallbackIsJustified'
    BY <1>1, <1>3, <1>4, <2>1 DEF CallOK, FallbackIsJustified
  <2>3. ETypeOK'
    BY <1>1, <1>3, <1>4, <2>1 DEF rVars, RTypeOK
  <2>4. LoopOK'
    BY <1>1, <1>3, <1>4, <2>1 DEF LoopOK
  <2> QED
    BY <1>2, <2>2, <2>3, <2>4
<1>5. CASE phase' = "judge"
  <2> DEFINE next == NextTier("judge", 1, cache)
  <2>1. call' = [call EXCEPT !["judge"] = next] /\ degraded' = Degrade("judge", next.pc)
    BY <1>5 DEF Collect, GoTo
  <2>2. "judge" \in Roles /\ 1 \in 1 .. 5 /\ \A j \in Turns("judge") : j >= 1
    BY DEF Roles, Turns
  <2>3. /\ next \in Call /\ next.pc \in {"probe", "ask", "out"}
        /\ next.pc # "out" => next.at \in Turns("judge")
        /\ \A j \in Turns("judge") :
             (next.pc = "out" \/ j < next.at) => KnownDown(cache, FallbackOrder["judge"][j])
    BY <2>2, NextIsNext
  <2> HIDE DEF next
  <2>4. /\ call' \in [Roles -> Call] /\ call'["judge"] = next
        /\ \A q \in Roles \ {"judge"} : call'[q] = call[q]
    BY <2>1, <2>2, <2>3
  <2>5. CallOK'
    BY <1>1, <1>5, <2>3, <2>4 DEF CallOK, Roles, Detectors
  <2>6. FallbackIsJustified'
    <3> SUFFICES ASSUME NEW r \in Roles, call'[r].pc # "idle", NEW j \in Turns(r),
                        call'[r].pc = "out" \/ j < call'[r].at
                 PROVE  FallbackOrder[r][j] \in suspects'
      BY DEF FallbackIsJustified
    <3>1. CASE r # "judge"
      BY <1>1, <2>4, <3>1 DEF FallbackIsJustified
    <3>2. CASE r = "judge"
      BY <1>1, <2>3, <2>4, <3>2, TurnsAreTiers DEF CacheOK
    <3> QED
      BY <3>1, <3>2
  <2>7. ETypeOK'
    BY <1>1, <1>3, <1>5, <2>1, <2>2, <2>4 DEF rVars, RTypeOK, Degrade
  <2>8. LoopOK'
    BY <1>1, <1>3, <1>5 DEF LoopOK
  <2> QED
    BY <1>2, <2>5, <2>6, <2>7, <2>8
<1> QED
  BY <1>1, <1>4, <1>5

(* A turn of the loop of the rule.                                             *)
LEMMA LoopKeeps ==
  ASSUME EInv, ConsolidateOne
  PROVE  EInv'
<1> USE DEF EInv, ETypeOK
<1>1. /\ phase = "judge" /\ UNCHANGED <<rVars, cache, suspects, call, answer, degraded, found, phase>>
  BY DEF ConsolidateOne
<1>2. PICK f \in rest :
        (\A g \in rest : SortsBefore(f, g)) /\ kept' = Take(f) /\ rest' = rest \ {f}
  BY DEF ConsolidateOne
<1>3. CacheOK' /\ CallOK' /\ FallbackIsJustified' /\ Candidates' = Candidates
  BY <1>1 DEF CacheOK, CallOK, FallbackIsJustified, Candidates
<1>4. /\ f \in Candidates /\ f \in Raw /\ Candidates \subseteq Changed /\ Changed \subseteq Raw
      /\ rest \subseteq Candidates
  BY <1>1, <1>2, EnsembleAssumption DEF LoopOK, Candidates, Roles
<1>5. \A g \in Candidates : Spot[g] \in Nat /\ Confidence[g] \in Nat
  BY <1>4, EnsembleAssumption
<1>6. ETypeOK'
  BY <1>1, <1>2, <1>4 DEF rVars, RTypeOK, Take
<1>7. CASE Confidence[f] < 80
  <2>1. kept' = kept /\ ~ (Confidence[f] >= 80)
    BY <1>2, <1>4, <1>5, <1>7 DEF Take
  <2>2. LoopOK'
    BY <1>1, <1>2, <1>3, <2>1 DEF LoopOK
  <2> QED
    BY <1>3, <1>6, <2>2
<1>8. CASE Confidence[f] >= 80 /\ \E g \in kept : Spot[g] = Spot[f]
  <2>1. kept' = kept
    BY <1>2, <1>8 DEF Take
  <2>2. LoopOK'
    BY <1>1, <1>2, <1>3, <1>8, <2>1 DEF LoopOK
  <2> QED
    BY <1>3, <1>6, <2>2
<1>9. CASE Confidence[f] >= 80 /\ ~ \E g \in kept : Spot[g] = Spot[f]
  <2>1. kept' = kept \cup {f}
    BY <1>2, <1>4, <1>5, <1>9 DEF Take
  <2>2. \A g \in Candidates : (Confidence[g] >= 80 /\ Spot[f] = Spot[g]) => SortsBefore(f, g)
    <3> SUFFICES ASSUME NEW g \in Candidates, Confidence[g] >= 80, Spot[f] = Spot[g]
                 PROVE  g \in rest
      BY <1>2
    <3> QED
      BY <1>1, <1>9 DEF LoopOK
  <2>3. \A a, b \in kept' : Spot[a] = Spot[b] => a = b
    BY <1>9, <2>1 DEF LoopOK
  <2>4. \A a \in Candidates, g \in kept' :
          (Confidence[a] >= 80 /\ Spot[g] = Spot[a]) => SortsBefore(g, a)
    BY <1>1, <2>1, <2>2 DEF LoopOK
  <2>5. \A a \in Candidates \ rest' : Confidence[a] >= 80 => \E g \in kept' : Spot[g] = Spot[a]
    BY <1>1, <1>2, <2>1 DEF LoopOK
  <2>6. LoopOK'
    BY <1>1, <1>2, <1>3, <1>4, <1>9, <2>1, <2>3, <2>4, <2>5 DEF LoopOK
  <2> QED
    BY <1>3, <1>6, <2>6
<1> QED
  BY <1>4, <1>5, <1>7, <1>8, <1>9

(* The stage publishes, or fails.                                              *)
LEMMA EndKeeps ==
  ASSUME EInv, Publish \/ StoringFails
  PROVE  EInv'
<1> USE DEF EInv, ETypeOK
<1>1. /\ UNCHANGED <<rVars, cache, suspects, call, answer, degraded, rest, kept>>
      /\ phase' \in {"score", "failed"}
  BY DEF Publish, StoringFails
<1>2. \A r \in Roles : call[r].pc \notin {"probe", "ask"}
  <2>1. CASE Publish
    BY <2>1 DEF Publish, CallOK, Roles, Detectors
  <2>2. CASE StoringFails
    BY <2>2 DEF StoringFails, CallOK, Roles, Detectors, Ended
  <2> QED
    BY <2>1, <2>2
<1>3. CacheOK' /\ CallOK' /\ FallbackIsJustified' /\ Candidates' = Candidates
  BY <1>1, <1>2 DEF CacheOK, CallOK, FallbackIsJustified, Candidates, Roles, Detectors
<1>4. CASE Publish
  <2>1. /\ phase = "judge" /\ phase' = "score" /\ found = Det
        /\ \/ call["judge"].pc = "done" /\ found' = found \cup answer["judge"]
           \/ call["judge"].pc = "out" /\ rest = {} /\ found' = found \cup kept
    BY <1>4 DEF Publish, LoopOK
  <2>2. Det \subseteq found' /\ found' \subseteq Det \cup Changed
    BY <2>1 DEF Roles
  <2>3. ETypeOK'
    BY <1>1, <2>1, <2>2 DEF rVars, RTypeOK
  <2>4. LoopOK'
    BY <1>1, <1>3, <2>1 DEF LoopOK
  <2> QED
    BY <1>3, <2>3, <2>4
<1>5. CASE StoringFails
  <2>1. phase' = "failed" /\ found' = found
    BY <1>5 DEF StoringFails
  <2>2. LoopOK'
    BY <1>1, <1>3, <2>1 DEF LoopOK
  <2>3. ETypeOK'
    BY <1>1, <2>1 DEF rVars, RTypeOK
  <2> QED
    BY <1>3, <2>2, <2>3
<1> QED
  BY <1>4, <1>5

-----------------------------------------------------------------------------
(* The score.                                                                *)

(* Every finding weighs something, and at most 40.                               *)
LEMMA Weights == ASSUME NEW f \in Findings PROVE Weight(f) \in 1 .. 40
<1>1. CASE Cwe[f] \in DOMAIN CweWeights
  <2>1. Weight(f) = CweWeights[Cwe[f]]
    BY <1>1 DEF Weight
  <2>2. \A c \in DOMAIN CweWeights : CweWeights[c] \in {15, 25, 30, 35, 40}
    <3> SUFFICES ASSUME NEW c \in DOMAIN CweWeights PROVE CweWeights[c] \in {15, 25, 30, 35, 40}
      OBVIOUS
    <3>1. c \in {"CWE-89", "CWE-798", "CWE-79", "CWE-94", "CWE-78", "CWE-918", "CWE-22", "CWE-502",
                "CWE-321", "CWE-1395"}
      BY DEF CweWeights
    <3> QED
      BY <3>1 DEF CweWeights
  <2> QED
    BY <1>1, <2>1, <2>2
<1>2. CASE Cwe[f] \notin DOMAIN CweWeights
  <2>1. Severity[f] \in {"critical", "high", "medium", "low", "info"}
    BY PolicyAssumption DEF Severities
  <2>2. SeverityWeights[Severity[f]] \in {40, 25, 10, 5, 1}
    BY <2>1 DEF SeverityWeights
  <2>3. Weight(f) \in {20, SeverityWeights[Severity[f]]}
    BY <1>2 DEF Weight
  <2> QED
    BY <2>2, <2>3
<1> QED
  BY <1>1, <1>2

(* One turn of the loop adds to one bucket.                                     *)
LEMMA OneListed ==
  ASSUME RTypeOK, NEW f \in Findings, List(f)
  PROVE  /\ RTypeOK'
         /\ \A b \in Buckets \ {Bucket(f)} : totals'[b] = totals[b] /\ InBucket(b)' = InBucket(b)
         /\ totals'[Bucket(f)] = Lesser(totals[Bucket(f)] + Weight(f), 2 * Weight(f))
         /\ InBucket(Bucket(f))' = InBucket(Bucket(f)) \cup {Len(listed) + 1}
         /\ listed'[Len(listed) + 1] = f
         /\ \A i \in DOMAIN listed : listed'[i] = listed[i]
         /\ DOMAIN listed = 1 .. Len(listed) /\ Len(listed) \in Nat
<1>1. listed \in Seq(Findings) /\ listed' = Append(listed, f)
  BY DEF RTypeOK, List
<1>2. /\ Len(listed) \in Nat /\ DOMAIN listed = 1 .. Len(listed)
      /\ DOMAIN listed' = 1 .. Len(listed) + 1 /\ listed' \in Seq(Findings)
      /\ listed'[Len(listed) + 1] = f
      /\ \A i \in 1 .. Len(listed) : listed'[i] = listed[i]
  BY <1>1
<1>3. Bucket(f) \in Buckets /\ Weight(f) \in 1 .. 40
  BY Weights DEF Buckets
<1> DEFINE t == Lesser(totals[Bucket(f)] + Weight(f), 2 * Weight(f))
<1>4. totals' = [totals EXCEPT ![Bucket(f)] = t] /\ totals \in [Buckets -> 0 .. 80]
  BY DEF List, AddUp, Cap, RTypeOK
<1>5. t \in 0 .. 80
  BY <1>3, <1>4 DEF Lesser
<1> HIDE DEF t
<1>6. totals' \in [Buckets -> 0 .. 80] /\ totals'[Bucket(f)] = t
  BY <1>3, <1>4, <1>5
<1>7. ASSUME NEW b \in Buckets \ {Bucket(f)}
      PROVE  totals'[b] = totals[b] /\ InBucket(b)' = InBucket(b)
  <2>1. totals'[b] = totals[b]
    BY <1>4
  <2>2. InBucket(b)' = InBucket(b)
    BY <1>2 DEF InBucket
  <2> QED
    BY <2>1, <2>2
<1>8. InBucket(Bucket(f))' = InBucket(Bucket(f)) \cup {Len(listed) + 1}
  BY <1>2 DEF InBucket
<1>9. totals'[Bucket(f)] = Lesser(totals[Bucket(f)] + Weight(f), 2 * Weight(f))
  BY <1>6 DEF t
<1> QED
  BY <1>2, <1>6, <1>7, <1>8, <1>9 DEF RTypeOK

WeightsIn(b) == {Weight(listed[i]) : i \in InBucket(b)}

BucketOK(b) ==
  /\ (totals[b] = 0) <=> (Cardinality(InBucket(b)) = 0)
  /\ \A w \in WeightsIn(b) :
       WeightsIn(b) = {w} => totals[b] = Lesser(Cardinality(InBucket(b)) * w, 2 * w)
  /\ \A w \in WeightsIn(b) : (\A v \in WeightsIn(b) : v <= w) => totals[b] <= 2 * w

(* The property is about each bucket alone.                                      *)
LEMMA ByBucket == TotalsFollowWeights <=> \A b \in Buckets : BucketOK(b)
  BY DEF TotalsFollowWeights, BucketOK, WeightsIn

(* Products that the caps compare.                                               *)
LEMMA Multiples ==
  ASSUME NEW n \in Nat, NEW w \in Nat
  PROVE  (n + 1) * w = n * w + w /\ n * w \in Nat /\ (n >= 2 => n * w >= 2 * w)
<1>1. (n + 1) * w = n * w + w /\ n * w \in Nat
  OBVIOUS
<1>2. ASSUME n >= 2 PROVE n * w >= 2 * w
  <2>1. (n - 2) * w >= 0 /\ n - 2 \in Nat
    BY <1>2
  <2>2. n * w = (n - 2) * w + 2 * w
    BY <2>1
  <2> QED
    BY <2>1, <2>2
<1> QED
  BY <1>1, <1>2

(* What another finding of the weight w makes of the total t of n such findings.      *)
LEMMA CapStep ==
  ASSUME NEW n \in Nat, NEW w \in 1 .. 40, NEW t \in Nat, NEW u, u = Lesser(t + w, 2 * w)
  PROVE  /\ u \in Nat /\ u # 0 /\ u <= 2 * w
         /\ (n = 0 /\ t = 0) => u = Lesser((n + 1) * w, 2 * w)
         /\ (n > 0 /\ t = Lesser(n * w, 2 * w)) => u = Lesser((n + 1) * w, 2 * w)
<1>1. u \in Nat /\ u # 0 /\ u <= 2 * w
  BY DEF Lesser
<1>2. PICK k \in Nat : k = n * w
  BY Multiples
<1>3. (n + 1) * w = k + w /\ (n >= 2 => k >= 2 * w) /\ (n = 0 => k = 0) /\ (n = 1 => k = w)
  BY <1>2, Multiples
<1>4. (n = 0 /\ t = 0) => u = Lesser(k + w, 2 * w)
  BY <1>3
<1>5. ASSUME n > 0, t = Lesser(k, 2 * w) PROVE u = Lesser(k + w, 2 * w)
  <2>1. CASE n = 1
    BY <1>3, <1>5, <2>1 DEF Lesser
  <2>2. CASE n >= 2
    BY <1>3, <1>5, <2>2 DEF Lesser
  <2> QED
    BY <1>5, <2>1, <2>2
<1> QED
  BY <1>1, <1>2, <1>3, <1>4, <1>5

(* The rule of the caps holds of every bucket after every finding.                  *)
LEMMA TotalsKept ==
  ASSUME RTypeOK, TotalsFollowWeights, NEW f \in Findings, List(f)
  PROVE  TotalsFollowWeights'
<1>1. SUFFICES ASSUME NEW b \in Buckets PROVE BucketOK(b)'
  BY ByBucket DEF TotalsFollowWeights, BucketOK, WeightsIn
<1>2. BucketOK(b) /\ InBucket(b) \subseteq 1 .. Len(listed)
  BY ByBucket, OneListed DEF InBucket
<1>3. \A i \in InBucket(b) : listed'[i] = listed[i]
  BY OneListed DEF InBucket
<1>4. CASE b # Bucket(f)
  <2>1. totals'[b] = totals[b] /\ InBucket(b)' = InBucket(b)
    BY <1>4, OneListed
  <2>2. WeightsIn(b)' = WeightsIn(b)
    BY <1>3, <2>1 DEF WeightsIn
  <2> QED
    BY <1>2, <2>1, <2>2 DEF BucketOK
<1>5. CASE b = Bucket(f)
  <2> DEFINE B == InBucket(b)
             n == Cardinality(B)
             w == Weight(f)
             t == totals[b]
  <2>1. /\ totals'[b] = Lesser(t + w, 2 * w)
        /\ InBucket(b)' = B \cup {Len(listed) + 1}
        /\ listed'[Len(listed) + 1] = f
        /\ Len(listed) \in Nat
    BY <1>5, OneListed
  <2>2. w \in 1 .. 40 /\ t \in Nat
    <3>1. w \in 1 .. 40
      BY Weights
    <3>2. totals[b] \in 0 .. 80
      BY DEF RTypeOK
    <3> QED
      BY <3>1, <3>2
  <2>3. IsFiniteSet(B) /\ Len(listed) + 1 \notin B
    <3>1. IsFiniteSet(1 .. Len(listed))
      BY <2>1, FS_Interval
    <3>2. IsFiniteSet(B)
      BY <1>2, <3>1, FS_Subset
    <3>3. Len(listed) + 1 \notin 1 .. Len(listed)
      BY <2>1
    <3> QED
      BY <1>2, <3>2, <3>3
  <2>4. n \in Nat /\ Cardinality(InBucket(b)') = n + 1
    BY <2>1, <2>3, FS_AddElement, FS_CardinalityType
  <2>5. WeightsIn(b)' = WeightsIn(b) \cup {w}
    <3>1. WeightsIn(b)' = {Weight(listed'[i]) : i \in B \cup {Len(listed) + 1}}
      BY <2>1 DEF WeightsIn
    <3> QED
      BY <1>3, <2>1, <3>1 DEF WeightsIn
  <2>6. \A v \in WeightsIn(b)' : v \in Nat
    <3>1. \A i \in B : listed[i] \in Findings
      BY DEF InBucket, RTypeOK
    <3>2. \A v \in WeightsIn(b) : v \in Nat
      BY <3>1, Weights DEF WeightsIn
    <3> QED
      BY <2>2, <2>5, <3>2
  <2>7. ASSUME WeightsIn(b)' = {w}
        PROVE  totals'[b] = Lesser((n + 1) * w, 2 * w)
    <3>1. CASE n = 0
      <4>1. t = 0
        BY <1>2, <3>1 DEF BucketOK
      <4> QED
        BY <2>1, <2>2, <2>4, <3>1, <4>1, CapStep
    <3>2. CASE n > 0
      <4>1. B # {}
        BY <3>2, FS_EmptySet
      <4>2. WeightsIn(b) = {w}
        BY <2>5, <2>7, <4>1 DEF WeightsIn
      <4>3. t = Lesser(n * w, 2 * w)
        BY <1>2, <4>2 DEF BucketOK
      <4> QED
        BY <2>1, <2>2, <2>4, <3>2, <4>3, CapStep
    <3> QED
      BY <2>4, <3>1, <3>2
  <2>8. totals'[b] \in Nat /\ totals'[b] # 0 /\ totals'[b] <= 2 * w
    BY <2>1, <2>2, <2>4, CapStep
  <2>9. ASSUME NEW x \in WeightsIn(b)', \A v \in WeightsIn(b)' : v <= x
        PROVE  totals'[b] <= 2 * x
    <3>1. w <= x /\ x \in Nat
      BY <2>5, <2>6, <2>9
    <3> QED
      BY <2>2, <2>8, <3>1
  <2>10. ASSUME NEW x \in WeightsIn(b)', WeightsIn(b)' = {x}
         PROVE  totals'[b] = Lesser(Cardinality(InBucket(b)') * x, 2 * x)
    <3>1. x = w
      BY <2>5, <2>10
    <3> QED
      BY <2>4, <2>7, <2>10, <3>1
  <2>11. Cardinality(InBucket(b)') # 0
    BY <2>4
  <2> QED
    BY <2>8, <2>9, <2>10, <2>11 DEF BucketOK
<1> QED
  BY <1>4, <1>5

(* A finding is scored.                                                        *)
LEMMA ScoreListsOne ==
  ASSUME EInv, ScoreOne
  PROVE  /\ \E f \in Findings : List(f)
         /\ phase = "score"
         /\ UNCHANGED <<cache, suspects, call, answer, degraded, found, rest, kept, phase>>
<1> DEFINE left == found \ ToSet(listed)
<1>1. left \subseteq Findings
  BY EnsembleAssumption DEF EInv, ETypeOK
<1>2. /\ phase = "score"
      /\ UNCHANGED <<cache, suspects, call, answer, degraded, found, rest, kept, phase>>
      /\ \/ left \cap Det # {} /\ List(CHOOSE f \in left \cap Det : TRUE)
         \/ left \cap Det = {} /\ \E f \in left : List(f)
  BY DEF ScoreOne
<1> HIDE DEF left
<1>3. CASE left \cap Det # {} /\ List(CHOOSE f \in left \cap Det : TRUE)
  <2>1. (CHOOSE f \in left \cap Det : TRUE) \in left \cap Det
    BY <1>3
  <2> QED
    BY <1>1, <1>2, <1>3, <2>1
<1>4. CASE left \cap Det = {} /\ \E f \in left : List(f)
  BY <1>1, <1>2, <1>4
<1> QED
  BY <1>2, <1>3, <1>4

(* Scoring leaves the stage as it is.                                            *)
LEMMA ScoreKeeps ==
  ASSUME EInv, ScoreOne
  PROVE  EInv'
<1>1. PICK f \in Findings : List(f)
  BY ScoreListsOne
<1>2. UNCHANGED <<cache, suspects, call, answer, degraded, found, rest, kept, phase>>
  BY ScoreListsOne
<1>3. RTypeOK'
  BY <1>1, OneListed DEF EInv, ETypeOK
<1>4. ETypeOK'
  BY <1>2, <1>3 DEF EInv, ETypeOK
<1>5. CacheOK' /\ CallOK' /\ FallbackIsJustified'
  BY <1>2 DEF EInv, CacheOK, CallOK, FallbackIsJustified
<1>6. LoopOK'
  <2>1. Candidates' = Candidates
    BY <1>2 DEF Candidates
  <2> QED
    BY <1>2, <2>1 DEF EInv, LoopOK
<1> QED
  BY <1>4, <1>5, <1>6 DEF EInv

-----------------------------------------------------------------------------
(* The whole.                                                                *)

(* The stage begins within the invariant.                                        *)
LEMMA EnsembleInit == EInit => EInv /\ TotalsFollowWeights
<1> SUFFICES ASSUME EInit PROVE EInv /\ TotalsFollowWeights
  OBVIOUS
<1> USE DEF EInit, RInit
<1>1. RTypeOK
  BY DEF RTypeOK
<1>2. \A r \in Roles : call[r].pc = "idle" /\ answer[r] = {}
  OBVIOUS
<1>3. ETypeOK
  BY <1>1, EnsembleAssumption DEF ETypeOK, Call
<1>4. Candidates = {}
  BY <1>2 DEF Candidates, Roles
<1>5. CacheOK /\ CallOK /\ FallbackIsJustified
  BY <1>2 DEF CacheOK, KnownDown, CallOK, FallbackIsJustified, Roles
<1>6. LoopOK
  BY <1>4 DEF LoopOK
<1>7. TotalsFollowWeights
  <2> SUFFICES ASSUME NEW b \in Buckets PROVE BucketOK(b)
    BY ByBucket
  <2>1. InBucket(b) = {} /\ totals[b] = 0
    BY DEF InBucket
  <2>2. WeightsIn(b) = {}
    BY <2>1 DEF WeightsIn
  <2>3. Cardinality(InBucket(b)) = 0
    BY <2>1, FS_EmptySet
  <2> QED
    BY <2>1, <2>2, <2>3 DEF BucketOK
<1> QED
  BY <1>3, <1>5, <1>6, <1>7 DEF EInv

(* Every step keeps the invariant.                                               *)
LEMMA EnsembleKept == EInv /\ [ENext]_eVars => EInv'
<1> SUFFICES ASSUME EInv, [ENext]_eVars PROVE EInv'
  OBVIOUS
<1>1. ASSUME NEW r \in Roles, Probe(r) \/ Ask(r) PROVE EInv'
  BY <1>1, ProbeKeeps, AskKeeps
<1>2. CASE Begin
  BY <1>2, BeginKeeps
<1>3. CASE Collect
  BY <1>3, CollectKeeps
<1>4. CASE ConsolidateOne
  BY <1>4, LoopKeeps
<1>5. CASE Publish \/ StoringFails
  BY <1>5, EndKeeps
<1>6. CASE ScoreOne
  BY <1>6, ScoreKeeps
<1>7. ASSUME NEW t \in Lapsing, Forget(t) PROVE EInv'
  BY <1>7, ForgetKeeps, EnsembleAssumption
<1>9. ASSUME NEW r \in Roles, ProbeRaises(r) PROVE EInv'
  BY <1>9, RaiseKeeps
<1>8. CASE UNCHANGED eVars
  <2>1. UNCHANGED <<listed, totals, cache, suspects, call, answer, degraded, found, rest, kept, phase>>
    BY <1>8 DEF eVars, rVars
  <2>2. ETypeOK' /\ CacheOK'
    BY <2>1 DEF EInv, ETypeOK, RTypeOK, CacheOK
  <2>3. CallOK' /\ FallbackIsJustified' /\ LoopOK'
    BY <2>1 DEF EInv, CallOK, FallbackIsJustified, LoopOK, Candidates
  <2> QED
    BY <2>2, <2>3 DEF EInv
<1> QED
  BY <1>1, <1>2, <1>3, <1>4, <1>5, <1>6, <1>7, <1>8, <1>9 DEF ENext, EnsembleStep

(* Steps other than those of the score have the totals as they were.                *)
LEMMA TotalsAlways ==
  EInv /\ TotalsFollowWeights /\ [ENext]_eVars => TotalsFollowWeights'
<1> SUFFICES ASSUME EInv, TotalsFollowWeights, [ENext]_eVars PROVE TotalsFollowWeights'
  OBVIOUS
<1>1. CASE ScoreOne
  <2>1. PICK f \in Findings : List(f)
    BY <1>1, ScoreListsOne
  <2> QED
    BY <2>1, TotalsKept DEF EInv, ETypeOK
<1>2. CASE UNCHANGED rVars
  BY <1>2 DEF rVars, TotalsFollowWeights, InBucket
<1>3. ScoreOne \/ UNCHANGED rVars
  BY DEF ENext, EnsembleStep, eVars, Probe, Ask, Begin, Collect, ConsolidateOne, Publish,
         StoringFails, ProbeRaises, Forget, StageUnchanged
<1> QED
  BY <1>1, <1>2, <1>3

(* The ensemble is always as its invariant says.                                  *)
THEOREM EnsembleInvariant == ESpec => [](EInv /\ TotalsFollowWeights)
<1>1. EInit => EInv /\ TotalsFollowWeights
  BY EnsembleInit
<1>2. (EInv /\ TotalsFollowWeights) /\ [ENext]_eVars => (EInv /\ TotalsFollowWeights)'
  BY EnsembleKept, TotalsAlways
<1> QED
  BY <1>1, <1>2, PTL DEF ESpec

(* No role passes over a tier that nobody tried in this scan (router.py:86-97),      *)
(* though the detectors share the cache and its entries lapse.                     *)
THEOREM FallbackJustified == ESpec => []FallbackIsJustified
<1>1. EInv => FallbackIsJustified
  BY DEF EInv
<1> QED
  BY <1>1, EnsembleInvariant, PTL

(* What _fallback_consolidate publishes is exactly one of the confident candidates     *)
(* of each spot: the most confident of those that sort to one place, which is all      *)
(* of them unless one has no CWE and the others' for its title (llm_stage.py:172-181).  *)
THEOREM FallbackIsExact == ESpec => []ConsolidationIsExact
<1>1. EInv => ConsolidationIsExact
  <2> SUFFICES ASSUME EInv, phase = "score", call["judge"].pc = "out"
               PROVE  LET K == {f \in Candidates : Confidence[f] >= 80}
                          L == found \ Det
                      IN  /\ L \subseteq K
                          /\ \A f \in K : Cardinality({g \in L : Spot[g] = Spot[f]}) = 1
                          /\ \A f \in K, g \in L :
                               Spot[g] = Spot[f] =>
                                 \/ Place[g] < Place[f]
                                 \/ Place[g] = Place[f] /\ Confidence[g] >= Confidence[f]
    BY DEF ConsolidationIsExact
  <2> USE DEF EInv, ETypeOK, LoopOK
  <2>1. found \ Det = kept
    BY EnsembleAssumption
  <2>2. ASSUME NEW f \in Candidates, Confidence[f] >= 80
        PROVE  Cardinality({g \in kept : Spot[g] = Spot[f]}) = 1
    <3>1. PICK g \in kept : Spot[g] = Spot[f]
      BY <2>2
    <3>2. {h \in kept : Spot[h] = Spot[f]} = {g}
      BY <3>1
    <3> QED
      BY <3>2, FS_Singleton
  <2>3. \A f \in Candidates, g \in kept :
          (Confidence[f] >= 80 /\ Spot[g] = Spot[f]) =>
            \/ Place[g] < Place[f]
            \/ Place[g] = Place[f] /\ Confidence[g] >= Confidence[f]
    BY DEF SortsBefore
  <2> QED
    BY <2>1, <2>2, <2>3
<1> QED
  BY <1>1, EnsembleInvariant, PTL

(* The totals of the breakdown follow the weights of what was scored, in any order       *)
(* of the findings (risk_score.py:55-64).                                              *)
THEOREM TotalsAreRight == ESpec => []TotalsFollowWeights
BY EnsembleInvariant, PTL

(* The label of the summary and the merge gate agree (risk_score.py:67-74,              *)
(* policy.py:34-51): both have the limit 60 and both look at critical findings.          *)
THEOREM LabelAgrees == ESpec => []LabelAgreesWithGate
<1>1. ASSUME NEW score, NEW K
      PROVE  RiskLabel(score, K) \in {"critical", "high"} <=>
               (\E f \in K : Severity[f] = "critical") \/ score > 60
  BY DEF RiskLabel
<1>2. LabelAgreesWithGate
  BY <1>1 DEF LabelAgreesWithGate, Blocks
<1> QED
  BY <1>2, PTL

(* The stage is what the runner takes it for (runner.py:173-182): it ends in one step       *)
(* that adds findings on changed lines and removes none.                                *)
THEOREM ReviewRefinement == ESpec => ImplementsReview
<1> DEFINE done == phase = "score"
<1>1. EInit => Review!Init
  BY DEF EInit, Review!Init
<1>2. EInv /\ [ENext]_eVars => [Review!Finish]_<<found, done>>
  <2> SUFFICES ASSUME EInv, [ENext]_eVars
               PROVE  [Review!Finish]_<<found, done>>
    OBVIOUS
  <2>1. CASE Publish
    <3>1. /\ phase = "judge" /\ phase' = "score"
          /\ found' = found \cup answer["judge"] \/ found' = found \cup kept
      BY <2>1 DEF Publish
    <3>2. answer["judge"] \subseteq Changed /\ kept \subseteq Changed
      BY DEF EInv, ETypeOK, Roles
    <3> QED
      BY <3>1, <3>2 DEF Review!Finish
  <2>2. CASE Begin \/ Collect
    <3>1. phase # "score" /\ found' = found
      BY <2>2 DEF Begin, Collect
    <3> QED
      BY <3>1 DEF Review!Finish
  <2>3. CASE StoringFails \/ \E r \in Roles : ProbeRaises(r)
    <3>1. phase # "score" /\ phase' = "failed" /\ found' = found
      BY <2>3 DEF StoringFails, ProbeRaises, EInv, CallOK, Roles, Detectors
    <3> QED
      BY <3>1
  <2>4. CASE ~ (Publish \/ Begin \/ Collect \/ StoringFails \/ \E r \in Roles : ProbeRaises(r))
    <3>1. phase' = phase /\ found' = found
      BY <2>4 DEF ENext, EnsembleStep, eVars, Probe, Ask, ConsolidateOne, ScoreOne, Forget, StageUnchanged
    <3> QED
      BY <3>1
  <2> QED
    BY <2>1, <2>2, <2>3, <2>4
<1> QED
  BY <1>1, <1>2, EnsembleInvariant, PTL DEF ESpec, ImplementsReview, Review!Spec

=============================================================================
