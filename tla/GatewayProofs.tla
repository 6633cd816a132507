---------------------------- MODULE GatewayProofs ----------------------------
(***************************************************************************)
(* The gateway's promises about repeated, concurrent and failing deliveries,   *)
(* for every value of the constants and every set of faults.                 *)
(*                                                                         *)
(* The argument: of the requests with one dedupe key at most one is between its *)
(* claim and its row while no claim with that key lapses, and a key with such a *)
(* request has no row yet; what a request has done before the stage it is at    *)
(* stays done while it is in flight.                                         *)
(***************************************************************************)
EXTENDS WebhookGateway, TLAPS

(* What a request has found out and done when it is at its stage.               *)
ReqOK(r) ==
  /\ req[r] # Idle => event[req[r].d] # None /\ ReqEvent(r).kind # "malformed"
  /\ req[r] # Idle /\ ~ At(r, "verify") =>
       ReqEvent(r).signed /\ ReqEvent(r).kind \in {"pr", "comment"}
  /\ At(r, "dialog") => ReqEvent(r).kind = "comment"
  /\ req[r].pc \in {"insert", "stash", "activate", "enqueue"} => ReqEvent(r).kind = "pr"
  /\ At(r, "insert") =>
       /\ Key(r) \in claims
       /\ \A s \in Scans : (status[s] # "none" /\ OriginKey(s) = Key(r)) => Key(r) \in lapsed
       /\ \A q \in Reqs : (q # r /\ At(q, "insert") /\ Key(q) = Key(r)) => Key(r) \in lapsed
  /\ req[r].pc \in {"stash", "activate", "enqueue"} =>
       req[r].scan \in Scans /\ status[req[r].scan] = "queued" /\ origin[req[r].scan] = req[r].d
  /\ req[r].pc \in {"activate", "enqueue"} => req[r].scan \in stash
  /\ At(r, "enqueue") => active[ReqEvent(r).pr] # 0
  /\ At(r, "respond") =>
       ReqEvent(r).kind = "comment" \/ \E s \in Scans : origin[s] = req[r].d /\ job[s] # "none"

(* A row has a verified pull request event, whose key was claimed.              *)
ScanOK(s) ==
  /\ status[s] # "none" =>
       /\ origin[s] \in Deliveries /\ event[origin[s]] # None
       /\ Ev(s).signed /\ Ev(s).kind = "pr"
       /\ OriginKey(s) \in claims \cup lapsed
  /\ job[s] # "none" => status[s] # "none"

DeliveryOK(d) ==
  /\ (event[d] # None /\ event[d].kind = "pr") => event[d].head \in Heads
  /\ replies[d] # {} => event[d] # None
  /\ dialogs[d] > 0 => event[d] # None /\ event[d].signed
  /\ ("queued" \in replies[d] /\ event[d].kind = "pr") =>
       \E s \in Scans : origin[s] = d /\ job[s] # "none"

(* The work that a claim stands for was done, is under way, or failed.           *)
ClaimOK(k) ==
  /\ \E d \in Deliveries : event[d] # None /\ event[d].signed /\ DedupeKey(event[d]) = k
  /\ \/ \E d \in Deliveries :
          /\ event[d] # None /\ DedupeKey(event[d]) = k
          /\ event[d].kind = "comment" \/ "failed" \in replies[d]
     \/ \E s \in Scans : status[s] # "none" /\ OriginKey(s) = k /\ job[s] # "none"
     \/ \E r \in Reqs : req[r].pc \in {"insert", "stash", "activate", "enqueue"} /\ Key(r) = k

GwInv ==
  /\ GwTypeOK
  /\ \A r \in Reqs : ReqOK(r)
  /\ \A s \in Scans : ScanOK(s)
  /\ \A d \in Deliveries : DeliveryOK(d)
  /\ \A k \in claims : ClaimOK(k)
  /\ OneScanPerClaim

-----------------------------------------------------------------------------
(* Requests and keys.                                                        *)

(* A request that is at a stage is a request for a delivery.                    *)
LEMMA InFlight ==
  ASSUME GwTypeOK, NEW r \in Reqs
  PROVE  /\ req[r] # Idle => req[r] \in Request /\ req[r].d \in Deliveries /\ req[r].pc \in Steps
         /\ req[r].pc # "idle" => req[r] # Idle
         /\ req[r] = Idle => req[r].pc = "idle"
  BY DEF GwTypeOK, GatewayTypeOK, Request, Idle

(* The key of an event that was emitted is a key.                              *)
LEMMA KeyTypes ==
  ASSUME GwTypeOK, NEW d \in Deliveries, event[d] # None
  PROVE  /\ event[d] \in Event /\ event[d].pr \in PRs /\ event[d].head \in 0 .. MaxHead
         /\ DedupeKey(event[d]) \in Keys
<1>1. event[d] \in Event
  BY DEF GwTypeOK, HostTypeOK
<1> QED
  BY <1>1 DEF Event, DedupeKey, Keys

-----------------------------------------------------------------------------
(* The steps of the handler, by what they leave alone and what they add.         *)

(* A step of request r changes no other request and takes nothing back.          *)
LEMMA HandlerFrame ==
  ASSUME GwInv, NEW r \in Reqs,
         HandlerStep(r) \/ HandlerFails(r) \/ \E d \in Deliveries : Receive(r, d)
  PROVE  /\ \A q \in Reqs \ {r} : req'[q] = req[q]
         /\ UNCHANGED <<hostVars, lapsed>>
         /\ claims \subseteq claims' /\ stash \subseteq stash'
         /\ \A s \in Scans : status[s] # "none" => status'[s] = status[s] /\ origin'[s] = origin[s]
         /\ \A s \in Scans : job[s] # "none" => job'[s] # "none"
         /\ \A d \in Deliveries : replies[d] \subseteq replies'[d]
<1> USE DEF GwInv, GwTypeOK, GatewayTypeOK, StoreTypeOK
<1>1. ASSUME NEW d \in Deliveries, Receive(r, d) PROVE \A e \in Deliveries : replies[e] \subseteq replies'[e]
  BY <1>1 DEF Receive
<1>2. ASSUME NEW a, Answer(r, a) PROVE \A e \in Deliveries : replies[e] \subseteq replies'[e]
  BY <1>2 DEF Answer
<1>3. CASE \E d \in Deliveries : Receive(r, d)
  BY <1>1, <1>3 DEF Receive, hostVars, storeVars
<1>4. CASE HandlerFails(r) \/ Respond(r)
  BY <1>2, <1>4 DEF HandlerFails, Respond, Answer, hostVars, storeVars
<1>5. CASE Verify(r) \/ Claim(r)
  BY <1>2, <1>5 DEF Verify, Claim, Answer, GoTo, hostVars, storeVars
<1>6. CASE EnqueueDialog(r) \/ StashEvent(r) \/ ActivateHead(r)
  BY <1>6 DEF EnqueueDialog, StashEvent, ActivateHead, GoTo, hostVars, storeVars
<1>7. CASE InsertRow(r)
  BY <1>7 DEF InsertRow, hostVars
<1>8. CASE EnqueueJob(r)
  BY <1>8 DEF EnqueueJob, GoTo, hostVars
<1> QED
  BY <1>3, <1>4, <1>5, <1>6, <1>7, <1>8 DEF HandlerStep

(* What it adds comes from the stage it is at.                                 *)
LEMMA HandlerAdds ==
  ASSUME GwInv, NEW r \in Reqs,
         HandlerStep(r) \/ HandlerFails(r) \/ \E d \in Deliveries : Receive(r, d)
  PROVE  /\ \A k \in claims' \ claims : At(r, "claim") /\ k = Key(r)
         /\ \A s \in Scans : (status[s] = "none" /\ status'[s] # "none") =>
              At(r, "insert") /\ origin'[s] = req[r].d
         /\ \A s \in Scans : status[s] = "none" /\ status'[s] = "none" => origin'[s] = origin[s]
         /\ \A s, t \in Scans : (/\ s # t /\ status[s] = "none" /\ status'[s] # "none"
                                 /\ status'[t] # "none") => status[t] # "none"
         /\ \A s \in Scans : (job[s] = "none" /\ job'[s] # "none") =>
              At(r, "enqueue") /\ s = req[r].scan
         /\ \A d \in Deliveries : dialogs'[d] # dialogs[d] => At(r, "dialog") /\ d = req[r].d
         /\ \A p \in PRs : active'[p] # active[p] =>
              At(r, "activate") /\ active'[p] = ReqEvent(r).head
<1> USE DEF GwInv, GwTypeOK, GatewayTypeOK, StoreTypeOK, storeVars
<1>1. CASE \E d \in Deliveries : Receive(r, d)
  BY <1>1 DEF Receive
<1>2. CASE HandlerFails(r) \/ Respond(r) \/ Verify(r)
  BY <1>2 DEF HandlerFails, Respond, Verify
<1>3. CASE Claim(r)
  BY <1>3 DEF Claim
<1>4. CASE EnqueueDialog(r)
  BY <1>4 DEF EnqueueDialog
<1>5. CASE StashEvent(r) \/ ActivateHead(r)
  BY <1>5 DEF StashEvent, ActivateHead
<1>6. CASE InsertRow(r)
  BY <1>6 DEF InsertRow
<1>7. CASE EnqueueJob(r)
  BY <1>7 DEF EnqueueJob
<1> QED
  BY <1>1, <1>2, <1>3, <1>4, <1>5, <1>6, <1>7 DEF HandlerStep

(* Only a first claim brings a request to the insertion of its row.              *)
LEMMA InsertComes ==
  ASSUME GwInv, NEW r \in Reqs,
         HandlerStep(r) \/ HandlerFails(r) \/ \E d \in Deliveries : Receive(r, d),
         At(r, "insert")'
  PROVE  At(r, "claim") /\ FirstClaim(r) /\ Key(r)' = Key(r)
<1> USE DEF GwInv, GwTypeOK, GatewayTypeOK, At
<1>1. ASSUME NEW a, Answer(r, a) PROVE FALSE
  BY <1>1 DEF Answer, Idle
<1>2. ASSUME NEW pc, GoTo(r, pc), req[r] # Idle PROVE req'[r].pc = pc /\ req'[r].d = req[r].d
  BY <1>2 DEF GoTo, Request
<1>3. CASE \E d \in Deliveries : Receive(r, d)
  BY <1>3 DEF Receive, Idle
<1>4. CASE HandlerFails(r) \/ Respond(r)
  BY <1>1, <1>4 DEF HandlerFails, Respond
<1>5. CASE Verify(r)
  BY <1>1, <1>2, <1>5 DEF Verify, Idle
<1>6. CASE Claim(r)
  BY <1>1, <1>2, <1>6 DEF Claim, Idle, Key, ReqEvent, hostVars
<1>7. CASE EnqueueDialog(r) \/ StashEvent(r) \/ ActivateHead(r) \/ EnqueueJob(r)
  BY <1>2, <1>7 DEF EnqueueDialog, StashEvent, ActivateHead, EnqueueJob, Idle, After
<1>8. CASE InsertRow(r)
  <2>1. req'[r].pc = "stash"
    BY <1>8 DEF InsertRow, Idle, Request, After
  <2> QED
    BY <2>1
<1> QED
  BY <1>3, <1>4, <1>5, <1>6, <1>7, <1>8 DEF HandlerStep

Acts(r) == HandlerStep(r) \/ HandlerFails(r) \/ \E d \in Deliveries : Receive(r, d)

(* The other requests keep what was said of them; in particular no second request  *)
(* with the same key comes past the claim.                                     *)
LEMMA OtherRequests ==
  ASSUME GwInv, NEW r \in Reqs, Acts(r), NEW q \in Reqs, q # r
  PROVE  ReqOK(q)'
<1> USE DEF GwInv
<1>1. /\ req'[q] = req[q] /\ UNCHANGED <<hostVars, lapsed>>
      /\ claims \subseteq claims' /\ stash \subseteq stash'
      /\ \A s \in Scans : status[s] # "none" => status'[s] = status[s] /\ origin'[s] = origin[s]
      /\ \A s \in Scans : job[s] # "none" => job'[s] # "none" /\ status[s] # "none"
  BY HandlerFrame DEF Acts, ScanOK
<1>2. /\ \A s \in Scans : (status[s] = "none" /\ status'[s] # "none") =>
             At(r, "insert") /\ origin'[s] = req[r].d
      /\ \A p \in PRs : active'[p] # active[p] => At(r, "activate") /\ active'[p] = ReqEvent(r).head
  BY HandlerAdds DEF Acts
<1>3. ReqOK(q) /\ ReqOK(r)
  OBVIOUS
<1>4. event' = event /\ ReqEvent(q)' = ReqEvent(q) /\ Key(q)' = Key(q)
  BY <1>1 DEF ReqEvent, Key, hostVars
<1>5. \A pc : At(q, pc)' = At(q, pc)
  BY <1>1 DEF At
<1>6. ASSUME At(q, "insert"), NEW s \in Scans, status'[s] # "none", OriginKey(s)' = Key(q)
      PROVE  Key(q) \in lapsed
  <2>1. CASE status[s] # "none"
    <3>1. OriginKey(s) = Key(q)
      BY <1>1, <1>4, <1>6, <2>1 DEF OriginKey, Ev
    <3> QED
      BY <1>3, <1>6, <2>1, <3>1 DEF ReqOK
  <2>2. CASE status[s] = "none"
    <3>1. At(r, "insert") /\ Key(r) = Key(q)
      BY <1>2, <1>4, <1>6, <2>2 DEF OriginKey, Ev, Key, ReqEvent
    <3> QED
      BY <1>3, <1>6, <3>1 DEF ReqOK
  <2> QED
    BY <2>1, <2>2
<1>7. ASSUME At(q, "insert"), NEW o \in Reqs, o # q, At(o, "insert")', Key(o)' = Key(q)
      PROVE  Key(q) \in lapsed
  <2>1. CASE At(o, "insert") /\ req'[o] = req[o]
    <3>1. Key(o) = Key(q)
      BY <1>4, <1>7, <2>1 DEF Key, ReqEvent
    <3> QED
      BY <1>3, <1>7, <2>1, <3>1 DEF ReqOK
  <2>2. CASE ~ (At(o, "insert") /\ req'[o] = req[o])
    <3>1. o = r
      BY <1>7, <2>2, HandlerFrame DEF Acts, At
    <3>2. At(r, "claim") /\ FirstClaim(r) /\ Key(r)' = Key(r)
      BY <1>7, <3>1, InsertComes DEF Acts, At
    <3> QED
      BY <1>3, <1>7, <3>1, <3>2 DEF ReqOK, FirstClaim
  <2> QED
    BY <2>1, <2>2
<1>8. At(q, "enqueue") => active'[ReqEvent(q).pr] # 0
  <2> SUFFICES ASSUME At(q, "enqueue") PROVE active'[ReqEvent(q).pr] # 0
    OBVIOUS
  <2>1. active[ReqEvent(q).pr] # 0 /\ ReqEvent(q).pr \in PRs
    BY <1>3, InFlight, KeyTypes DEF ReqOK, ReqEvent, At
  <2>2. At(r, "activate") => ReqEvent(r).head \in Heads
    BY <1>3, InFlight DEF ReqOK, ReqEvent, At, DeliveryOK
  <2> QED
    BY <1>2, <2>1, <2>2 DEF Heads
<1>9. /\ req[q] # Idle => event[req[q].d] # None /\ ReqEvent(q).kind # "malformed"
      /\ req[q] # Idle /\ ~ At(q, "verify") =>
           ReqEvent(q).signed /\ ReqEvent(q).kind \in {"pr", "comment"}
      /\ At(q, "dialog") => ReqEvent(q).kind = "comment"
      /\ req[q].pc \in {"insert", "stash", "activate", "enqueue"} => ReqEvent(q).kind = "pr"
      /\ At(q, "insert") => Key(q) \in claims'
      /\ req[q].pc \in {"stash", "activate", "enqueue"} =>
           /\ req[q].scan \in Scans /\ status'[req[q].scan] = "queued"
           /\ origin'[req[q].scan] = req[q].d
      /\ req[q].pc \in {"activate", "enqueue"} => req[q].scan \in stash'
      /\ At(q, "respond") =>
           ReqEvent(q).kind = "comment" \/ \E s \in Scans : origin'[s] = req[q].d /\ job'[s] # "none"
  BY <1>1, <1>3 DEF ReqOK
<1> QED
  BY <1>1, <1>4, <1>5, <1>6, <1>7, <1>8, <1>9 DEF ReqOK

-----------------------------------------------------------------------------
(* The tables.                                                               *)

(* Rows are inserted for verified pull request events, each for a key that is     *)
(* claimed.                                                                  *)
LEMMA RowsStay ==
  ASSUME GwInv, NEW r \in Reqs, Acts(r)
  PROVE  /\ \A s \in Scans : ScanOK(s)'
         /\ \A s \in Scans : status[s] # "none" => OriginKey(s)' = OriginKey(s)
         /\ OneScanPerClaim'
<1> USE DEF GwInv
<1>1. /\ UNCHANGED <<hostVars, lapsed>> /\ event' = event /\ claims \subseteq claims'
      /\ \A s \in Scans : status[s] # "none" => status'[s] = status[s] /\ origin'[s] = origin[s]
  BY HandlerFrame DEF Acts, hostVars
<1>2. /\ \A s \in Scans : (status[s] = "none" /\ status'[s] # "none") =>
             At(r, "insert") /\ origin'[s] = req[r].d
      /\ \A s, t \in Scans : (/\ s # t /\ status[s] = "none" /\ status'[s] # "none"
                              /\ status'[t] # "none") => status[t] # "none"
      /\ \A s \in Scans : (job[s] = "none" /\ job'[s] # "none") =>
             At(r, "enqueue") /\ s = req[r].scan
  BY HandlerAdds DEF Acts
<1>3. \A s \in Scans : status[s] # "none" => OriginKey(s)' = OriginKey(s) /\ Ev(s)' = Ev(s)
  BY <1>1 DEF OriginKey, Ev
<1>4. ReqOK(r) /\ (req[r] # Idle => req[r].d \in Deliveries) /\ (req[r].pc # "idle" => req[r] # Idle)
  BY InFlight
<1>5. ASSUME NEW s \in Scans, status[s] = "none", status'[s] # "none"
      PROVE  /\ origin'[s] \in Deliveries /\ event[origin'[s]] # None
             /\ Ev(s)'.signed /\ Ev(s)'.kind = "pr"
             /\ OriginKey(s)' = Key(r) /\ Key(r) \in claims /\ At(r, "insert")
  <2>1. At(r, "insert") /\ origin'[s] = req[r].d /\ req[r] # Idle
    BY <1>2, <1>4, <1>5 DEF At
  <2>2. Ev(s)' = ReqEvent(r) /\ OriginKey(s)' = Key(r)
    BY <1>1, <2>1 DEF OriginKey, Ev, Key, ReqEvent
  <2> QED
    BY <1>4, <2>1, <2>2 DEF ReqOK, At
<1>6. ASSUME NEW s \in Scans PROVE ScanOK(s)'
  <2>1. job'[s] # "none" => status[s] # "none"
    BY <1>2, <1>4 DEF ReqOK, ScanOK, At
  <2>2. CASE status[s] = "none"
    BY <1>1, <1>5, <2>1, <2>2 DEF ScanOK
  <2>3. CASE status[s] # "none"
    BY <1>1, <1>3, <2>3 DEF ScanOK
  <2> QED
    BY <2>2, <2>3
<1>7. ASSUME NEW s \in Scans, NEW t \in Scans, s # t, status'[s] # "none", status'[t] # "none",
             OriginKey(s)' = OriginKey(t)'
      PROVE  OriginKey(s)' \in lapsed
  <2>1. CASE status[s] # "none" /\ status[t] # "none"
    BY <1>3, <1>7, <2>1 DEF OneScanPerClaim
  <2>2. CASE status[s] = "none"
    <3>1. status[t] # "none" /\ At(r, "insert") /\ OriginKey(s)' = Key(r) /\ OriginKey(t) = Key(r)
      BY <1>2, <1>3, <1>5, <1>7, <2>2
    <3> QED
      BY <1>4, <3>1 DEF ReqOK
  <2>3. CASE status[t] = "none"
    <3>1. status[s] # "none" /\ At(r, "insert") /\ OriginKey(t)' = Key(r) /\ OriginKey(s) = Key(r)
      BY <1>2, <1>3, <1>5, <1>7, <2>3
    <3> QED
      BY <1>4, <1>7, <3>1 DEF ReqOK
  <2> QED
    BY <2>1, <2>2, <2>3
<1>8. OneScanPerClaim'
  BY <1>1, <1>7 DEF OneScanPerClaim
<1> QED
  BY <1>3, <1>6, <1>8

-----------------------------------------------------------------------------
(* The request that takes the step.                                          *)

(* A request that is answered leaves its slot.                                 *)
LEMMA AnsweredOK ==
  ASSUME GwTypeOK, NEW r \in Reqs, NEW a, Answer(r, a)
  PROVE  req'[r] = Idle /\ ReqOK(r)'
<1>1. req'[r] = Idle
  BY DEF Answer, GwTypeOK, GatewayTypeOK
<1> QED
  BY <1>1 DEF ReqOK, Idle, At

(* A request that goes on stays one for its delivery and scan.                   *)
LEMMA GoOn ==
  ASSUME GwTypeOK, NEW r \in Reqs, req[r] # Idle, NEW pc \in Steps, GoTo(r, pc), event' = event
  PROVE  /\ req'[r].pc = pc /\ req'[r].d = req[r].d /\ req'[r].scan = req[r].scan
         /\ req'[r] # Idle /\ ReqEvent(r)' = ReqEvent(r) /\ Key(r)' = Key(r)
<1>1. req[r] \in Request /\ req \in [Reqs -> Request \cup {Idle}]
  BY InFlight DEF GwTypeOK, GatewayTypeOK
<1>2. req'[r].pc = pc /\ req'[r].d = req[r].d /\ req'[r].scan = req[r].scan
  BY <1>1 DEF GoTo, Request
<1> QED
  BY <1>2 DEF ReqEvent, Key, Idle, Steps

(* Up to the claim a request has only been looked at.                            *)
LEMMA FirstSteps ==
  ASSUME GwInv, NEW r \in Reqs,
         (\E d \in Deliveries : Receive(r, d)) \/ Verify(r) \/ Claim(r)
  PROVE  ReqOK(r)'
<1> USE DEF GwInv
<1>1. event' = event /\ UNCHANGED <<status, origin, lapsed>> /\ ReqOK(r)
  BY DEF Receive, Verify, Claim, hostVars, storeVars
<1>2. ASSUME NEW d \in Deliveries, Receive(r, d) PROVE ReqOK(r)'
  <2>1. CASE event[d].kind # "malformed"
    <3>1. /\ req'[r].pc = "verify" /\ req'[r].d = d
          /\ event[d] # None /\ event[d].kind # "malformed"
      BY <1>2, <2>1 DEF Receive, GwTypeOK, GatewayTypeOK
    <3> QED
      BY <1>1, <3>1 DEF ReqOK, At, ReqEvent
  <2>2. CASE event[d].kind = "malformed"
    <3>1. req'[r] = Idle
      BY <1>2, <2>2 DEF Receive
    <3> QED
      BY <3>1 DEF ReqOK, Idle, At
  <2> QED
    BY <2>1, <2>2
<1>3. CASE Verify(r)
  <2>1. req[r] # Idle
    BY <1>3 DEF Verify, At, Idle
  <2>2. CASE Authentic(r) /\ ReqEvent(r).kind # "ignored" /\ GoTo(r, "claim")
    <3>1. req'[r].pc = "claim" /\ req'[r].d = req[r].d /\ ReqEvent(r)' = ReqEvent(r)
      BY <1>1, <2>1, <2>2, GoOn DEF Steps
    <3>2. ReqEvent(r).kind \in {"pr", "comment"}
      BY <1>1, <2>1, <2>2, InFlight, KeyTypes DEF ReqOK, ReqEvent, Event, Kinds
    <3> QED
      BY <1>1, <2>1, <2>2, <3>1, <3>2 DEF ReqOK, At, Authentic
  <2> QED
    BY <1>3, <2>2, AnsweredOK DEF Verify
<1>4. CASE Claim(r)
  <2>1. req[r] # Idle /\ At(r, "claim")
    BY <1>4 DEF Claim, At, Idle
  <2>2. CASE FirstClaim(r) /\ claims' = claims \cup {Key(r)} /\ GoTo(r, ClaimedStep(r))
    <3>1. ClaimedStep(r) = IF IsComment(r) THEN "dialog" ELSE "insert"
      BY DEF ClaimedStep, After
    <3>2. /\ req'[r].pc = ClaimedStep(r) /\ req'[r].d = req[r].d
          /\ ReqEvent(r)' = ReqEvent(r) /\ Key(r)' = Key(r)
      BY <1>1, <2>1, <2>2, <3>1, GoOn DEF Steps
    <3>3. ReqEvent(r).signed /\ ReqEvent(r).kind \in {"pr", "comment"} /\ event[req[r].d] # None
      BY <1>1, <2>1 DEF ReqOK, At
    <3>4. ASSUME NEW s \in Scans, status[s] # "none", OriginKey(s)' = Key(r) PROVE Key(r) \in lapsed
      BY <1>1, <2>2, <3>4 DEF ScanOK, FirstClaim, OriginKey, Ev
    <3>5. ASSUME NEW q \in Reqs, q # r, At(q, "insert")', Key(q)' = Key(r) PROVE FALSE
      <4>1. req'[q] = req[q]
        BY <2>2, <3>5 DEF GoTo, GwTypeOK, GatewayTypeOK
      <4>2. At(q, "insert") /\ Key(q) = Key(r)
        BY <1>1, <3>5, <4>1 DEF At, Key, ReqEvent
      <4> QED
        BY <2>2, <4>2 DEF ReqOK, FirstClaim
    <3> QED
      BY <1>1, <2>2, <3>1, <3>2, <3>3, <3>4, <3>5 DEF ReqOK, At, IsComment
  <2> QED
    BY <1>4, <2>2, AnsweredOK DEF Claim
<1> QED
  BY <1>2, <1>3, <1>4

(* From the claim on every stage rests on what the ones before it did.            *)
LEMMA LaterSteps ==
  ASSUME GwInv, NEW r \in Reqs,
         \/ EnqueueDialog(r) \/ InsertRow(r) \/ StashEvent(r) \/ ActivateHead(r)
         \/ EnqueueJob(r) \/ Respond(r) \/ HandlerFails(r)
  PROVE  ReqOK(r)'
<1> USE DEF GwInv
<1>1. event' = event /\ ReqOK(r) /\ (req[r] # Idle => req[r] \in Request /\ req[r].d \in Deliveries)
  BY InFlight DEF EnqueueDialog, InsertRow, StashEvent, ActivateHead, EnqueueJob, Respond, HandlerFails, hostVars
<1>2. CASE EnqueueDialog(r)
  <2>1. At(r, "dialog") /\ req[r] # Idle
    BY <1>2 DEF EnqueueDialog, At, Idle
  <2>2. req'[r].pc = "respond" /\ req'[r].d = req[r].d /\ ReqEvent(r)' = ReqEvent(r)
    BY <1>1, <1>2, <2>1, GoOn DEF EnqueueDialog, Steps
  <2>3. /\ event[req[r].d] # None /\ ReqEvent(r).signed
        /\ ReqEvent(r).kind = "comment"
    BY <1>1, <2>1 DEF ReqOK, At
  <2> QED
    BY <1>1, <2>2, <2>3 DEF ReqOK, At
<1>3. CASE InsertRow(r)
  <2>1. At(r, "insert") /\ req[r] # Idle
    <3>1. At(r, "insert")
      BY <1>3 DEF InsertRow
    <3> QED
      BY <3>1 DEF At, Idle
  <2>2. PICK s \in Scans :
          /\ status' = [status EXCEPT ![s] = "queued"]
          /\ origin' = [origin EXCEPT ![s] = req[r].d]
          /\ req' = [req EXCEPT ![r] = [req[r] EXCEPT !.pc = After["insert"], !.scan = s]]
    BY <1>3 DEF InsertRow
  <2>3. /\ req'[r].pc = "stash" /\ req'[r].d = req[r].d /\ req'[r].scan = s
        /\ status'[s] = "queued" /\ origin'[s] = req[r].d /\ ReqEvent(r)' = ReqEvent(r)
    BY <1>1, <2>1, <2>2 DEF GwTypeOK, GatewayTypeOK, StoreTypeOK, Request, After, ReqEvent
  <2> QED
    BY <1>1, <2>1, <2>3 DEF ReqOK, At
<1>4. CASE StashEvent(r)
  <2>1. At(r, "stash") /\ req[r] # Idle
    BY <1>4 DEF StashEvent, At, Idle
  <2>2. /\ req'[r].pc = "activate" /\ req'[r].d = req[r].d /\ req'[r].scan = req[r].scan
        /\ ReqEvent(r)' = ReqEvent(r)
    BY <1>1, <1>4, <2>1, GoOn DEF StashEvent, Steps, After
  <2> QED
    BY <1>1, <1>4, <2>1, <2>2 DEF ReqOK, At, StashEvent
<1>5. CASE ActivateHead(r)
  <2>1. At(r, "activate") /\ req[r] # Idle
    BY <1>5 DEF ActivateHead, At, Idle
  <2>2. /\ req'[r].pc = "enqueue" /\ req'[r].d = req[r].d /\ req'[r].scan = req[r].scan
        /\ ReqEvent(r)' = ReqEvent(r)
    BY <1>1, <1>5, <2>1, GoOn DEF ActivateHead, Steps, After
  <2>3. ReqEvent(r).head \in Heads /\ ReqEvent(r).pr \in PRs
    BY <1>1, <2>1, KeyTypes DEF ReqOK, ReqEvent, At, DeliveryOK
  <2>4. active'[ReqEvent(r).pr] # 0
    BY <1>5, <2>3 DEF ActivateHead, GwTypeOK, StoreTypeOK, Heads
  <2> QED
    BY <1>1, <1>5, <2>1, <2>2, <2>4 DEF ReqOK, At, ActivateHead
<1>6. CASE EnqueueJob(r)
  <2>1. At(r, "enqueue") /\ req[r] # Idle
    BY <1>6 DEF EnqueueJob, At, Idle
  <2>2. /\ req'[r].pc = "respond" /\ req'[r].d = req[r].d /\ ReqEvent(r)' = ReqEvent(r)
    BY <1>1, <1>6, <2>1, GoOn DEF EnqueueJob, Steps, After
  <2>3. req[r].scan \in Scans /\ origin'[req[r].scan] = req[r].d /\ job'[req[r].scan] # "none"
    BY <1>1, <1>6, <2>1 DEF EnqueueJob, ReqOK, At, GwTypeOK, StoreTypeOK
  <2> QED
    BY <1>1, <2>1, <2>2, <2>3 DEF ReqOK, At
<1>7. CASE Respond(r) \/ HandlerFails(r)
  BY <1>7, AnsweredOK DEF Respond, HandlerFails
<1> QED
  BY <1>2, <1>3, <1>4, <1>5, <1>6, <1>7

-----------------------------------------------------------------------------
(* Answers and claims.                                                       *)

(* "queued" is said to a comment event, or by a request whose job is enqueued.    *)
LEMMA AnswersGiven ==
  ASSUME GwInv, NEW r \in Reqs, Acts(r), NEW d \in Deliveries, replies'[d] # replies[d]
  PROVE  /\ event[d] # None
         /\ ("queued" \in replies'[d] /\ "queued" \notin replies[d]) =>
              (d = req[r].d /\ At(r, "respond")) \/ event[d].kind = "comment"
<1> USE DEF GwInv
<1>1. ASSUME NEW a, Answer(r, a), req[r] # Idle
      PROVE  /\ d = req[r].d /\ event[d] # None
             /\ replies'[d] = replies[d] \cup {a}
  BY <1>1, InFlight DEF Answer, GwTypeOK, GatewayTypeOK, ReqOK
<1>2. \A pc \in Steps : At(r, pc) => req[r] # Idle
  BY DEF At, Idle, Steps
<1>3. ASSUME NEW e \in Deliveries, Receive(r, e) PROVE d = e /\ replies'[d] = replies[d] \cup {"refused"}
  BY <1>3 DEF Receive, GwTypeOK, GatewayTypeOK
<1>4. CASE \E e \in Deliveries : Receive(r, e)
  <2>1. PICK e \in Deliveries : Receive(r, e)
    BY <1>4
  <2>2. d = e /\ replies'[d] = replies[d] \cup {"refused"} /\ event[e] # None
    BY <1>3, <2>1 DEF Receive
  <2> QED
    BY <2>2
<1>5. CASE HandlerFails(r)
  BY <1>1, <1>5 DEF HandlerFails
<1>6. CASE Respond(r)
  BY <1>1, <1>2, <1>6 DEF Respond, Steps
<1>7. CASE Verify(r)
  <2>1. At(r, "verify") /\ (Answer(r, "unauthorized") \/ Answer(r, "ignored"))
    BY <1>7 DEF Verify
  <2> QED
    BY <1>1, <1>2, <2>1 DEF Steps
<1>8. CASE Claim(r)
  <2>1. At(r, "claim") /\ Answer(r, RepeatAnswer(r))
    BY <1>8 DEF Claim
  <2>2. d = req[r].d /\ event[d] # None /\ replies'[d] = replies[d] \cup {RepeatAnswer(r)}
    BY <1>1, <1>2, <2>1 DEF Steps
  <2> QED
    BY <2>2 DEF RepeatAnswer, IsComment, ReqEvent
<1>9. ~ (EnqueueDialog(r) \/ InsertRow(r) \/ StashEvent(r) \/ ActivateHead(r) \/ EnqueueJob(r))
  BY DEF EnqueueDialog, InsertRow, StashEvent, ActivateHead, EnqueueJob
<1> QED
  BY <1>4, <1>5, <1>6, <1>7, <1>8, <1>9 DEF Acts, HandlerStep

(* What was said to the host stays true.                                      *)
LEMMA DeliveriesStay ==
  ASSUME GwInv, NEW r \in Reqs, Acts(r), NEW d \in Deliveries
  PROVE  DeliveryOK(d)'
<1> USE DEF GwInv
<1>1. /\ event' = event
      /\ \A s \in Scans : job[s] # "none" => job'[s] # "none" /\ origin'[s] = origin[s]
  BY HandlerFrame DEF Acts, hostVars, ScanOK
<1>2. DeliveryOK(d) /\ ReqOK(r)
  OBVIOUS
<1>3. replies'[d] # {} => event[d] # None
  BY <1>2, AnswersGiven DEF DeliveryOK
<1>4. dialogs'[d] > 0 => event[d] # None /\ event[d].signed
  <2>1. CASE dialogs'[d] = dialogs[d]
    BY <1>2, <2>1 DEF DeliveryOK
  <2>2. CASE dialogs'[d] # dialogs[d]
    <3>1. At(r, "dialog") /\ d = req[r].d
      BY <2>2, HandlerAdds DEF Acts
    <3> QED
      BY <1>2, <3>1 DEF ReqOK, At, Idle, ReqEvent
  <2> QED
    BY <2>1, <2>2
<1>5. ASSUME "queued" \in replies'[d], event[d].kind = "pr"
      PROVE  \E s \in Scans : origin'[s] = d /\ job'[s] # "none"
  <2>1. CASE "queued" \in replies[d]
    BY <1>1, <1>2, <1>5, <2>1 DEF DeliveryOK
  <2>2. CASE "queued" \notin replies[d]
    <3>1. d = req[r].d /\ At(r, "respond")
      BY <1>5, <2>2, AnswersGiven
    <3> QED
      BY <1>1, <1>2, <1>5, <3>1 DEF ReqOK, ReqEvent
  <2> QED
    BY <2>1, <2>2
<1> QED
  BY <1>1, <1>2, <1>3, <1>4, <1>5 DEF DeliveryOK

Underway(r) == req[r].pc \in {"insert", "stash", "activate", "enqueue"}

(* A request that is under way goes on, has its job enqueued, or fails.           *)
LEMMA UnderwayGoesOn ==
  ASSUME GwInv, NEW r \in Reqs, Acts(r), Underway(r)
  PROVE  \/ Underway(r)' /\ Key(r)' = Key(r)
         \/ "failed" \in replies'[req[r].d]
         \/ /\ status[req[r].scan] # "none" /\ req[r].scan \in Scans
            /\ OriginKey(req[r].scan) = Key(r) /\ job'[req[r].scan] # "none"
<1> USE DEF GwInv
<1>1. /\ req[r] # Idle /\ req[r] \in Request /\ req[r].d \in Deliveries /\ event' = event
      /\ ReqOK(r)
  BY InFlight, HandlerFrame DEF Underway, Idle, Acts, hostVars
<1>2. CASE HandlerFails(r)
  BY <1>1, <1>2 DEF HandlerFails, Answer, GwTypeOK, GatewayTypeOK
<1>3. CASE InsertRow(r)
  <2>1. req'[r].pc = "stash" /\ req'[r].d = req[r].d
    BY <1>1, <1>3 DEF InsertRow, GwTypeOK, GatewayTypeOK, Request, After
  <2> QED
    BY <1>1, <2>1 DEF Underway, Key, ReqEvent
<1>4. CASE StashEvent(r) \/ ActivateHead(r)
  BY <1>1, <1>4, GoOn DEF StashEvent, ActivateHead, Steps, After, Underway
<1>5. CASE EnqueueJob(r)
  <2>1. /\ req[r].scan \in Scans /\ origin[req[r].scan] = req[r].d
        /\ status[req[r].scan] = "queued"
    BY <1>1, <1>5 DEF EnqueueJob, ReqOK, At
  <2>2. job'[req[r].scan] = "queued"
    BY <1>5, <2>1 DEF EnqueueJob, GwTypeOK, StoreTypeOK
  <2> QED
    BY <2>1, <2>2 DEF OriginKey, Ev, Key, ReqEvent
<1>6. CASE \E d \in Deliveries : Receive(r, d)
  BY <1>1, <1>6 DEF Receive
<1>7. CASE Verify(r) \/ Claim(r) \/ EnqueueDialog(r) \/ Respond(r)
  BY <1>7 DEF Verify, Claim, EnqueueDialog, Respond, At, Underway
<1> QED
  BY <1>2, <1>3, <1>4, <1>5, <1>6, <1>7 DEF Acts, HandlerStep

(* A new claim sends its request to the row, or to the dialog.                  *)
LEMMA ClaimAdds ==
  ASSUME GwInv, NEW r \in Reqs, Acts(r), ~ IsComment(r), NEW k \in claims', k \notin claims
  PROVE  GoTo(r, "insert")
<1>1. Claim(r)
  BY DEF Acts, HandlerStep, HandlerFails, Receive, Verify, EnqueueDialog, InsertRow, StashEvent,
         ActivateHead, EnqueueJob, Respond
<1> QED
  BY <1>1 DEF Claim, ClaimedStep, After

(* The work that a key stands for goes on or stays done.                         *)
LEMMA WorkStays ==
  ASSUME GwInv, NEW r \in Reqs, Acts(r), NEW k, ClaimOK(k)
  PROVE  ClaimOK(k)'
<1> USE DEF GwInv
<1>1. /\ event' = event /\ \A q \in Reqs \ {r} : req'[q] = req[q]
      /\ \A s \in Scans : status[s] # "none" => status'[s] = status[s]
      /\ \A s \in Scans : job[s] # "none" => job'[s] # "none"
      /\ \A d \in Deliveries : replies[d] \subseteq replies'[d]
  BY HandlerFrame DEF Acts, hostVars
<1>2. \A s \in Scans : status[s] # "none" => OriginKey(s)' = OriginKey(s)
  BY RowsStay
<1>3. ClaimOK(k)
  OBVIOUS
<1>4. \E d \in Deliveries : event'[d] # None /\ event'[d].signed /\ DedupeKey(event'[d]) = k
  BY <1>1, <1>3 DEF ClaimOK
<1>5. CASE \E d \in Deliveries :
             /\ event[d] # None /\ DedupeKey(event[d]) = k
             /\ event[d].kind = "comment" \/ "failed" \in replies[d]
  BY <1>1, <1>4, <1>5 DEF ClaimOK
<1>6. CASE \E s \in Scans : status[s] # "none" /\ OriginKey(s) = k /\ job[s] # "none"
  BY <1>1, <1>2, <1>4, <1>6 DEF ClaimOK
<1>7. ASSUME NEW q \in Reqs, Underway(q), Key(q) = k PROVE ClaimOK(k)'
  <2>1. CASE q # r
    <3>1. Underway(q)' /\ Key(q)' = k
      BY <1>1, <1>7, <2>1 DEF Underway, Key, ReqEvent
    <3> QED
      BY <1>4, <3>1 DEF ClaimOK, Underway
  <2>2. CASE q = r
    <3>1. req[r].d \in Deliveries /\ event[req[r].d] # None /\ DedupeKey(event[req[r].d]) = k
      BY <1>7, <2>2, InFlight DEF Underway, ReqOK, Key, ReqEvent, Idle
    <3>2. CASE Underway(r)' /\ Key(r)' = Key(r)
      BY <1>4, <1>7, <2>2, <3>2 DEF ClaimOK, Underway
    <3>3. CASE "failed" \in replies'[req[r].d]
      BY <1>1, <1>4, <3>1, <3>3 DEF ClaimOK
    <3>4. CASE /\ status[req[r].scan] # "none" /\ req[r].scan \in Scans
               /\ OriginKey(req[r].scan) = Key(r) /\ job'[req[r].scan] # "none"
      BY <1>1, <1>2, <1>4, <1>7, <2>2, <3>4 DEF ClaimOK
    <3> QED
      BY <1>7, <2>2, <3>2, <3>3, <3>4, UnderwayGoesOn
  <2> QED
    BY <2>1, <2>2
<1> QED
  BY <1>3, <1>5, <1>6, <1>7 DEF ClaimOK, Underway

(* Every claim stays explained.                                              *)
LEMMA ClaimsStay ==
  ASSUME GwInv, NEW r \in Reqs, Acts(r), NEW k \in claims'
  PROVE  ClaimOK(k)'
<1> USE DEF GwInv
<1>1. event' = event /\ \A q \in Reqs \ {r} : req'[q] = req[q]
  BY HandlerFrame DEF Acts, hostVars
<1>2. CASE k \in claims
  BY <1>2, WorkStays
<1>3. CASE k \notin claims
  <2>1. At(r, "claim") /\ k = Key(r)
    BY <1>3, HandlerAdds DEF Acts
  <2>2. /\ req[r] # Idle /\ req[r].d \in Deliveries /\ event[req[r].d] # None
        /\ ReqEvent(r).signed /\ ReqEvent(r).kind \in {"pr", "comment"}
    BY <2>1, InFlight DEF ReqOK, At, Idle
  <2>3. CASE IsComment(r)
    BY <1>1, <2>1, <2>2, <2>3 DEF ClaimOK, IsComment, ReqEvent, Key
  <2>4. CASE ~ IsComment(r)
    <3>1. GoTo(r, "insert")
      BY <1>3, <2>1, <2>4, ClaimAdds
    <3>2. Underway(r)' /\ Key(r)' = k
      BY <1>1, <2>1, <2>2, <3>1, GoOn DEF Steps, Underway
    <3> QED
      BY <1>1, <2>1, <2>2, <3>2 DEF ClaimOK, Underway, ReqEvent, Key
  <2> QED
    BY <2>3, <2>4
<1> QED
  BY <1>2, <1>3

-----------------------------------------------------------------------------
(* Types.                                                                    *)

(* A step of the handler keeps the types.                                      *)
LEMMA HandlerTypes ==
  ASSUME GwInv, NEW r \in Reqs, Acts(r)
  PROVE  GwTypeOK'
<1> USE DEF GwInv, GwTypeOK, HostTypeOK, StoreTypeOK, GatewayTypeOK
<1>1. UNCHANGED <<head, event, lapsed>> /\ ReqOK(r)
  BY HandlerFrame DEF Acts, hostVars
<1>2. req[r] # Idle => req[r] \in Request /\ req[r].d \in Deliveries
  BY InFlight
<1>3. ASSUME NEW a \in Answers, Answer(r, a), req[r] # Idle
      PROVE  req' \in [Reqs -> Request \cup {Idle}] /\ replies' \in [Deliveries -> SUBSET Answers]
  BY <1>2, <1>3 DEF Answer
<1>4. ASSUME NEW pc \in Steps, GoTo(r, pc), req[r] # Idle
      PROVE  req' \in [Reqs -> Request \cup {Idle}]
  <2>1. [req[r] EXCEPT !.pc = pc] \in Request
    BY <1>2, <1>4 DEF Request
  <2> QED
    BY <1>4, <2>1 DEF GoTo
<1>5. \A pc \in Steps : At(r, pc) => req[r] # Idle
  BY DEF At, Idle, Steps
<1>6. CASE \E d \in Deliveries : Receive(r, d)
  <2>1. PICK d \in Deliveries : Receive(r, d)
    BY <1>6
  <2>2. posts' \in [Deliveries -> 0 .. MaxPosts]
    BY <2>1, GatewayAssumption DEF Receive
  <2>3. [pc |-> "verify", d |-> d, scan |-> None] \in Request /\ "refused" \in Answers
    BY DEF Request, Steps, Answers
  <2>4. req' \in [Reqs -> Request \cup {Idle}] /\ replies' \in [Deliveries -> SUBSET Answers]
    BY <2>1, <2>3 DEF Receive
  <2> QED
    BY <1>1, <2>1, <2>2, <2>4 DEF Receive, storeVars
<1>7. CASE HandlerFails(r) \/ Respond(r)
  <2>1. req' \in [Reqs -> Request \cup {Idle}] /\ replies' \in [Deliveries -> SUBSET Answers]
    BY <1>3, <1>5, <1>7 DEF HandlerFails, Respond, Answers, Steps
  <2> QED
    BY <1>1, <1>7, <2>1 DEF HandlerFails, Respond, storeVars
<1>8. CASE Verify(r)
  <2>1. req[r] # Idle
    BY <1>5, <1>8 DEF Verify, Steps
  <2>2. req' \in [Reqs -> Request \cup {Idle}] /\ replies' \in [Deliveries -> SUBSET Answers]
    BY <1>3, <1>4, <1>8, <2>1 DEF Verify, Answers, Steps
  <2> QED
    BY <1>1, <1>8, <2>2 DEF Verify, storeVars
<1>9. CASE Claim(r)
  <2>1. req[r] # Idle
    BY <1>5, <1>9 DEF Claim, Steps
  <2>2. Key(r) \in Keys
    BY <1>1, <1>2, <2>1, KeyTypes DEF Key, ReqEvent, ReqOK
  <2>3. ClaimedStep(r) \in Steps /\ RepeatAnswer(r) \in Answers
    BY DEF ClaimedStep, After, Steps, RepeatAnswer, Answers
  <2>4. req' \in [Reqs -> Request \cup {Idle}] /\ replies' \in [Deliveries -> SUBSET Answers]
    BY <1>3, <1>4, <1>9, <2>1, <2>3 DEF Claim
  <2> QED
    BY <1>1, <1>9, <2>2, <2>4 DEF Claim, storeVars
<1>10. CASE EnqueueDialog(r)
  <2>1. req[r] # Idle /\ req' \in [Reqs -> Request \cup {Idle}]
    BY <1>4, <1>5, <1>10 DEF EnqueueDialog, Steps
  <2>2. dialogs' \in [Deliveries -> Nat]
    BY <1>2, <1>10, <2>1 DEF EnqueueDialog
  <2> QED
    BY <1>1, <1>10, <2>1, <2>2 DEF EnqueueDialog, storeVars
<1>11. CASE InsertRow(r)
  <2>1. At(r, "insert")
    BY <1>11 DEF InsertRow
  <2>2. PICK s \in Scans :
          /\ status' = [status EXCEPT ![s] = "queued"]
          /\ origin' = [origin EXCEPT ![s] = req[r].d]
          /\ req' = [req EXCEPT ![r] = [req[r] EXCEPT !.pc = After["insert"], !.scan = s]]
    BY <1>11 DEF InsertRow
  <2>3. req[r] \in Request /\ req[r].d \in Deliveries
    BY <1>2, <1>5, <2>1 DEF Steps
  <2>4. [req[r] EXCEPT !.pc = After["insert"], !.scan = s] \in Request
    BY <2>3 DEF After, Request, Steps
  <2>5. req' \in [Reqs -> Request \cup {Idle}] /\ origin' \in [Scans -> Deliveries \cup {None}]
    BY <2>2, <2>3, <2>4
  <2>6. status' \in [Scans -> Statuses]
    BY <2>2 DEF Statuses
  <2> QED
    BY <1>1, <1>11, <2>5, <2>6 DEF InsertRow
<1>12. CASE StashEvent(r) \/ ActivateHead(r) \/ EnqueueJob(r)
  <2>1. req[r] # Idle /\ req[r].pc \in {"stash", "activate", "enqueue"}
    BY <1>5, <1>12 DEF StashEvent, ActivateHead, EnqueueJob, Steps, At
  <2>2. req' \in [Reqs -> Request \cup {Idle}]
    BY <1>4, <1>12, <2>1 DEF StashEvent, ActivateHead, EnqueueJob, Steps, After
  <2>3. req[r].scan \in Scans /\ ReqEvent(r).head \in 0 .. MaxHead
    BY <1>1, <1>2, <2>1, KeyTypes DEF ReqOK, ReqEvent
  <2>4. /\ stash' \subseteq Scans
        /\ active' \in [PRs -> 0 .. MaxHead]
        /\ job' \in [Scans -> JobStates]
    BY <1>12, <2>3 DEF StashEvent, ActivateHead, EnqueueJob, JobStates
  <2> QED
    BY <1>1, <1>12, <2>2, <2>4 DEF StashEvent, ActivateHead, EnqueueJob
<1> QED
  BY <1>6, <1>7, <1>8, <1>9, <1>10, <1>11, <1>12 DEF Acts, HandlerStep

-----------------------------------------------------------------------------
(* The host and the lapsing keys.                                             *)

(* An event is emitted once and stays what it is.                              *)
LEMMA Emitted ==
  ASSUME GwInv, NEW k \in Kinds, NEW p \in PRs, NEW h \in 0 .. MaxHead, NEW ok \in BOOLEAN,
         k = "pr" => h \in Heads, Emit(k, p, h, ok)
  PROVE  /\ event' \in [Deliveries -> Event \cup {None}]
         /\ \A d \in Deliveries : event[d] # None => event'[d] = event[d]
         /\ \A d \in Deliveries :
              (event'[d] # None /\ event'[d].kind = "pr") => event'[d].head \in Heads
<1>1. PICK d \in Deliveries, hdr \in Deliveries \cup {None} :
        /\ event[d] = None
        /\ event' = [event EXCEPT ![d] =
             [kind |-> k, pr |-> p, head |-> h, hdr |-> hdr, signed |-> ok]]
  BY DEF Emit
<1>2. [kind |-> k, pr |-> p, head |-> h, hdr |-> hdr, signed |-> ok] \in Event
  BY DEF Event
<1>3. event \in [Deliveries -> Event \cup {None}]
  BY DEF GwInv, GwTypeOK, HostTypeOK
<1>4. \A e \in Deliveries :
        (event[e] # None /\ event[e].kind = "pr") => event[e].head \in Heads
  BY DEF GwInv, DeliveryOK
<1> QED
  BY <1>1, <1>2, <1>3, <1>4

(* What is said of an event is said of emitted ones.                            *)
LEMMA HostStays ==
  ASSUME GwInv, HostNext, UNCHANGED <<storeVars, gatewayVars>>
  PROVE  GwInv'
<1> USE DEF GwInv
<1>1. PICK p \in PRs : Push(p) \/ Touch(p) \/ Comment(p) \/ Noise(p) \/ Missigned(p)
  BY DEF HostNext
<1>2. head \in [PRs -> 0 .. MaxHead] /\ MaxHead \in Nat \ {0}
  BY HostAssumption DEF GwTypeOK, HostTypeOK
<1>3. head' \in [PRs -> 0 .. MaxHead]
  <2>1. CASE Push(p)
    <3>1. head[p] \in 0 .. MaxHead /\ head[p] < MaxHead /\ head' = [head EXCEPT ![p] = head[p] + 1]
      BY <1>2, <2>1 DEF Push, Advance
    <3>2. head[p] + 1 \in 0 .. MaxHead
      BY <1>2, <3>1
    <3> QED
      BY <1>2, <3>1, <3>2
  <2>2. CASE ~ Push(p)
    BY <1>1, <1>2, <2>2 DEF Touch, Comment, Noise, Missigned
  <2> QED
    BY <2>1, <2>2
<1> DEFINE EventsStay ==
      /\ event' \in [Deliveries -> Event \cup {None}]
      /\ \A d \in Deliveries : event[d] # None => event'[d] = event[d]
      /\ \A d \in Deliveries :
           (event'[d] # None /\ event'[d].kind = "pr") => event'[d].head \in Heads
<1>4. EventsStay
  <2>1. head[p] \in 0 .. MaxHead /\ "pr" \in Kinds
    BY <1>2 DEF Kinds
  <2>2. CASE Push(p)
    <3>1. Emit("pr", p, head[p] + 1, TRUE) /\ head[p] < MaxHead
      BY <2>2 DEF Push, Advance
    <3>2. head[p] + 1 \in Heads /\ head[p] + 1 \in 0 .. MaxHead
      BY <1>2, <2>1, <3>1 DEF Heads
    <3> QED
      BY <2>1, <3>1, <3>2, Emitted
  <2>3. CASE Touch(p)
    <3>1. Emit("pr", p, head[p], TRUE) /\ head[p] > 0
      BY <2>3 DEF Touch
    <3>2. head[p] \in Heads
      BY <1>2, <2>1, <3>1 DEF Heads
    <3> QED
      BY <2>1, <3>1, <3>2, Emitted
  <2>4. ASSUME NEW k \in Kinds \ {"pr"}, NEW h \in 0 .. MaxHead, NEW ok \in BOOLEAN, Emit(k, p, h, ok)
        PROVE  EventsStay
    BY <2>4, Emitted
  <2>5. {"comment", "ignored", "malformed"} \subseteq Kinds \ {"pr"} /\ 0 \in 0 .. MaxHead
    BY <1>2 DEF Kinds
  <2>6. CASE Comment(p)
    BY <2>4, <2>5, <2>6 DEF Comment
  <2>7. CASE Noise(p)
    BY <2>1, <2>4, <2>5, <2>7 DEF Noise
  <2>8. CASE Missigned(p)
    <3>1. PICK h \in Heads : Emit("pr", p, h, FALSE) \/ Emit("comment", p, 0, FALSE)
      BY <2>8 DEF Missigned
    <3>2. h \in 0 .. MaxHead
      BY <1>2 DEF Heads
    <3>3. Emit("pr", p, h, FALSE) => EventsStay
      BY <2>1, <3>2, Emitted
    <3> QED
      BY <2>4, <2>5, <3>1, <3>3
  <2> QED
    BY <1>1, <2>2, <2>3, <2>6, <2>7, <2>8
<1>5. /\ UNCHANGED <<status, origin, stash, active, job, tries>>
      /\ UNCHANGED <<req, posts, replies, claims, lapsed, dialogs>>
  BY DEF storeVars, gatewayVars
<1>6. GwTypeOK'
  BY <1>3, <1>4, <1>5 DEF GwTypeOK, HostTypeOK, StoreTypeOK, GatewayTypeOK
<1>7. /\ \A s \in Scans : status[s] # "none" => Ev(s)' = Ev(s) /\ OriginKey(s)' = OriginKey(s)
      /\ \A s \in Scans : ScanOK(s)'
  BY <1>4, <1>5 DEF ScanOK, Ev, OriginKey
<1>8. \A r \in Reqs : req[r] # Idle =>
        /\ ReqEvent(r)' = ReqEvent(r) /\ Key(r)' = Key(r)
        /\ req[r].d \in Deliveries /\ event'[req[r].d] # None
  BY <1>4, <1>5, InFlight DEF ReqEvent, Key, ReqOK
<1>9. ASSUME NEW r \in Reqs PROVE ReqOK(r)'
  <2>1. ReqOK(r) /\ \A pc : At(r, pc)' = At(r, pc)
    BY <1>5 DEF At
  <2>2. CASE req[r] = Idle
    BY <1>5, <2>2 DEF ReqOK, Idle, At
  <2>3. CASE req[r] # Idle
    <3>1. At(r, "insert") =>
            /\ \A s \in Scans : (status'[s] # "none" /\ OriginKey(s)' = Key(r)) => Key(r) \in lapsed
            /\ \A q \in Reqs : (q # r /\ At(q, "insert")' /\ Key(q)' = Key(r)) => Key(r) \in lapsed
      <4>1. \A q \in Reqs : At(q, "insert")' => At(q, "insert") /\ Key(q)' = Key(q)
        BY <1>5, <1>8 DEF At, Idle
      <4> QED
        BY <1>5, <1>7, <2>1, <4>1 DEF ReqOK
    <3> QED
      BY <1>5, <1>8, <2>1, <2>3, <3>1 DEF ReqOK
  <2> QED
    BY <2>2, <2>3
<1>10. ASSUME NEW d \in Deliveries PROVE DeliveryOK(d)'
  BY <1>4, <1>5 DEF DeliveryOK
<1>11. ASSUME NEW k \in claims PROVE ClaimOK(k)'
  <2>1. ClaimOK(k)
    OBVIOUS
  <2>2. \A r \in Reqs : Underway(r) => Underway(r)' /\ Key(r)' = Key(r)
    BY <1>5, <1>8 DEF Underway, Idle
  <2> QED
    BY <1>4, <1>5, <1>7, <2>1, <2>2 DEF ClaimOK, Underway
<1>12. OneScanPerClaim'
  BY <1>5, <1>7 DEF OneScanPerClaim
<1> QED
  BY <1>5, <1>6, <1>7, <1>9, <1>10, <1>11, <1>12

(* No key lapses while a request is in flight, and a lapsed claim is remembered.  *)
LEMMA ExpiryStays ==
  ASSUME GwInv, (\E k \in claims : ExpireClaim(k)) \/ ExpireKeys
  PROVE  GwInv'
<1> USE DEF GwInv
<1>1. /\ \A r \in Reqs : req[r] = Idle
      /\ UNCHANGED <<head, event, status, origin, job, tries, req, posts, replies, dialogs>>
      /\ claims' \subseteq claims /\ lapsed \subseteq lapsed'
      /\ claims' \cup lapsed' = claims \cup lapsed
      /\ stash' \subseteq stash
  BY DEF ExpireClaim, ExpireKeys, ExpireStash, NoRequest, hostVars, storeVars, gatewayVars
<1>2. active' \in [PRs -> 0 .. MaxHead]
  BY HostAssumption DEF ExpireClaim, ExpireKeys, ExpireActive, storeVars, GwTypeOK, StoreTypeOK
<1>3. GwTypeOK'
  BY <1>1, <1>2 DEF GwTypeOK, HostTypeOK, StoreTypeOK, GatewayTypeOK
<1>4. ASSUME NEW r \in Reqs PROVE ReqOK(r)'
  BY <1>1 DEF ReqOK, At, Idle
<1>5. \A s \in Scans : Ev(s)' = Ev(s) /\ OriginKey(s)' = OriginKey(s)
  BY <1>1 DEF Ev, OriginKey
<1>6. ASSUME NEW s \in Scans PROVE ScanOK(s)'
  BY <1>1, <1>5 DEF ScanOK
<1>7. ASSUME NEW d \in Deliveries PROVE DeliveryOK(d)'
  BY <1>1 DEF DeliveryOK
<1>8. ASSUME NEW k \in claims' PROVE ClaimOK(k)'
  <2>1. ClaimOK(k) /\ \A r \in Reqs : Key(r)' = Key(r)
    BY <1>1 DEF Key, ReqEvent
  <2> QED
    BY <1>1, <1>5, <2>1 DEF ClaimOK
<1>9. OneScanPerClaim'
  BY <1>1, <1>5 DEF OneScanPerClaim
<1> QED
  BY <1>3, <1>4, <1>6, <1>7, <1>8, <1>9

-----------------------------------------------------------------------------

(* A new gateway has nothing to keep.                                          *)
LEMMA GwInvInit == GwInit => GwInv
<1> SUFFICES ASSUME GwInit PROVE GwInv
  OBVIOUS
<1> USE DEF GwInit, HostInit, StoreInit, GatewayInit
<1>1. GwTypeOK
  BY HostAssumption, StoreAssumption, GatewayAssumption
  DEF GwTypeOK, HostTypeOK, StoreTypeOK, GatewayTypeOK, Statuses, JobStates
<1>2. ASSUME NEW r \in Reqs PROVE ReqOK(r)
  BY DEF ReqOK, At, Idle
<1>3. /\ \A s \in Scans : ScanOK(s)
      /\ \A d \in Deliveries : DeliveryOK(d)
      /\ \A k \in claims : ClaimOK(k)
      /\ OneScanPerClaim
  BY DEF ScanOK, DeliveryOK, OneScanPerClaim
<1> QED
  BY <1>1, <1>2, <1>3 DEF GwInv

(* Every step keeps the invariant.                                            *)
LEMMA GwInvNext ==
  ASSUME GwInv, [GwNext]_gwVars
  PROVE  GwInv'
<1>1. CASE UNCHANGED gwVars
  <2>1. /\ UNCHANGED <<head, event, status, origin, stash, active, job, tries>>
        /\ UNCHANGED <<req, posts, replies, claims, lapsed, dialogs>>
    BY <1>1 DEF gwVars, hostVars, storeVars, gatewayVars
  <2> QED
    BY <2>1 DEF GwInv, GwTypeOK, HostTypeOK, StoreTypeOK, GatewayTypeOK, ReqOK, ScanOK, DeliveryOK,
                ClaimOK, OneScanPerClaim, OriginKey, Ev, Key, ReqEvent, At
<1>2. ASSUME NEW r \in Reqs, Acts(r) PROVE GwInv'
  <2>1. ReqOK(r)'
    BY <1>2, FirstSteps, LaterSteps DEF Acts, HandlerStep
  <2>2. \A q \in Reqs : ReqOK(q)'
    BY <1>2, <2>1, OtherRequests
  <2> QED
    BY <1>2, <2>2, HandlerTypes, RowsStay, DeliveriesStay, ClaimsStay DEF GwInv
<1> QED
  BY <1>1, <1>2, HostStays, ExpiryStays DEF GwNext, GatewayNext, Acts

(* Hence the invariant.                                                      *)
LEMMA GwInvAlways == GwSpec => []GwInv
  BY GwInvInit, GwInvNext, PTL DEF GwSpec

(* Every variable of the gateway keeps its type; in particular a handler that has a *)
(* row at hand has the identity of one.                                        *)
THEOREM GatewayTyped == GwSpec => []GwTypeOK
<1>1. GwInv => GwTypeOK
  BY DEF GwInv
<1> QED
  BY <1>1, GwInvAlways, PTL

(* Two scans of one delivery key need a claim that lapsed between them, however    *)
(* often, in whatever order and side by side the host sends its deliveries, and    *)
(* wherever the handlers fail.                                                *)
THEOREM Idempotent == GwSpec => []OneScanPerClaim
<1>1. GwInv => OneScanPerClaim
  BY DEF GwInv
<1> QED
  BY <1>1, GwInvAlways, PTL

(* Claims, scans and dialog jobs come from deliveries whose signature verifies.   *)
THEOREM VerifiedWorkOnly == GwSpec => []OnlyVerifiedWork
<1>1. GwInv => OnlyVerifiedWork
  BY DEF GwInv, ScanOK, DeliveryOK, ClaimOK, OnlyVerifiedWork
<1> QED
  BY <1>1, GwInvAlways, PTL

(* A delivery that was answered "queued" has its job.                           *)
THEOREM QueuedMeansEnqueued == GwSpec => []QueuedIsEnqueued
<1>1. GwInv => QueuedIsEnqueued
  BY DEF GwInv, DeliveryOK, QueuedIsEnqueued
<1> QED
  BY <1>1, GwInvAlways, PTL

(* A claim without a job is explained by a request that failed.                  *)
THEOREM OnlyFailuresLose == GwSpec => []LossNeedsFailure
<1>1. GwInv => LossNeedsFailure
  BY DEF GwInv, ClaimOK, LossNeedsFailure, NoRequest, Idle
<1> QED
  BY <1>1, GwInvAlways, PTL

(* When a job becomes visible to the workers, its row, its event and an active      *)
(* head of its pull request are in place.                                       *)
THEOREM NoJobTooEarly == GwSpec => JobsAreReady
<1> DEFINE Ready ==
      \A s \in Scans : (job[s] = "none" /\ job'[s] = "queued") =>
         /\ status[s] = "queued"
         /\ s \in stash
         /\ active[Ev(s).pr] # 0
<1>1. GwInv /\ [GwNext]_gwVars => [Ready]_gwVars
  <2> SUFFICES ASSUME GwInv, [GwNext]_gwVars, NEW s \in Scans, job[s] = "none", job'[s] = "queued"
               PROVE  status[s] = "queued" /\ s \in stash /\ active[Ev(s).pr] # 0
    OBVIOUS
  <2>1. PICK r \in Reqs : Acts(r)
    <3>1. job' # job
      OBVIOUS
    <3> QED
      BY <3>1 DEF GwNext, GatewayNext, Acts, gwVars, storeVars, ExpireClaim, ExpireKeys
  <2>2. At(r, "enqueue") /\ s = req[r].scan
    BY <2>1, HandlerAdds DEF Acts
  <2> QED
    BY <2>2 DEF GwInv, ReqOK, At, Ev, ReqEvent
<1> QED
  BY <1>1, GwInvAlways, PTL DEF GwSpec, JobsAreReady

=============================================================================
