--------------------------- MODULE WebhookGateway ---------------------------
(***************************************************************************)
(* The webhook endpoint of the API process (api/webhooks.py) with the        *)
(* idempotency claim (idempotency.py) and the enqueue helpers (queue.py).     *)
(*                                                                         *)
(* A request is in one of a few slots; it runs as the coroutine does, one    *)
(* action per await, so that requests interleave between any two of them and *)
(* a failure can come after any of them.                                      *)
(***************************************************************************)
EXTENDS ScanStore

CONSTANTS
  Reqs,      \* slots for requests in flight
  MaxPosts   \* bound on how often the host sends one delivery

ASSUME GatewayAssumption == MaxPosts \in Nat \ {0}

VARIABLES
  req,       \* req[r]: the request in slot r
  posts,     \* posts[d]: how often d was sent
  replies,   \* replies[d]: the answers the host received for d
  claims,    \* the dedupe keys held in Redis
  lapsed,    \* history: the dedupe keys whose claim ever lapsed
  dialogs    \* dialogs[d]: run_dialog jobs enqueued for d

gatewayVars == <<req, posts, replies, claims, lapsed, dialogs>>

Steps == {"verify", "claim", "dialog", "insert", "stash", "activate", "enqueue", "respond"}

Answers == {"refused", "unauthorized", "ignored", "duplicate", "queued", "failed"}

Request == [pc : Steps, d : Deliveries, scan : Scans \cup {None}]

Idle == [pc |-> "idle", d |-> None, scan |-> None]

GatewayTypeOK ==
  /\ req \in [Reqs -> Request \cup {Idle}]
  /\ posts \in [Deliveries -> 0 .. MaxPosts]
  /\ replies \in [Deliveries -> SUBSET Answers]
  /\ claims \subseteq Keys
  /\ lapsed \subseteq Keys
  /\ dialogs \in [Deliveries -> Nat]

GatewayInit ==
  /\ req = [r \in Reqs |-> Idle]
  /\ posts = [d \in Deliveries |-> 0]
  /\ replies = [d \in Deliveries |-> {}]
  /\ claims = {}
  /\ lapsed = {}
  /\ dialogs = [d \in Deliveries |-> 0]

-----------------------------------------------------------------------------

At(r, pc) == req[r].pc = pc

ReqEvent(r) == event[req[r].d]

Key(r) == DedupeKey(ReqEvent(r))

IsComment(r) == ReqEvent(r).kind = "comment"

(* Mutations of the definitions below.                                       *)
AnySignature(r) == TRUE
ClaimNothing(r) == TRUE
AlwaysQueued(r) == "queued"
AlwaysDialog(r) == "dialog"
EnqueueFirst ==
  [claim |-> "insert", insert |-> "enqueue", enqueue |-> "stash",
   stash |-> "activate", activate |-> "respond"]
ActivateFirst ==
  [claim |-> "activate", activate |-> "insert", insert |-> "stash",
   stash |-> "enqueue", enqueue |-> "respond"]
ActivateForever ==
  [claim |-> "insert", insert |-> "stash", stash |-> "activate",
   activate |-> "activate", enqueue |-> "respond"]

(* The order of the awaits of a pull request event from its claim on.        *)
After ==
  [claim |-> "insert", insert |-> "stash", stash |-> "activate",
   activate |-> "enqueue", enqueue |-> "respond"]

(* verify() passes: the signature over the raw body is right.                *)
Authentic(r) == ReqEvent(r).signed

(* SET NX finds no such key.                                                 *)
FirstClaim(r) == Key(r) \notin claims

(* A repeated comment event is answered like the first one.                  *)
RepeatAnswer(r) == IF IsComment(r) THEN "queued" ELSE "duplicate"

ClaimedStep(r) == IF IsComment(r) THEN "dialog" ELSE After["claim"]

GoTo(r, pc) == req' = [req EXCEPT ![r].pc = pc]

Answer(r, a) ==
  /\ req' = [req EXCEPT ![r] = Idle]
  /\ replies' = [replies EXCEPT ![req[r].d] = @ \cup {a}]

(* A request arrives: provider name, content type, size and JSON are checked *)
(* and the event is classified, with no side effect.                         *)
Receive(r, d) ==
  /\ req[r] = Idle
  /\ event[d] # None
  /\ posts[d] < MaxPosts
  /\ posts' = [posts EXCEPT ![d] = @ + 1]
  /\ IF event[d].kind = "malformed"
       THEN /\ replies' = [replies EXCEPT ![d] = @ \cup {"refused"}]
            /\ UNCHANGED req
       ELSE /\ req' = [req EXCEPT ![r] = [pc |-> "verify", d |-> d, scan |-> None]]
            /\ UNCHANGED replies
  /\ UNCHANGED <<claims, lapsed, dialogs, hostVars, storeVars>>

(* webhook_secret and verify, then the answer for events that ask for nothing. *)
Verify(r) ==
  /\ At(r, "verify")
  /\ \/ /\ ~ Authentic(r)
        /\ Answer(r, "unauthorized")
     \/ /\ Authentic(r)
        /\ ReqEvent(r).kind = "ignored"
        /\ Answer(r, "ignored")
     \/ /\ Authentic(r)
        /\ ReqEvent(r).kind # "ignored"
        /\ GoTo(r, "claim")
        /\ UNCHANGED replies
  /\ UNCHANGED <<posts, claims, lapsed, dialogs, hostVars, storeVars>>

(* claim: SET NX EX on the dedupe key.                                       *)
Claim(r) ==
  /\ At(r, "claim")
  /\ \/ /\ FirstClaim(r)
        /\ claims' = claims \cup {Key(r)}
        /\ GoTo(r, ClaimedStep(r))
        /\ UNCHANGED replies
     \/ /\ ~ FirstClaim(r)
        /\ Answer(r, RepeatAnswer(r))
        /\ UNCHANGED claims
  /\ UNCHANGED <<posts, lapsed, dialogs, hostVars, storeVars>>

EnqueueDialog(r) ==
  /\ At(r, "dialog")
  /\ dialogs' = [dialogs EXCEPT ![req[r].d] = @ + 1]
  /\ GoTo(r, "respond")
  /\ UNCHANGED <<posts, replies, claims, lapsed, hostVars, storeVars>>

(* A Scan row with a fresh id is inserted and committed.                     *)
InsertRow(r) ==
  /\ At(r, "insert")
  /\ \E s \in Scans :
       /\ status[s] = "none"
       /\ status' = [status EXCEPT ![s] = "queued"]
       /\ origin' = [origin EXCEPT ![s] = req[r].d]
       /\ req' = [req EXCEPT ![r] = [@ EXCEPT !.pc = After["insert"], !.scan = s]]
  /\ UNCHANGED <<stash, active, job, tries>>
  /\ UNCHANGED <<posts, replies, claims, lapsed, dialogs, hostVars>>

(* enqueue_scan, one await at a time: the event, the active head, the job.   *)
StashEvent(r) ==
  /\ At(r, "stash")
  /\ stash' = stash \cup {req[r].scan}
  /\ GoTo(r, After["stash"])
  /\ UNCHANGED <<status, origin, active, job, tries>>
  /\ UNCHANGED <<posts, replies, claims, lapsed, dialogs, hostVars>>

ActivateHead(r) ==
  /\ At(r, "activate")
  /\ active' = [active EXCEPT ![ReqEvent(r).pr] = ReqEvent(r).head]
  /\ GoTo(r, After["activate"])
  /\ UNCHANGED <<status, origin, stash, job, tries>>
  /\ UNCHANGED <<posts, replies, claims, lapsed, dialogs, hostVars>>

EnqueueJob(r) ==
  /\ At(r, "enqueue")
  /\ job' = [job EXCEPT ![req[r].scan] = "queued"]
  /\ GoTo(r, After["enqueue"])
  /\ UNCHANGED <<status, origin, stash, active, tries>>
  /\ UNCHANGED <<posts, replies, claims, lapsed, dialogs, hostVars>>

Respond(r) ==
  /\ At(r, "respond")
  /\ Answer(r, "queued")
  /\ UNCHANGED <<posts, claims, lapsed, dialogs, hostVars, storeVars>>

(* An exception (Redis or Postgres down), or the end of the API process: the *)
(* host sees a 500 or a broken connection, and what was done stays done.     *)
HandlerFails(r) ==
  /\ "api" \in Faults
  /\ req[r] # Idle
  /\ Answer(r, "failed")
  /\ UNCHANGED <<posts, claims, lapsed, dialogs, hostVars, storeVars>>

(* Keys live 24 hours and a request some milliseconds: none lapses while a   *)
(* request is in flight.                                                     *)
NoRequest == \A r \in Reqs : req[r] = Idle

ExpireClaim(k) ==
  /\ "expiry" \in Faults
  /\ NoRequest
  /\ claims' = claims \ {k}
  /\ lapsed' = lapsed \cup {k}
  /\ UNCHANGED <<req, posts, replies, dialogs, hostVars, storeVars>>

ExpireKeys ==
  /\ NoRequest
  /\ \/ \E s \in Scans : ExpireStash(s) /\ UNCHANGED active
     \/ \E p \in PRs : ExpireActive(p) /\ UNCHANGED stash
  /\ UNCHANGED <<status, origin, job, tries>>
  /\ UNCHANGED <<gatewayVars, hostVars>>

HandlerStep(r) ==
  \/ Verify(r) \/ Claim(r) \/ EnqueueDialog(r) \/ InsertRow(r)
  \/ StashEvent(r) \/ ActivateHead(r) \/ EnqueueJob(r) \/ Respond(r)

GatewayNext ==
  \/ \E r \in Reqs, d \in Deliveries : Receive(r, d)
  \/ \E r \in Reqs : HandlerStep(r) \/ HandlerFails(r)
  \/ \E k \in claims : ExpireClaim(k)
  \/ ExpireKeys

-----------------------------------------------------------------------------
(* The gateway alone, with the host that feeds it and no worker.             *)

HostNext ==
  \E p \in PRs : Push(p) \/ Touch(p) \/ Comment(p) \/ Noise(p) \/ Missigned(p)

gwVars == <<hostVars, storeVars, gatewayVars>>

GwInit == HostInit /\ StoreInit /\ GatewayInit

GwNext ==
  \/ HostNext /\ UNCHANGED <<storeVars, gatewayVars>>
  \/ GatewayNext

GwSpec == GwInit /\ [][GwNext]_gwVars

-----------------------------------------------------------------------------

GwTypeOK == HostTypeOK /\ StoreTypeOK /\ GatewayTypeOK

OriginKey(s) == DedupeKey(Ev(s))

(* Two scans with the same dedupe key exist only if the claim lapsed between *)
(* them: concurrent and repeated deliveries never both get past the claim,   *)
(* whatever fails on the way.                                                *)
OneScanPerClaim ==
  \A s, t \in Scans :
    (/\ s # t
     /\ status[s] # "none"
     /\ status[t] # "none"
     /\ OriginKey(s) = OriginKey(t)) => OriginKey(s) \in lapsed

(* Work exists only for deliveries whose signature verifies: no claim, scan  *)
(* or dialog job comes from any other request.                               *)
OnlyVerifiedWork ==
  /\ \A k \in claims : \E d \in Deliveries :
        event[d] # None /\ event[d].signed /\ DedupeKey(event[d]) = k
  /\ \A s \in Scans : status[s] # "none" => Ev(s).signed /\ Ev(s).kind = "pr"
  /\ \A d \in Deliveries : dialogs[d] > 0 => event[d].signed

(* The step that makes a job visible to the workers comes when the row, the  *)
(* stashed event and an active head of its pull request are all in place.    *)
JobsAreReady ==
  [][\A s \in Scans :
       (job[s] = "none" /\ job'[s] = "queued") =>
          /\ status[s] = "queued"
          /\ s \in stash
          /\ active[Ev(s).pr] # 0]_gwVars

(* A host that was told "queued" for a pull request event can rely on it: a  *)
(* job was enqueued for that very delivery.                                  *)
QueuedIsEnqueued ==
  \A d \in Deliveries :
    ("queued" \in replies[d] /\ event[d].kind = "pr") =>
       \E s \in Scans : origin[s] = d /\ job[s] # "none"

(* When no request is in flight, a pull request claim without a job is       *)
(* explained by a request with that key that failed: nothing else loses a    *)
(* scan.                                                                      *)
LossNeedsFailure ==
  NoRequest =>
    \A k \in claims :
      \/ \E d \in Deliveries :
           /\ event[d] # None
           /\ DedupeKey(event[d]) = k
           /\ \/ event[d].kind = "comment"
              \/ "failed" \in replies[d]
      \/ \E s \in Scans :
           status[s] # "none" /\ OriginKey(s) = k /\ job[s] # "none"

-----------------------------------------------------------------------------
(* Statements of the documentation that the gateway does not keep.           *)

(* docs/14: with the queue or Redis down, no data is lost.  A delivery       *)
(* answered "duplicate" has a scan once no request is in flight.             *)
DuplicateIsCovered ==
  NoRequest =>
    \A d \in Deliveries :
      "duplicate" \in replies[d] =>
        \E s \in Scans : job[s] # "none" /\ OriginKey(s) = DedupeKey(event[d])

=============================================================================
