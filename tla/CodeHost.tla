------------------------------ MODULE CodeHost ------------------------------
(***************************************************************************)
(* The side of the code host (GitHub, GitLab, Bitbucket) that Aegis listens *)
(* to: pull requests whose head moves, and the webhook events it emits for   *)
(* them.  It is outside the repository; it is modelled from what             *)
(* Provider.parse_event, WebhookEvent and the fetch operations of the code   *)
(* use of it.                                                                *)
(***************************************************************************)
EXTENDS Naturals, FiniteSets

CONSTANTS
  PRs,          \* pull requests: (provider, repo_external_id, pr_id)
  MaxHead,      \* bound on the commits pushed to one pull request
  Deliveries,   \* webhook events the host emits
  None,         \* "no value", outside every other set
  Faults        \* the kinds of fault a run admits

FaultKinds ==
  { "api",       \* a request handler raises or its process dies
    "worker",    \* a worker process dies or is shut down during a job
    "timeout",   \* a job reaches job_timeout
    "provider",  \* a call to the code host fails
    "internal",  \* Postgres, Redis or a stage's own code raises in a worker
    "token",     \* a repository is not registered or has no access token
    "expiry",    \* a Redis key reaches its time to live
    "header",    \* a delivery comes without the delivery-id header
    "signature"  \* a request whose signature does not verify
  }

ASSUME HostAssumption ==
  /\ MaxHead \in Nat \ {0}
  /\ None \notin Deliveries
  /\ Faults \subseteq FaultKinds

VARIABLES
  head,   \* head[p]: the current head commit of p, 0 before it is opened
  event   \* event[d]: what delivery d says, None while it is not emitted

hostVars == <<head, event>>

Heads == 1 .. MaxHead

(* "malformed": refused before it is classified; "ignored": an event that    *)
(* asks for nothing (ping, closed, an event type parse_event does not know). *)
Kinds == {"pr", "comment", "ignored", "malformed"}

(* head is 0 when the event carries no head_sha, as comment events do; hdr   *)
(* is the delivery-id header, None when it is missing; signed says whether   *)
(* the signature verifies against the configured secret.                     *)
Event == [ kind   : Kinds,
           pr     : PRs,
           head   : 0 .. MaxHead,
           hdr    : Deliveries \cup {None},
           signed : BOOLEAN ]

HostTypeOK ==
  /\ head \in [PRs -> 0 .. MaxHead]
  /\ event \in [Deliveries -> Event \cup {None}]

(* A repository can be registered when it already has open pull requests.    *)
HostInit ==
  /\ head \in [PRs -> 0 .. MaxHead]
  /\ event = [d \in Deliveries |-> None]

-----------------------------------------------------------------------------

(* Mutation of DedupeKey: the head is left out.                              *)
KeyWithoutHead(e) == <<e.hdr, e.pr>>

(* WebhookEvent.dedupe_key: delivery id, repository, pull request and head.  *)
DedupeKey(e) == <<e.hdr, e.pr, e.head>>

Keys == (Deliveries \cup {None}) \X PRs \X (0 .. MaxHead)

Emit(k, p, h, ok) ==
  \E d \in Deliveries :
    /\ event[d] = None
    /\ \E hdr \in {d} \cup (IF "header" \in Faults THEN {None} ELSE {}) :
         event' = [event EXCEPT ![d] =
                     [kind |-> k, pr |-> p, head |-> h, hdr |-> hdr, signed |-> ok]]

(* The pull request is opened, or a commit is pushed to it.                  *)
Advance(p) ==
  /\ head[p] < MaxHead
  /\ head' = [head EXCEPT ![p] = @ + 1]

Push(p) == Advance(p) /\ Emit("pr", p, head[p] + 1, TRUE)

(* reopened, ready_for_review, edited: a new delivery for the same head.     *)
Touch(p) ==
  /\ head[p] > 0
  /\ Emit("pr", p, head[p], TRUE)
  /\ UNCHANGED head

Comment(p) ==
  /\ head[p] > 0
  /\ Emit("comment", p, 0, TRUE)
  /\ UNCHANGED head

(* Events that ask for nothing, and requests refused for their shape.        *)
Noise(p) ==
  /\ \/ Emit("ignored", p, head[p], TRUE)
     \/ Emit("malformed", p, 0, TRUE)
  /\ UNCHANGED head

(* A request whose signature does not verify, whatever head it names.        *)
Missigned(p) ==
  /\ "signature" \in Faults
  /\ \E h \in Heads : Emit("pr", p, h, FALSE) \/ Emit("comment", p, 0, FALSE)
  /\ UNCHANGED head

=============================================================================
