------------------------------ MODULE ScanStore ------------------------------
(***************************************************************************)
(* The state the API process and the workers share: the scans table in       *)
(* Postgres, the event stash and the active-head keys in Redis, and the Arq  *)
(* job queue.                                                                *)
(***************************************************************************)
EXTENDS CodeHost

CONSTANTS
  Scans,      \* scan ids (uuid4)
  MaxTries    \* WorkerSettings.max_tries

ASSUME StoreAssumption ==
  /\ MaxTries \in Nat \ {0}
  /\ None \notin Scans

VARIABLES
  status,     \* status[s]: the status column of the row of s, "none": no row
  origin,     \* origin[s]: the delivery the row of s was made for
  stash,      \* the scans whose event is stored under aegis:scan:<id>:event
  active,     \* active[p]: the head under aegis:active:<p>, 0: no such key
  job,        \* job[s]: where the Arq job of s is
  tries       \* tries[s]: how often a worker has started the job of s

storeVars == <<status, origin, stash, active, job, tries>>

Outcomes == {"superseded", "no_token", "completed", "provider_error", "error"}
Statuses == {"none", "queued", "running"} \cup Outcomes
JobStates == {"none", "queued", "running", "settled"}

StoreTypeOK ==
  /\ status \in [Scans -> Statuses]
  /\ origin \in [Scans -> Deliveries \cup {None}]
  /\ stash \subseteq Scans
  /\ active \in [PRs -> 0 .. MaxHead]
  /\ job \in [Scans -> JobStates]
  /\ tries \in [Scans -> 0 .. MaxTries]

StoreInit ==
  /\ status = [s \in Scans |-> "none"]
  /\ origin = [s \in Scans |-> None]
  /\ stash = {}
  /\ active = [p \in PRs |-> 0]
  /\ job = [s \in Scans |-> "none"]
  /\ tries = [s \in Scans |-> 0]

(* The event of scan s: WebhookEvent as the worker rehydrates it.            *)
Ev(s) == event[origin[s]]

(* The 24 hour keys lapse.                                                   *)
ExpireStash(s) ==
  /\ "expiry" \in Faults
  /\ s \in stash
  /\ stash' = stash \ {s}

ExpireActive(p) ==
  /\ "expiry" \in Faults
  /\ active[p] # 0
  /\ active' = [active EXCEPT ![p] = 0]

=============================================================================
