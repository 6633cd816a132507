----------------------------- MODULE RepoRegistry -----------------------------
(***************************************************************************)
(* The registry of repositories, for one repository: the rows that create_repo *)
(* (api/admin.py) and _add_ignore_glob (pipeline/dialog.py) write, each in one *)
(* Postgres transaction at READ COMMITTED, and the lookups of the gateway and  *)
(* the worker (repos.py), whose SELECTs each see what is committed by then.    *)
(***************************************************************************)
EXTENDS Naturals, FiniteSets

CONSTANTS
  Admins,       \* create_repo requests
  Dialogs,      \* calls of _add_ignore_glob
  Readers,      \* calls of webhook_secret and resolve
  Asked,        \* Asked[q]: the policy that request q asks for
  Slug,         \* Slug[q]: the slug of the repository in request q
  Defaults,     \* the column defaults of RepoPolicy
  Pattern,      \* Pattern[g]: the pattern that g adds
  Choices,      \* what the policy fields but ignore_globs can be
  Patterns,     \* ignore patterns
  Slugs,        \* slugs
  None,         \* "no value"
  Ttl,          \* ttl_seconds of issue_token
  MaxNow,       \* bound: the clock
  MaxKey,       \* bound: vault keys that are used in turn
  Faults        \* the kinds of fault a run admits

Writers == Admins \cup Dialogs

(* ensemble_profile and lang are written and read as severity_gate is.        *)
Policy ==
  [severity_gate : Choices, merge_block : Choices, ignore_globs : SUBSET Patterns]

(* One request inserts one row of either kind.                               *)
Secret == [by : Admins, at : Nat, key : 1 .. MaxKey]

ASSUME RegistryAssumption ==
  /\ Admins \cap Dialogs = {}
  /\ Asked \in [Admins -> Policy]
  /\ Slug \in [Admins -> Slugs]
  /\ Defaults \in Policy
  /\ Defaults.ignore_globs = {}
  /\ Pattern \in [Dialogs -> Patterns]
  /\ None \notin Policy \cup Secret \cup Writers
  /\ Ttl \in Nat /\ MaxNow \in Nat /\ MaxKey \in Nat \ {0}
  /\ Faults \subseteq {"request", "lazy", "restart"}

VARIABLES
  row,       \* the committed rows: repositories, repo_secrets, repo_policies
  tx,        \* tx[w]: the transaction of writer w
  rd,        \* rd[r]: the lookup r
  stamp,     \* the last created_at
  now,       \* the clock of the admin tokens
  key,       \* AEGIS_VAULT_KEY of the running processes
  bearer,    \* the admin token that the frontend holds, None before a login
  shared,    \* history: writers that were open at a time with another
  last       \* history: the writer that committed last

rVars == <<row, tx, rd, stamp, now, key, bearer, shared, last>>

Rows == [ repos  : Nat,
          slug   : Slugs \cup {None},
          tokens : SUBSET Secret,
          hooks  : SUBSET Secret,
          policy : Policy \cup {None} ]

TxSteps == {"repo", "load", "policy", "commit"}

Bearer == [iat : Nat, exp : Nat, key : 1 .. MaxKey]

(* existing: the SELECT found the repository, with this slug; renames, writes: it *)
(* has written that row, the row of the policy; secrets: its two rows, once they *)
(* are flushed; loaded: repo.policy; auth: the token it was let in with, and     *)
(* when.                                                                    *)
Tx == [ pc       : TxSteps \cup {"idle", "done", "failed", "refused"},
        existing : BOOLEAN,
        slug     : Slugs \cup {None},
        renames  : BOOLEAN,
        secrets  : SUBSET Secret,
        loaded   : Policy \cup {None},
        writes   : BOOLEAN,
        auth     : [token : Bearer, at : Nat] \cup {None} ]

NoTx == [ pc |-> "idle", existing |-> FALSE, slug |-> None, renames |-> FALSE,
          secrets |-> {}, loaded |-> None, writes |-> FALSE, auth |-> None ]

(* floor: created_at of the newest secret that was committed when r began.     *)
Rd == [ pc     : {"idle", "repo", "secret", "policy", "done", "failed"},
        kind   : {"hook", "scan"},
        floor  : Nat,
        secret : Secret \cup {None},
        policy : Policy \cup {None} ]

NoRd == [pc |-> "idle", kind |-> "hook", floor |-> 0, secret |-> None, policy |-> None]

RTypeOK ==
  /\ row \in Rows
  /\ tx \in [Writers -> Tx]
  /\ rd \in [Readers -> Rd]
  /\ stamp \in Nat
  /\ now \in 0 .. MaxNow
  /\ key \in 1 .. MaxKey
  /\ bearer \in Bearer \cup {None}
  /\ shared \in SUBSET Writers
  /\ last \in Writers \cup {None}

RInit ==
  /\ row = [repos |-> 0, slug |-> None, tokens |-> {}, hooks |-> {}, policy |-> None]
  /\ tx = [w \in Writers |-> NoTx]
  /\ rd = [r \in Readers |-> NoRd]
  /\ stamp = 0
  /\ now = 0
  /\ key = 1
  /\ bearer = None
  /\ shared = {}
  /\ last = None

Open(w) == tx[w].pc \in TxSteps

Go(w, pc) == tx' = [tx EXCEPT ![w].pc = pc]

(* get_session rolls back and raises again: nothing of w stays.               *)
RollBack(w, pc) == tx' = [tx EXCEPT ![w] = [NoTx EXCEPT !.pc = pc, !.auth = tx[w].auth]]

Begin(w, first) ==
  /\ tx[w].pc = "idle"
  /\ tx' = [tx EXCEPT ![w] = first]
  /\ shared' = shared \cup
       (IF \E v \in Writers : Open(v) THEN {v \in Writers : Open(v)} \cup {w} ELSE {})

AdminState == <<now, key, bearer>>

-----------------------------------------------------------------------------
(* api/auth.py.                                                              *)

Login ==
  /\ bearer' = [iat |-> now, exp |-> now + Ttl, key |-> key]
  /\ UNCHANGED <<row, tx, rd, stamp, now, key, shared, last>>

Tick ==
  /\ now < MaxNow
  /\ now' = now + 1
  /\ UNCHANGED <<row, tx, rd, stamp, key, bearer, shared, last>>

(* Mutation: the expiry is not looked at.                                     *)
AnyAge == bearer # None /\ bearer.key = key

(* verify_token: the signature is made with the vault key, and a token is      *)
(* still good in the second in which it expires.                             *)
Authorised == bearer # None /\ bearer.key = key /\ now <= bearer.exp

Refuse(q) ==
  /\ tx[q].pc = "idle"
  /\ ~ Authorised
  /\ Go(q, "refused")
  /\ UNCHANGED <<row, rd, stamp, AdminState, shared, last>>

-----------------------------------------------------------------------------
(* create_repo.                                                              *)

(* The SELECT for an existing row.                                           *)
FindRepo(q) ==
  /\ Authorised
  /\ Begin(q, [NoTx EXCEPT !.pc = IF row.repos > 0 THEN "load" ELSE "repo",
                           !.existing = row.repos > 0, !.slug = row.slug,
                           !.auth = [token |-> bearer, at |-> now]])
  /\ UNCHANGED <<row, rd, stamp, AdminState, last>>

(* Mutation: the table has no unique constraint.                             *)
NobodyInserts(q) == TRUE

(* An INSERT of the key of an uncommitted row waits for its transaction.       *)
InsertMayGo(q) ==
  ~ \E v \in Admins \ {q} : ~ tx[v].existing /\ tx[v].pc \in {"load", "policy", "commit"}

InsertRepo(q) ==
  /\ tx[q].pc = "repo"
  /\ InsertMayGo(q)
  /\ \/ row.repos = 0 /\ Go(q, "load")
     \/ row.repos > 0 /\ RollBack(q, "failed")  \* uq_repo_provider_extid
  /\ UNCHANGED <<row, rd, stamp, AdminState, shared, last>>

(* Mutation: the whole transaction of the other one is waited for.            *)
NobodyElseOpen(w) == \A v \in Writers \ {w} : ~ Open(v)

(* The repository was there, with another slug.                              *)
Renames(q) == tx[q].existing /\ tx[q].slug # Slug[q]

(* A row that another transaction wrote stays locked until that one ends.      *)
RepoIsFree(w)   == \A v \in Writers \ {w} : ~ tx[v].renames
PolicyIsFree(w) == \A v \in Writers \ {w} : ~ tx[v].writes

(* The lookup of repo.policy is a lazy load: it flushes first, the UPDATE of a   *)
(* slug that differs, then the two new secrets, which get their created_at, and  *)
(* then reads; in a build whose asynchronous session does not load lazily it     *)
(* raises instead. (The foreign keys of the INSERTs share the row with an UPDATE  *)
(* that leaves its key alone.)                                               *)
LoadPolicy(q) ==
  /\ tx[q].pc = "load"
  /\ \/ /\ Renames(q) => RepoIsFree(q)
        /\ stamp' = stamp + 1
        /\ tx' = [tx EXCEPT ![q] =
             [@ EXCEPT !.pc = "policy", !.loaded = row.policy, !.renames = Renames(q),
                       !.secrets = {[by |-> q, at |-> stamp + 1, key |-> key]}]]
     \/ "lazy" \in Faults /\ RollBack(q, "failed") /\ UNCHANGED stamp
  /\ UNCHANGED <<row, rd, AdminState, shared, last>>

(* The second flush: INSERT of a row that was not there, else an UPDATE.      *)
WritePolicy(q) ==
  /\ tx[q].pc = "policy"
  /\ IF tx[q].loaded = Asked[q]
     THEN Go(q, "commit")
     ELSE /\ PolicyIsFree(q)
          /\ IF tx[q].loaded = None /\ row.policy # None
             THEN RollBack(q, "failed")
             ELSE tx' = [tx EXCEPT ![q] = [@ EXCEPT !.pc = "commit", !.writes = TRUE]]
  /\ UNCHANGED <<row, rd, stamp, AdminState, shared, last>>

(* SQLAlchemy updates the columns that differ from what was loaded.            *)
Column(asked, loaded, current) == IF asked # loaded THEN asked ELSE current

(* Mutation: a policy that was there is kept.                                *)
PolicyAsLoaded(q) == IF tx[q].loaded = None THEN Asked[q] ELSE tx[q].loaded

PolicyAfter(q) ==
  LET a == Asked[q]
      l == tx[q].loaded
      c == row.policy
  IN  IF l = None THEN a
      ELSE [ severity_gate |-> Column(a.severity_gate, l.severity_gate, c.severity_gate),
             merge_block   |-> Column(a.merge_block, l.merge_block, c.merge_block),
             ignore_globs  |-> Column(a.ignore_globs, l.ignore_globs, c.ignore_globs) ]

(* Mutation: the repository is committed on its own, as by a commit in the      *)
(* place of the first flush.                                                 *)
TokenOnly(q) == [row EXCEPT !.repos = 1, !.tokens = @ \cup tx[q].secrets]

SlugAfter(q) == IF tx[q].existing /\ ~ tx[q].renames THEN row.slug ELSE Slug[q]

RowsAfter(q) ==
  [ repos  |-> IF tx[q].existing THEN row.repos ELSE row.repos + 1,
    slug   |-> SlugAfter(q),
    tokens |-> row.tokens \cup tx[q].secrets,
    hooks  |-> row.hooks \cup tx[q].secrets,
    policy |-> PolicyAfter(q) ]

Commit(q) ==
  /\ tx[q].pc = "commit"
  /\ row' = RowsAfter(q)
  /\ tx' = [tx EXCEPT ![q] = [@ EXCEPT !.pc = "done", !.renames = FALSE, !.writes = FALSE]]
  /\ last' = q
  /\ UNCHANGED <<rd, stamp, AdminState, shared>>

-----------------------------------------------------------------------------
(* _add_ignore_glob.                                                         *)

(* A repository that is not registered has no policy to write.                *)
FindPolicy(g) ==
  /\ Begin(g, [NoTx EXCEPT !.pc = IF row.repos > 0 THEN "load" ELSE "done",
                           !.existing = row.repos > 0])
  /\ UNCHANGED <<row, rd, stamp, AdminState, last>>

LoadGlobs(g) ==
  /\ tx[g].pc = "load"
  /\ \/ tx' = [tx EXCEPT ![g] = [@ EXCEPT !.pc = "policy", !.loaded = row.policy]]
     \/ "lazy" \in Faults /\ RollBack(g, "failed")
  /\ UNCHANGED <<row, rd, stamp, AdminState, shared, last>>

GlobsBefore(g) == IF tx[g].loaded = None THEN {} ELSE tx[g].loaded.ignore_globs

NewList(g) == GlobsBefore(g) \cup {Pattern[g]}

(* The list as it was read, with the pattern; no UPDATE if it is in the list.  *)
WriteGlobs(g) ==
  /\ tx[g].pc = "policy"
  /\ IF Pattern[g] \in GlobsBefore(g)
     THEN Go(g, "done")
     ELSE /\ PolicyIsFree(g)
          /\ tx' = [tx EXCEPT ![g] = [@ EXCEPT !.pc = "commit", !.writes = TRUE]]
  /\ UNCHANGED <<row, rd, stamp, AdminState, shared, last>>

CommitGlobs(g) ==
  /\ tx[g].pc = "commit"
  /\ row' = [row EXCEPT !.policy =
               [(IF tx[g].loaded = None THEN Defaults ELSE @)
                  EXCEPT !.ignore_globs = NewList(g)]]
  /\ tx' = [tx EXCEPT ![g] = [@ EXCEPT !.pc = "done", !.writes = FALSE]]
  /\ last' = g
  /\ UNCHANGED <<rd, stamp, AdminState, shared>>

-----------------------------------------------------------------------------
(* Any await of a transaction can raise.                                      *)
WriterFails(w) ==
  /\ "request" \in Faults
  /\ Open(w)
  /\ RollBack(w, "failed")
  /\ UNCHANGED <<row, rd, stamp, AdminState, shared, last>>

(* The processes restart, with the same vault key or with the next one.        *)
Restart ==
  /\ "restart" \in Faults
  /\ key < MaxKey
  /\ key' = key + 1
  /\ tx' = [w \in Writers |->
              IF Open(w) THEN [NoTx EXCEPT !.pc = "failed", !.auth = tx[w].auth] ELSE tx[w]]
  /\ rd' = [r \in Readers |-> IF rd[r].pc \in {"repo", "secret", "policy"}
                              THEN [rd[r] EXCEPT !.pc = "failed"] ELSE rd[r]]
  /\ UNCHANGED <<row, stamp, now, bearer, shared, last>>

-----------------------------------------------------------------------------
(* repos.py.                                                                 *)

Newest(S) == CHOOSE s \in S : \A t \in S : t.at <= s.at

(* Mutation: the order of created_at is ascending.                           *)
Oldest(S) == CHOOSE s \in S : \A t \in S : s.at <= t.at

(* order_by(created_at.desc()).first().                                      *)
FirstOf(S) == Newest(S)

Kept(kind) == IF kind = "hook" THEN row.hooks ELSE row.tokens

LookUp(r, kind) ==
  /\ rd[r].pc = "idle"
  /\ rd' = [rd EXCEPT ![r] =
       [NoRd EXCEPT !.pc = "repo", !.kind = kind,
                    !.floor = IF Kept(kind) = {} THEN 0 ELSE Newest(Kept(kind)).at]]
  /\ UNCHANGED <<row, tx, stamp, AdminState, shared, last>>

(* A repository that is not there has no secret (the gateway falls back on the   *)
(* environment, the worker has no token) and no policy but the configured one.  *)
ReadRepo(r) ==
  /\ rd[r].pc = "repo"
  /\ rd' = [rd EXCEPT ![r].pc = IF row.repos > 0 THEN "secret" ELSE "done"]
  /\ UNCHANGED <<row, tx, stamp, AdminState, shared, last>>

ReadSecret(r) ==
  /\ rd[r].pc = "secret"
  /\ LET S == Kept(rd[r].kind)
         next == IF rd[r].kind = "hook" THEN "done" ELSE "policy"
     IN  IF S = {} THEN rd' = [rd EXCEPT ![r].pc = next]
         ELSE IF FirstOf(S).key = key
         THEN rd' = [rd EXCEPT ![r] = [@ EXCEPT !.pc = next, !.secret = FirstOf(S)]]
         ELSE rd' = [rd EXCEPT ![r].pc = "failed"]  \* VaultError
  /\ UNCHANGED <<row, tx, stamp, AdminState, shared, last>>

ReadPolicy(r) ==
  /\ rd[r].pc = "policy"
  /\ \/ rd' = [rd EXCEPT ![r] = [@ EXCEPT !.pc = "done", !.policy = row.policy]]
     \/ "lazy" \in Faults /\ rd' = [rd EXCEPT ![r].pc = "failed"]
  /\ UNCHANGED <<row, tx, stamp, AdminState, shared, last>>

-----------------------------------------------------------------------------

AdminStep(q) == InsertRepo(q) \/ LoadPolicy(q) \/ WritePolicy(q) \/ Commit(q)
DialogStep(g) == LoadGlobs(g) \/ WriteGlobs(g) \/ CommitGlobs(g)
ReaderStep(r) == ReadRepo(r) \/ ReadSecret(r) \/ ReadPolicy(r)

RNext ==
  \/ Login \/ Tick \/ Restart
  \/ \E q \in Admins : Refuse(q) \/ FindRepo(q) \/ AdminStep(q)
  \/ \E g \in Dialogs : FindPolicy(g) \/ DialogStep(g)
  \/ \E w \in Writers : WriterFails(w)
  \/ \E r \in Readers : \/ \E kind \in {"hook", "scan"} : LookUp(r, kind)
                        \/ ReaderStep(r)

RSpec == RInit /\ [][RNext]_rVars

(* Coroutines whose await is over go on.                                      *)
RFairSpec ==
  /\ RSpec
  /\ \A q \in Admins : WF_rVars(AdminStep(q))
  /\ \A g \in Dialogs : WF_rVars(DialogStep(g))

-----------------------------------------------------------------------------

(* A registration is there as a whole or not at all, whatever raced or failed:   *)
(* one row per repository, so that scalar_one_or_none never raises; with it a    *)
(* token, a webhook secret and a policy; the newest token and the newest        *)
(* webhook secret of one and the same request; and no secret of a request that   *)
(* did not end well.                                                         *)
RegistrationIsWhole ==
  /\ row.repos <= 1
  /\ (row.repos = 0) => (row.tokens = {} /\ row.hooks = {} /\ row.policy = None)
  /\ (row.repos = 1) =>
       /\ row.tokens # {} /\ row.hooks # {} /\ row.policy # None
       /\ Newest(row.tokens).by = Newest(row.hooks).by
  /\ \A s \in row.tokens \cup row.hooks : tx[s.by].pc = "done"

(* A registration that no other writer overlapped and none followed is what     *)
(* the gateway and the worker find: its secrets are the newest ones, and the     *)
(* slug and the policy are the ones it asked for.                            *)
IsolatedRegistrationHolds ==
  (last \in Admins /\ last \notin shared) =>
    /\ Newest(row.hooks).by = last
    /\ Newest(row.tokens).by = last
    /\ row.slug = Slug[last]
    /\ row.policy = Asked[last]

(* A lookup that begins after a registration committed never falls back on the    *)
(* environment, on no token or on the default policy, and never returns a        *)
(* secret older than the newest of that moment.                              *)
LookupsAreCurrent ==
  \A r \in Readers :
    rd[r].pc = "done" =>
      /\ rd[r].floor > 0 => (rd[r].secret # None /\ rd[r].secret.at >= rd[r].floor)
      /\ (rd[r].secret # None /\ rd[r].kind = "scan") => rd[r].policy # None

(* Every secret was registered by a request that was let in within Ttl of a       *)
(* login, by a process with the key that the secret is encrypted with: no token   *)
(* outlives a change of the vault key.                                       *)
WorkIsAuthorised ==
  \A s \in row.tokens :
    LET auth == tx[s.by].auth
    IN  auth.at <= auth.token.iat + Ttl /\ auth.token.key = s.key

(* The transactions wait for each other's rows, of the repository while it is     *)
(* inserted or renamed and then of its policy, and yet every one of them ends.   *)
RequestsEnd == \A w \in Writers : Open(w) ~> ~ Open(w)

=============================================================================
