-------------------------- MODULE RepoRegistryProofs --------------------------
(***************************************************************************)
(* The registry, for any number of requests, dialogs and lookups and whatever   *)
(* fails: a registration is whole, one that nobody overlapped holds, lookups    *)
(* are current, and every secret was registered under a good token.           *)
(*                                                                         *)
(* The argument: the unique constraint admits one transaction that inserts, and *)
(* only while there is no repository, so that every other one read a policy     *)
(* that was there; a secret that is committed belongs to a transaction that is  *)
(* over, and its created_at is not later than the stamp; while a transaction    *)
(* that nobody overlaps is open the rows stay what it read, so that the slug and *)
(* the policy it leaves are what it asked for and its secrets are the newest.   *)
(***************************************************************************)
EXTENDS RepoRegistry, TLAPS

Auth == [token : Bearer, at : Nat]

(* What verify_token made sure of when it let a request in.                    *)
InTime(auth) == auth \in Auth /\ auth.at <= auth.token.iat + Ttl

HasNewest(S) == \E s \in S : \A t \in S : t.at <= s.at

(* The committed rows.                                                       *)
Earned(s) ==
  /\ tx[s.by].pc = "done"
  /\ InTime(tx[s.by].auth)
  /\ tx[s.by].auth.token.key = s.key
  /\ s.at <= stamp

RowsOK ==
  /\ row.hooks = row.tokens
  /\ row.repos \in {0, 1}
  /\ row.repos = 0 => row.tokens = {} /\ row.policy = None
  /\ row.repos = 1 => row.tokens # {} /\ row.policy # None
  /\ row.tokens # {} => HasNewest(row.tokens)
  /\ \A s \in row.tokens : Earned(s)

(* An open transaction that is about to insert the repository.                 *)
Inserting(w) == ~ tx[w].existing /\ tx[w].pc \in {"load", "policy", "commit"}

Flushed(w) == tx[w].pc \in {"policy", "commit"}

WriterOK(w) ==
  /\ (Open(w) /\ tx[w].existing) => row.repos = 1
  /\ Inserting(w) => row.repos = 0
  /\ (Open(w) /\ w \in Dialogs) => tx[w].existing
  /\ Flushed(w) => (tx[w].loaded = None <=> ~ tx[w].existing)
  /\ (Open(w) /\ w \in Admins) => InTime(tx[w].auth) /\ tx[w].auth.token.key = key
  /\ (Flushed(w) /\ w \in Admins) =>
       \E s \in tx[w].secrets :
         tx[w].secrets = {s} /\ s.by = w /\ s.key = key /\ s.at <= stamp

OneInserter ==
  \A v, w \in Admins : Inserting(v) /\ Inserting(w) => v = w

(* Nobody overlaps w, and the rows are what it read; the slug that it will leave   *)
(* is the one of its request.                                                *)
AloneOK(w) ==
  (Open(w) /\ w \notin shared) =>
    /\ \A v \in Writers : Open(v) => v = w
    /\ Flushed(w) => tx[w].loaded = row.policy
    /\ (w \in Admins /\ tx[w].pc = "load" /\ tx[w].existing) => tx[w].slug = row.slug
    /\ (Flushed(w) /\ w \in Admins) => SlugAfter(w) = Slug[w]
    /\ (Flushed(w) /\ w \in Admins) =>
         \A s \in tx[w].secrets, t \in row.tokens : t.at < s.at

LastOK ==
  last \in Admins =>
    /\ tx[last].pc = "done"
    /\ last \notin shared =>
         /\ row.slug = Slug[last]
         /\ row.policy = Asked[last]
         /\ \E s \in row.tokens : s.by = last /\ \A t \in row.tokens : t # s => t.at < s.at

(* What a lookup has read is still there, or something newer.                  *)
ReaderOK(r) ==
  /\ rd[r].pc \in {"repo", "secret"} =>
       /\ rd[r].secret = None
       /\ (rd[r].floor > 0) => \E s \in Kept(rd[r].kind) : s.at >= rd[r].floor
  /\ rd[r].pc \in {"policy", "done"} =>
       (rd[r].floor > 0 => rd[r].secret # None /\ rd[r].secret.at >= rd[r].floor)
  /\ (rd[r].pc = "policy" /\ rd[r].secret # None) => row.repos = 1
  /\ (rd[r].pc = "done" /\ rd[r].secret # None /\ rd[r].kind = "scan") => rd[r].policy # None

BearerOK == bearer # None => bearer.exp = bearer.iat + Ttl

TxOK == (\A w \in Writers : WriterOK(w) /\ AloneOK(w)) /\ OneInserter

RInv ==
  /\ RTypeOK /\ RowsOK /\ TxOK /\ LastOK /\ BearerOK
  /\ \A r \in Readers : ReaderOK(r)

-----------------------------------------------------------------------------

(* order_by(created_at.desc()).first() returns a row of the table, and none is    *)
(* newer, in a table that has a newest row at all.                             *)
LEMMA NewestIsNewest ==
  ASSUME NEW S, HasNewest(S)
  PROVE  Newest(S) \in S /\ \A t \in S : t.at <= Newest(S).at
BY DEF HasNewest, Newest

(* A row that is inserted leaves the table with a newest row.                  *)
LEMMA NewestStays ==
  ASSUME NEW S \in SUBSET Secret, NEW s \in Secret, S # {} => HasNewest(S)
  PROVE  HasNewest(S \cup {s})
<1>1. \A t \in Secret : t.at \in Nat BY DEF Secret
<1>2. CASE S = {} BY <1>1, <1>2 DEF HasNewest
<1>3. CASE S # {}
  <2>1. PICK n \in S : \A t \in S : t.at <= n.at BY <1>3 DEF HasNewest
  <2>2. CASE n.at <= s.at BY <1>1, <2>1, <2>2 DEF HasNewest
  <2>3. CASE s.at <= n.at BY <1>1, <2>1, <2>3 DEF HasNewest
  <2>4. QED BY <1>1, <2>1, <2>2, <2>3
<1>4. QED BY <1>2, <1>3

(* What is left of a transaction that is rolled back is well typed.             *)
LEMMA RolledBackTyped ==
  ASSUME RTypeOK, NEW w \in Writers, NEW pc \in {"failed", "refused"}
  PROVE  [NoTx EXCEPT !.pc = pc, !.auth = tx[w].auth] \in Tx
<1>1. tx[w].auth \in [token : Bearer, at : Nat] \cup {None} BY DEF RTypeOK, Tx
<1>2. NoTx \in Tx BY DEF NoTx, Tx, TxSteps
<1>3. QED BY <1>1, <1>2 DEF Tx

(* The fields of the transaction of a writer.                                *)
LEMMA TxTyped ==
  ASSUME RTypeOK, NEW w \in Writers
  PROVE  /\ tx[w] \in Tx
         /\ tx[w].pc \in TxSteps \cup {"idle", "done", "failed", "refused"}
         /\ tx[w].secrets \in SUBSET Secret
         /\ tx[w].loaded \in Policy \cup {None}
         /\ tx[w].existing \in BOOLEAN
         /\ tx[w].slug \in Slugs \cup {None}
         /\ tx[w].renames \in BOOLEAN
         /\ tx[w] = [ pc |-> tx[w].pc, existing |-> tx[w].existing, slug |-> tx[w].slug,
                      renames |-> tx[w].renames, secrets |-> tx[w].secrets,
                      loaded |-> tx[w].loaded, writes |-> tx[w].writes, auth |-> tx[w].auth ]
BY DEF RTypeOK, Tx

-----------------------------------------------------------------------------
(* The steps of a writer that commit nothing.                                 *)

(* The transaction of w becomes y, and the committed rows stay as they are.     *)
Becomes(w, y) ==
  /\ tx' = [tx EXCEPT ![w] = y]
  /\ stamp' \in Nat /\ stamp' >= stamp
  /\ shared' \in SUBSET Writers /\ shared \subseteq shared'
  /\ UNCHANGED <<row, rd, now, key, bearer, last>>

(* What is true of the others stays true of them, if y is all right and does not   *)
(* begin beside one that believes to be alone.                                *)
LEMMA BecomesKeeps ==
  ASSUME RInv, NEW w \in Writers, NEW y \in Tx, Becomes(w, y),
         tx[w].pc # "done",
         WriterOK(w)', AloneOK(w)',
         Inserting(w)' => Inserting(w) \/ \A v \in Admins : ~ Inserting(v),
         Open(w)' => Open(w) \/ \A v \in Writers : Open(v) => v \in shared'
  PROVE  RInv'
<1> USE DEF Becomes
<1>1. /\ \A v \in Writers \ {w} : tx'[v] = tx[v]
      /\ tx'[w] = y
      /\ tx' \in [Writers -> Tx]
  BY DEF RInv, RTypeOK
<1>2. RTypeOK' BY <1>1 DEF RInv, RTypeOK
<1>3. ASSUME NEW s \in row.tokens PROVE Earned(s)'
  <2>1. Earned(s) /\ s.by \in Admins /\ s.at \in Nat
    BY DEF RInv, RowsOK, RTypeOK, Rows, Secret
  <2>2. s.by \in Writers \ {w} BY <2>1 DEF Earned, Writers
  <2>3. QED BY <1>1, <2>1, <2>2 DEF Earned, InTime, RInv, RTypeOK
<1>4. RowsOK' BY <1>3 DEF RInv, RowsOK
<1>5. ASSUME NEW v \in Writers PROVE WriterOK(v)'
  <2>1. CASE v = w BY <2>1
  <2>2. CASE v # w
    <3>1. WriterOK(v) /\ tx'[v] = tx[v] BY <1>1, <2>2 DEF RInv, TxOK
    <3>2. \A s \in tx[v].secrets : s.at <= stamp => s.at <= stamp'
      BY TxTyped DEF RInv, RTypeOK, Secret
    <3>3. QED BY <3>1, <3>2 DEF WriterOK, Open, Inserting, Flushed, InTime
  <2>3. QED BY <2>1, <2>2
<1>6. ASSUME NEW v \in Writers PROVE AloneOK(v)'
  <2>1. CASE v = w BY <2>1
  <2>2. CASE v # w
    <3>1. AloneOK(v) /\ tx'[v] = tx[v] BY <1>1, <2>2 DEF RInv, TxOK
    <3> SUFFICES ASSUME Open(v)', v \notin shared' PROVE AloneOK(v)'
      BY DEF AloneOK
    <3>2. Open(v) /\ v \notin shared BY <3>1 DEF Open
    <3>3. ~ Open(w) BY <2>2, <3>1, <3>2 DEF AloneOK
    <3>4. ~ Open(w)' BY <3>2, <3>3
    <3>5. ASSUME NEW u \in Writers, Open(u)' PROVE u = v
      BY <1>1, <3>1, <3>2, <3>4, <3>5 DEF AloneOK, Open
    <3>6. QED BY <3>1, <3>2, <3>5 DEF AloneOK, Open, Flushed, SlugAfter
  <2>3. QED BY <2>1, <2>2
<1>7. OneInserter'
  <2> SUFFICES ASSUME NEW u \in Admins, NEW v \in Admins, Inserting(u)', Inserting(v)'
               PROVE  u = v
    BY DEF OneInserter
  <2>1. \A x \in Admins : x # w => (Inserting(x)' <=> Inserting(x))
    BY <1>1 DEF Inserting, Writers
  <2>2. QED BY <2>1 DEF RInv, TxOK, OneInserter
<1>8. LastOK'
  <2>1. (last \in Admins) => (last # w /\ last \in Writers) BY DEF RInv, LastOK, Writers
  <2>2. QED BY <1>1, <2>1 DEF RInv, LastOK
<1>9. BearerOK' /\ \A r \in Readers : ReaderOK(r)'
  BY DEF RInv, BearerOK, ReaderOK, Kept
<1> QED BY <1>2, <1>4, <1>5, <1>6, <1>7, <1>8, <1>9 DEF RInv, TxOK

(* A transaction that is over without a commit has no part in any of it.        *)
LEMMA EndKeeps ==
  ASSUME RInv, NEW w \in Writers, NEW y \in Tx, Becomes(w, y),
         tx[w].pc # "done", y.pc \notin TxSteps
  PROVE  RInv'
<1>1. tx'[w] = y BY DEF Becomes, RInv, RTypeOK
<1>2. ~ Open(w)' /\ ~ Inserting(w)' /\ ~ Flushed(w)'
  BY <1>1 DEF Open, Inserting, Flushed, TxSteps
<1>3. WriterOK(w)' /\ AloneOK(w)' BY <1>2 DEF WriterOK, AloneOK
<1> QED BY <1>2, <1>3, BecomesKeeps

(* Of rolling back, then.                                                    *)
LEMMA RollBackKeeps ==
  ASSUME RInv, NEW w \in Writers, NEW pc \in {"failed", "refused"}, RollBack(w, pc),
         tx[w].pc # "done", UNCHANGED <<row, rd, stamp, AdminState, shared, last>>
  PROVE  RInv'
<1> DEFINE z == [NoTx EXCEPT !.pc = pc, !.auth = tx[w].auth]
<1>1. PICK y \in Tx : y = z BY RolledBackTyped DEF RInv
<1>2. y.pc = pc BY <1>1 DEF NoTx
<1>3. Becomes(w, y) BY <1>1 DEF Becomes, RollBack, AdminState, RInv, RTypeOK
<1> QED BY <1>2, <1>3, EndKeeps DEF TxSteps

(* A request that verify_token refuses has no transaction.                     *)
LEMMA RefuseKeeps ==
  ASSUME RInv, NEW q \in Admins, Refuse(q)
  PROVE  RInv'
<1> DEFINE z == [tx[q] EXCEPT !.pc = "refused"]
<1>1. q \in Writers BY DEF Writers
<1>2. z \in Tx BY <1>1, TxTyped DEF RInv, Tx
<1>3. PICK y \in Tx : y = z BY <1>2
<1>4. y.pc = "refused" BY <1>1, <1>3, TxTyped DEF RInv
<1>5. Becomes(q, y)
  BY <1>1, <1>3 DEF Refuse, Go, Becomes, AdminState, RInv, RTypeOK
<1> QED BY <1>1, <1>4, <1>5, EndKeeps DEF TxSteps, Refuse

(* An error in an open transaction rolls it back.                              *)
LEMMA FailsKeeps ==
  ASSUME RInv, NEW w \in Writers, WriterFails(w)
  PROVE  RInv'
BY RollBackKeeps DEF WriterFails, Open, TxSteps

(* An INSERT succeeds only while there is no row, and no other transaction is     *)
(* past its own.                                                             *)
LEMMA InsertKeeps ==
  ASSUME RInv, NEW q \in Admins, InsertRepo(q)
  PROVE  RInv'
<1>1. q \in Writers /\ tx[q].pc = "repo" BY DEF InsertRepo, Writers
<1>2. CASE row.repos > 0 /\ RollBack(q, "failed")
  BY <1>1, <1>2, RollBackKeeps DEF InsertRepo
<1>3. CASE row.repos = 0 /\ Go(q, "load")
  <2> DEFINE z == [tx[q] EXCEPT !.pc = "load"]
  <2>1. z \in Tx BY <1>1, TxTyped DEF RInv, Tx, TxSteps
  <2>2. PICK y \in Tx : y = z BY <2>1
  <2>3. y.pc = "load" /\ y.existing = tx[q].existing /\ y.auth = tx[q].auth
    BY <1>1, <2>2, TxTyped DEF RInv
  <2>4. Becomes(q, y)
    BY <1>1, <1>3, <2>2 DEF InsertRepo, Go, Becomes, AdminState, RInv, RTypeOK
  <2>5. tx'[q] = y BY <1>1, <2>4 DEF Becomes, RInv, RTypeOK
  <2>6. WriterOK(q) /\ AloneOK(q) /\ Open(q) BY <1>1 DEF RInv, TxOK, Open, TxSteps
  <2>7. ~ tx[q].existing BY <1>3, <2>6 DEF WriterOK
  <2>8. WriterOK(q)'
    BY <1>1, <1>3, <2>3, <2>4, <2>5, <2>6, <2>7
    DEF WriterOK, Open, Inserting, Flushed, InTime, Becomes, TxSteps
  <2>9. AloneOK(q)'
    BY <1>1, <2>3, <2>4, <2>5, <2>6, <2>7
    DEF AloneOK, Open, Flushed, Becomes, RInv, RTypeOK
  <2>10. \A v \in Admins : ~ Inserting(v)
    BY <1>1 DEF InsertRepo, InsertMayGo, Inserting
  <2>11. QED BY <1>1, <2>4, <2>6, <2>8, <2>9, <2>10, BecomesKeeps
<1>4. QED BY <1>2, <1>3 DEF InsertRepo

(* The two secrets of a request get the next stamp, so that they are newer than   *)
(* whatever is committed; the policy is the one of the moment.                 *)
LEMMA LoadKeeps ==
  ASSUME RInv, NEW q \in Admins, LoadPolicy(q)
  PROVE  RInv'
<1>1. q \in Writers /\ tx[q].pc = "load" BY DEF LoadPolicy, Writers
<1>2. CASE "lazy" \in Faults /\ RollBack(q, "failed") /\ UNCHANGED stamp
  BY <1>1, <1>2, RollBackKeeps DEF LoadPolicy
<1>3. CASE /\ stamp' = stamp + 1
           /\ tx' = [tx EXCEPT ![q] =
                [@ EXCEPT !.pc = "policy", !.loaded = row.policy, !.renames = Renames(q),
                          !.secrets = {[by |-> q, at |-> stamp + 1, key |-> key]}]]
  <2> DEFINE s0 == [by |-> q, at |-> stamp + 1, key |-> key]
             z  == [tx[q] EXCEPT !.pc = "policy", !.loaded = row.policy,
                                 !.renames = Renames(q), !.secrets = {s0}]
  <2>1. s0 \in Secret BY DEF Secret, RInv, RTypeOK
  <2>2. PICK s \in Secret : s = s0 BY <2>1
  <2>3. s.by = q /\ s.at = stamp + 1 /\ s.key = key BY <2>2
  <2>4. row.policy \in Policy \cup {None} BY DEF RInv, RTypeOK, Rows
  <2>5. tx[q] \in Tx BY <1>1, TxTyped DEF RInv
  <2>6. z \in Tx
    <3>1. Renames(q) \in BOOLEAN BY <2>5 DEF Renames, Tx
    <3>2. {s0} \in SUBSET Secret BY <2>1
    <3> HIDE DEF s0
    <3>3. QED BY <2>4, <2>5, <3>1, <3>2 DEF Tx, TxSteps
  <2>7. PICK y \in Tx : y = z BY <2>6
  <2>8. /\ y.pc = "policy" /\ y.existing = tx[q].existing /\ y.auth = tx[q].auth
        /\ y.loaded = row.policy /\ y.secrets = {s} /\ y.renames = Renames(q)
    BY <2>2, <2>5, <2>7 DEF Tx
  <2>9. Becomes(q, y)
    BY <1>1, <1>3, <2>7 DEF LoadPolicy, Becomes, AdminState, RInv, RTypeOK
  <2>10. tx'[q] = y /\ stamp' = stamp + 1 BY <1>1, <1>3, <2>9 DEF Becomes, RInv, RTypeOK
  <2>11. WriterOK(q) /\ AloneOK(q) /\ Open(q) BY <1>1 DEF RInv, TxOK, Open, TxSteps
  <2>12. Inserting(q)' <=> Inserting(q)
    BY <1>1, <2>8, <2>10 DEF Inserting
  <2>13. row.policy = None <=> ~ tx[q].existing
    BY <1>1, <2>11 DEF WriterOK, Inserting, Open, RInv, RowsOK
  <2>14. WriterOK(q)'
    BY <1>1, <2>3, <2>8, <2>9, <2>10, <2>11, <2>12, <2>13
    DEF WriterOK, Open, Flushed, InTime, Becomes, RInv, RTypeOK
  <2>15. \A t \in row.tokens : t.at < s.at
    BY <2>3 DEF RInv, RowsOK, Earned, RTypeOK, Rows, Secret
  <2>16. q \notin shared /\ tx[q].existing /\ ~ Renames(q) => row.slug = Slug[q]
    BY <1>1, <2>11 DEF AloneOK, Renames
  <2>17. (q \notin shared)' => (SlugAfter(q) = Slug[q])'
    BY <1>1, <2>8, <2>9, <2>10, <2>16 DEF SlugAfter, Becomes
  <2>18. AloneOK(q)'
    BY <1>1, <2>8, <2>9, <2>10, <2>11, <2>15, <2>17
    DEF AloneOK, Open, Flushed, Becomes, RInv, RTypeOK
  <2>19. QED BY <1>1, <2>9, <2>11, <2>12, <2>14, <2>18, BecomesKeeps
<1>4. QED BY <1>2, <1>3 DEF LoadPolicy

(* A transaction goes on to its COMMIT with what it has loaded.                *)
LEMMA FlushKeeps ==
  ASSUME RInv, NEW w \in Writers, tx[w].pc = "policy", NEW y \in Tx,
         tx' = [tx EXCEPT ![w] = y],
         y.pc = "commit", y.existing = tx[w].existing, y.auth = tx[w].auth,
         y.loaded = tx[w].loaded, y.secrets = tx[w].secrets, y.renames = tx[w].renames,
         UNCHANGED <<row, rd, stamp, AdminState, shared, last>>
  PROVE  RInv'
<1>1. Becomes(w, y) BY DEF Becomes, AdminState, RInv, RTypeOK
<1>2. tx'[w] = y BY <1>1 DEF Becomes, RInv, RTypeOK
<1>3. WriterOK(w) /\ AloneOK(w) /\ Open(w) BY DEF RInv, TxOK, Open, TxSteps
<1>4. WriterOK(w)'
  BY <1>1, <1>2, <1>3 DEF WriterOK, Open, Inserting, Flushed, InTime, Becomes, TxSteps
<1>5. AloneOK(w)'
  BY <1>1, <1>2, <1>3 DEF AloneOK, Open, Flushed, SlugAfter, Becomes, RInv, RTypeOK
<1>6. Inserting(w)' => Inserting(w) BY <1>2 DEF Inserting
<1>7. QED BY <1>1, <1>3, <1>4, <1>5, <1>6, BecomesKeeps

(* The second flush of a request.                                            *)
LEMMA WriteKeeps ==
  ASSUME RInv, NEW q \in Admins, WritePolicy(q)
  PROVE  RInv'
<1>1. q \in Writers /\ tx[q].pc = "policy" BY DEF WritePolicy, Writers
<1>2. tx[q] \in Tx /\ tx \in [Writers -> Tx] BY <1>1, TxTyped DEF RInv, RTypeOK
<1>3. CASE RollBack(q, "failed")
  BY <1>1, <1>3, RollBackKeeps DEF WritePolicy
<1>4. CASE Go(q, "commit")
  <2> DEFINE z == [tx[q] EXCEPT !.pc = "commit"]
  <2>1. z \in Tx BY <1>2 DEF Tx, TxSteps
  <2>2. PICK y \in Tx : y = z BY <2>1
  <2>3. tx' = [tx EXCEPT ![q] = y] BY <1>1, <1>2, <1>4, <2>2 DEF Go
  <2>4. /\ y.pc = "commit" /\ y.existing = tx[q].existing /\ y.auth = tx[q].auth
        /\ y.loaded = tx[q].loaded /\ y.secrets = tx[q].secrets
        /\ y.renames = tx[q].renames
    BY <1>2, <2>2 DEF Tx
  <2>5. QED BY <1>1, <2>3, <2>4, FlushKeeps DEF WritePolicy
<1>5. CASE tx' = [tx EXCEPT ![q] = [@ EXCEPT !.pc = "commit", !.writes = TRUE]]
  <2> DEFINE z == [tx[q] EXCEPT !.pc = "commit", !.writes = TRUE]
  <2>1. z \in Tx BY <1>2 DEF Tx, TxSteps
  <2>2. PICK y \in Tx : y = z BY <2>1
  <2>3. tx' = [tx EXCEPT ![q] = y] BY <1>1, <1>2, <1>5, <2>2
  <2>4. /\ y.pc = "commit" /\ y.existing = tx[q].existing /\ y.auth = tx[q].auth
        /\ y.loaded = tx[q].loaded /\ y.secrets = tx[q].secrets
        /\ y.renames = tx[q].renames
    BY <1>2, <2>2 DEF Tx
  <2>5. QED BY <1>1, <2>3, <2>4, FlushKeeps DEF WritePolicy
<1>6. QED BY <1>3, <1>4, <1>5 DEF WritePolicy

(* What _add_ignore_glob does before its COMMIT.                              *)
LEMMA GlobsKeep ==
  ASSUME RInv, NEW g \in Dialogs, LoadGlobs(g) \/ WriteGlobs(g)
  PROVE  RInv'
<1>1. g \in Writers /\ g \notin Admins BY RegistryAssumption DEF Writers
<1>2. tx[g] \in Tx /\ tx \in [Writers -> Tx] BY <1>1, TxTyped DEF RInv, RTypeOK
<1>3. UNCHANGED <<row, rd, stamp, AdminState, shared, last>> BY DEF LoadGlobs, WriteGlobs
<1>4. CASE tx[g].pc = "load" /\ RollBack(g, "failed")
  BY <1>1, <1>3, <1>4, RollBackKeeps
<1>5. CASE /\ tx[g].pc = "load"
           /\ tx' = [tx EXCEPT ![g] = [@ EXCEPT !.pc = "policy", !.loaded = row.policy]]
  <2> DEFINE z == [tx[g] EXCEPT !.pc = "policy", !.loaded = row.policy]
  <2>1. row.policy \in Policy \cup {None} BY DEF RInv, RTypeOK, Rows
  <2>2. z \in Tx BY <1>2, <2>1 DEF Tx, TxSteps
  <2>3. PICK y \in Tx : y = z BY <2>2
  <2>4. y.pc = "policy" /\ y.existing = tx[g].existing /\ y.loaded = row.policy
    BY <1>2, <2>3 DEF Tx
  <2>5. Becomes(g, y)
    BY <1>1, <1>3, <1>5, <2>3 DEF Becomes, AdminState, RInv, RTypeOK
  <2>6. tx'[g] = y /\ row' = row BY <1>1, <2>5 DEF Becomes, RInv, RTypeOK
  <2>7. WriterOK(g) /\ AloneOK(g) /\ Open(g) BY <1>1, <1>5 DEF RInv, TxOK, Open, TxSteps
  <2>8. tx[g].existing /\ row.repos = 1 BY <2>7 DEF WriterOK
  <2>9. row.policy # None BY <2>8 DEF RInv, RowsOK
  <2>10. WriterOK(g)'
    BY <1>1, <2>4, <2>6, <2>8, <2>9 DEF WriterOK, Open, Inserting, Flushed
  <2>11. AloneOK(g)'
    BY <1>1, <2>4, <2>5, <2>6, <2>7 DEF AloneOK, Open, Flushed, Becomes, RInv, RTypeOK
  <2>12. ~ Inserting(g)' BY <2>4, <2>6, <2>8 DEF Inserting
  <2>13. QED BY <1>1, <1>5, <2>5, <2>7, <2>10, <2>11, <2>12, BecomesKeeps
<1>6. CASE tx[g].pc = "policy" /\ Go(g, "done")
  <2> DEFINE z == [tx[g] EXCEPT !.pc = "done"]
  <2>1. z \in Tx BY <1>2 DEF Tx
  <2>2. PICK y \in Tx : y = z BY <2>1
  <2>3. y.pc = "done" BY <1>2, <2>2 DEF Tx
  <2>4. Becomes(g, y)
    BY <1>1, <1>2, <1>3, <1>6, <2>2 DEF Go, Becomes, AdminState, RInv, RTypeOK
  <2>5. QED BY <1>1, <1>6, <2>3, <2>4, EndKeeps DEF TxSteps
<1>7. CASE /\ tx[g].pc = "policy"
           /\ tx' = [tx EXCEPT ![g] = [@ EXCEPT !.pc = "commit", !.writes = TRUE]]
  <2> DEFINE z == [tx[g] EXCEPT !.pc = "commit", !.writes = TRUE]
  <2>1. z \in Tx BY <1>2 DEF Tx, TxSteps
  <2>2. PICK y \in Tx : y = z BY <2>1
  <2>3. tx' = [tx EXCEPT ![g] = y] BY <1>1, <1>2, <1>7, <2>2
  <2>4. /\ y.pc = "commit" /\ y.existing = tx[g].existing /\ y.auth = tx[g].auth
        /\ y.loaded = tx[g].loaded /\ y.secrets = tx[g].secrets
        /\ y.renames = tx[g].renames
    BY <1>2, <2>2 DEF Tx
  <2>5. QED BY <1>1, <1>3, <1>7, <2>3, <2>4, FlushKeeps
<1>8. QED BY <1>4, <1>5, <1>6, <1>7 DEF LoadGlobs, WriteGlobs

(* A transaction that begins beside others is shared, and so are they.           *)
LEMMA BeginKeeps ==
  ASSUME RInv, NEW w \in Writers, NEW y \in Tx, Begin(w, y),
         y.pc \in {"repo", "load", "done"},
         y.existing \in BOOLEAN, y.existing <=> row.repos > 0,
         y.pc = "load" => y.existing,
         w \in Dialogs => y.pc # "repo",
         w \in Admins => InTime(y.auth) /\ y.auth.token.key = key /\ y.slug = row.slug,
         UNCHANGED <<row, rd, stamp, AdminState, last>>
  PROVE  RInv'
<1>1. Becomes(w, y) BY DEF Begin, Becomes, AdminState, RInv, RTypeOK
<1>2. tx'[w] = y BY <1>1 DEF Becomes, RInv, RTypeOK
<1>3. ~ Open(w) BY DEF Begin, Open, TxSteps
<1>4. /\ \A v \in Writers : Open(v) => v \in shared'
      /\ w \notin shared' => \A v \in Writers : ~ Open(v)
  BY DEF Begin
<1>5. WriterOK(w)'
  BY <1>1, <1>2, RegistryAssumption
  DEF WriterOK, Open, Inserting, Flushed, InTime, Becomes, TxSteps, RInv, RowsOK
<1>6. AloneOK(w)'
  BY <1>1, <1>2, <1>4 DEF AloneOK, Open, Flushed, Becomes, RInv, RTypeOK
<1>7. ~ Inserting(w)' BY <1>2 DEF Inserting
<1>8. QED BY <1>1, <1>3, <1>4, <1>5, <1>6, <1>7, BecomesKeeps DEF Begin

(* The two SELECTs that begin a transaction.                                  *)
LEMMA FindKeeps ==
  ASSUME RInv,
         \/ \E q \in Admins : FindRepo(q)
         \/ \E g \in Dialogs : FindPolicy(g)
  PROVE  RInv'
<1>1. NoTx \in Tx BY DEF NoTx, Tx, TxSteps
<1>2. ASSUME NEW q \in Admins, FindRepo(q) PROVE RInv'
  <2> DEFINE a0 == [token |-> bearer, at |-> now]
             z  == [NoTx EXCEPT !.pc = IF row.repos > 0 THEN "load" ELSE "repo",
                                !.existing = row.repos > 0, !.slug = row.slug, !.auth = a0]
  <2>1. bearer \in Bearer /\ now \in Nat /\ row.repos \in Nat
    BY <1>2, RegistryAssumption DEF FindRepo, Authorised, RInv, RTypeOK, Rows
  <2>2. a0 \in Auth BY <2>1 DEF Auth
  <2>3. PICK a \in Auth : a = a0 BY <2>2
  <2>4. InTime(a) /\ a.token.key = key
    BY <1>2, <2>1, <2>3 DEF InTime, FindRepo, Authorised, RInv, BearerOK
  <2>5. PICK pc \in {"load", "repo"} : pc = IF row.repos > 0 THEN "load" ELSE "repo" OBVIOUS
  <2>6. PICK e \in BOOLEAN : e <=> (row.repos > 0) OBVIOUS
  <2>7. e = (row.repos > 0) BY <2>6 DEF RInv, RTypeOK, Rows
  <2>7a. row.slug \in Slugs \cup {None} BY DEF RInv, RTypeOK, Rows
  <2>8. PICK y \in Tx : y = [NoTx EXCEPT !.pc = pc, !.existing = e, !.slug = row.slug, !.auth = a]
    BY <1>1, <2>7a DEF Tx, TxSteps, Auth
  <2>9. y.pc = pc /\ y.existing = e /\ y.slug = row.slug /\ y.auth = a BY <1>1, <2>8 DEF Tx
  <2>10. y = z BY <2>3, <2>5, <2>7, <2>8
  <2>11. y.existing \in BOOLEAN /\ (y.existing <=> row.repos > 0) BY <2>6, <2>9
  <2>12. Begin(q, y) BY <1>2, <2>10 DEF FindRepo
  <2>13. q \in Writers /\ q \notin Dialogs BY RegistryAssumption DEF Writers
  <2>14. QED BY <1>2, <2>4, <2>5, <2>9, <2>11, <2>12, <2>13, BeginKeeps DEF FindRepo
<1>3. ASSUME NEW g \in Dialogs, FindPolicy(g) PROVE RInv'
  <2> DEFINE z == [NoTx EXCEPT !.pc = IF row.repos > 0 THEN "load" ELSE "done",
                               !.existing = row.repos > 0]
  <2>1. PICK pc \in {"load", "done"} : pc = IF row.repos > 0 THEN "load" ELSE "done" OBVIOUS
  <2>2. PICK e \in BOOLEAN : e <=> (row.repos > 0) OBVIOUS
  <2>3. e = (row.repos > 0) BY <2>2 DEF RInv, RTypeOK, Rows
  <2>4. PICK y \in Tx : y = [NoTx EXCEPT !.pc = pc, !.existing = e]
    BY <1>1 DEF Tx, TxSteps
  <2>5. y.pc = pc /\ y.existing = e BY <1>1, <2>4 DEF Tx
  <2>6. y = z BY <2>1, <2>3, <2>4
  <2>7. y.existing \in BOOLEAN /\ (y.existing <=> row.repos > 0) BY <2>2, <2>5
  <2>8. Begin(g, y) BY <1>3, <2>6 DEF FindPolicy
  <2>9. g \in Writers /\ g \notin Admins BY RegistryAssumption DEF Writers
  <2>10. QED BY <1>3, <2>1, <2>5, <2>7, <2>8, <2>9, BeginKeeps DEF FindPolicy
<1>4. QED BY <1>2, <1>3

-----------------------------------------------------------------------------
(* The commits.                                                              *)

(* What w commits replaces the rows by r, which has at least the secrets of       *)
(* before.  No other transaction can be about to insert, and none that is open    *)
(* can believe to be alone.                                                   *)
LEMMA CommitKeeps ==
  ASSUME RInv, NEW w \in Writers, tx[w].pc = "commit", NEW r \in Rows, row' = r,
         \E b \in BOOLEAN :
           tx' = [tx EXCEPT ![w] = [@ EXCEPT !.pc = "done", !.renames = b, !.writes = FALSE]],
         last' = w, UNCHANGED <<rd, stamp, AdminState, shared>>,
         row.hooks = row.tokens, r.hooks = r.tokens,
         r.repos = 1, r.policy # None, row.tokens \subseteq r.tokens, HasNewest(r.tokens),
         \A s \in r.tokens \ row.tokens : Earned(s)',
         LastOK'
  PROVE  RInv'
<1>1. tx[w] \in Tx /\ tx \in [Writers -> Tx] BY DEF RInv, RTypeOK
<1>1a. PICK b \in BOOLEAN :
         tx' = [tx EXCEPT ![w] = [@ EXCEPT !.pc = "done", !.renames = b, !.writes = FALSE]]
  OBVIOUS
<1> DEFINE z == [tx[w] EXCEPT !.pc = "done", !.renames = b, !.writes = FALSE]
<1>2. z \in Tx BY <1>1 DEF Tx
<1>3. PICK y \in Tx : y = z BY <1>2
<1>4. y.pc = "done" BY <1>1, <1>3 DEF Tx
<1>5. /\ \A v \in Writers \ {w} : tx'[v] = tx[v]
      /\ tx'[w] = y
      /\ tx' \in [Writers -> Tx]
  BY <1>1, <1>3, <1>1a
<1>6. RTypeOK' BY <1>5 DEF RInv, RTypeOK, AdminState
<1>7. ASSUME NEW s \in row.tokens PROVE Earned(s)'
  <2>1. Earned(s) /\ s.by \in Admins BY DEF RInv, RowsOK, RTypeOK, Rows, Secret
  <2>2. s.by \in Writers \ {w} BY <2>1 DEF Earned, Writers
  <2>3. QED BY <1>5, <2>1, <2>2 DEF Earned, InTime
<1>8. RowsOK'
  <2>1. \A s \in r.tokens : Earned(s)' BY <1>7
  <2>2. r.tokens # {} BY DEF HasNewest
  <2>3. QED BY <2>1, <2>2 DEF RowsOK
<1>9. WriterOK(w) /\ AloneOK(w) /\ Open(w) BY DEF RInv, TxOK, Open, TxSteps
<1>10. ~ Open(w)' /\ ~ Inserting(w)' /\ ~ Flushed(w)'
  BY <1>4, <1>5 DEF Open, Inserting, Flushed, TxSteps
<1>11. ASSUME NEW v \in Writers, v # w PROVE WriterOK(v)' /\ AloneOK(v)'
  <2>1. WriterOK(v) /\ AloneOK(v) /\ tx'[v] = tx[v] BY <1>5, <1>11 DEF RInv, TxOK
  <2>2. ~ Inserting(v)
    <3> SUFFICES ASSUME Inserting(v) PROVE FALSE OBVIOUS
    <3>1. row.repos = 0 /\ Open(v) /\ ~ tx[v].existing
      BY <2>1 DEF WriterOK, Inserting, Open, TxSteps
    <3>2. v \in Admins BY <2>1, <3>1 DEF WriterOK, Writers
    <3>3. ~ tx[w].existing BY <1>9, <3>1 DEF WriterOK
    <3>4. w \in Admins BY <1>9, <3>3 DEF WriterOK, Writers
    <3>5. Inserting(w) BY <3>3 DEF Inserting
    <3>6. QED BY <1>11, <3>2, <3>4, <3>5 DEF RInv, TxOK, OneInserter
  <2>3. WriterOK(v)'
    BY <2>1, <2>2 DEF WriterOK, Open, Inserting, Flushed, InTime, AdminState
  <2>4. Open(v) => v \in shared BY <1>9, <1>11, <2>1 DEF AloneOK
  <2>5. AloneOK(v)' BY <2>1, <2>4 DEF AloneOK, Open
  <2>6. QED BY <2>3, <2>5
<1>12. WriterOK(w)' /\ AloneOK(w)' BY <1>10 DEF WriterOK, AloneOK
<1>13. OneInserter'
  <2> SUFFICES ASSUME NEW u \in Admins, NEW v \in Admins, Inserting(u)', Inserting(v)'
               PROVE  u = v
    BY DEF OneInserter
  <2>1. u # w /\ v # w BY <1>10
  <2>2. Inserting(u) /\ Inserting(v) BY <1>5, <2>1 DEF Inserting, Writers
  <2>3. QED BY <2>2 DEF RInv, TxOK, OneInserter
<1>14. BearerOK' BY DEF RInv, BearerOK, AdminState
<1>15. ASSUME NEW x \in Readers PROVE ReaderOK(x)'
  <2>1. ReaderOK(x) /\ rd' = rd BY DEF RInv
  <2>2. Kept(rd[x].kind) \subseteq Kept(rd[x].kind)' BY <2>1 DEF Kept
  <2>3. QED BY <2>1, <2>2 DEF ReaderOK
<1> QED BY <1>6, <1>8, <1>11, <1>12, <1>13, <1>14, <1>15 DEF RInv, TxOK

(* A policy that is updated with what differs is the one that was asked for,     *)
(* if nobody has changed it in between.                                       *)
LEMMA UpdatedPolicy ==
  ASSUME NEW q \in Admins, row.policy \in Policy \cup {None},
         tx[q].loaded \in Policy \cup {None}, tx[q].loaded # None => row.policy # None
  PROVE  /\ PolicyAfter(q) \in Policy
         /\ tx[q].loaded = row.policy => PolicyAfter(q) = Asked[q]
<1>1. Asked[q] \in Policy BY RegistryAssumption
<1>2. CASE tx[q].loaded = None BY <1>1, <1>2 DEF PolicyAfter
<1>3. CASE tx[q].loaded # None
  <2>1. tx[q].loaded \in Policy /\ row.policy \in Policy BY <1>3
  <2>2. QED BY <1>1, <1>3, <2>1 DEF PolicyAfter, Column, Policy
<1>4. QED BY <1>2, <1>3

(* COMMIT of a request: repository, secrets and policy at a time.               *)
LEMMA RegisterKeeps ==
  ASSUME RInv, NEW q \in Admins, Commit(q)
  PROVE  RInv'
<1>1. q \in Writers /\ tx[q].pc = "commit" BY DEF Commit, Writers
<1>2. WriterOK(q) /\ AloneOK(q) /\ Open(q) /\ Flushed(q)
  BY <1>1 DEF RInv, TxOK, Open, Flushed, TxSteps
<1>3. PICK s \in tx[q].secrets :
        tx[q].secrets = {s} /\ s.by = q /\ s.key = key /\ s.at <= stamp
  BY <1>2 DEF WriterOK
<1>4. s \in Secret BY <1>1, TxTyped DEF RInv
<1>5. InTime(tx[q].auth) /\ tx[q].auth.token.key = key BY <1>2 DEF WriterOK
<1>6. /\ PolicyAfter(q) \in Policy
      /\ tx[q].loaded = row.policy => PolicyAfter(q) = Asked[q]
  <2>1. row.policy \in Policy \cup {None} BY DEF RInv, RTypeOK, Rows
  <2>2. tx[q].loaded \in Policy \cup {None} BY <1>1, TxTyped DEF RInv
  <2>3. tx[q].loaded # None => row.policy # None
    BY <1>2 DEF WriterOK, RInv, RowsOK
  <2>4. QED BY <2>1, <2>2, <2>3, UpdatedPolicy
<1>7. PICK policy \in Policy : policy = PolicyAfter(q) BY <1>6
<1>8. policy # None BY RegistryAssumption
<1>9. PICK tokens \in SUBSET Secret : tokens = row.tokens \cup {s}
  BY <1>4 DEF RInv, RTypeOK, Rows
<1>10. HasNewest(tokens)
  BY <1>4, <1>9, NewestStays DEF RInv, RTypeOK, Rows, RowsOK
<1>11. (IF tx[q].existing THEN row.repos ELSE row.repos + 1) = 1
  BY <1>1, <1>2 DEF WriterOK, Inserting
<1>11a. PICK slug \in Slugs \cup {None} : slug = SlugAfter(q)
  BY RegistryAssumption DEF SlugAfter, RInv, RTypeOK, Rows
<1>12. PICK r \in Rows : r = [ repos |-> 1, slug |-> slug, tokens |-> tokens, hooks |-> tokens,
                               policy |-> policy ]
  BY DEF Rows
<1>13. r.repos = 1 /\ r.slug = slug /\ r.tokens = tokens /\ r.hooks = tokens /\ r.policy = policy BY <1>12
<1>14. row.hooks = row.tokens BY DEF RInv, RowsOK
<1>15. row' = r BY <1>3, <1>7, <1>9, <1>11, <1>12, <1>14, <1>11a DEF Commit, RowsAfter
<1>16. tx'[q].pc = "done" /\ tx'[q].auth = tx[q].auth
  <2>1. tx[q] \in Tx /\ tx \in [Writers -> Tx] BY <1>1 DEF RInv, RTypeOK
  <2>2. tx'[q] = [tx[q] EXCEPT !.pc = "done", !.renames = FALSE, !.writes = FALSE]
    BY <1>1, <2>1 DEF Commit
  <2>3. QED BY <2>1, <2>2 DEF Tx
<1>17. Earned(s)'
  BY <1>3, <1>5, <1>16 DEF Earned, InTime, Commit, AdminState
<1>18. LastOK'
  <2>1. last' = q /\ shared' = shared BY DEF Commit
  <2>2. ASSUME q \notin shared PROVE policy = Asked[q] BY <1>2, <1>6, <1>7, <2>2 DEF AloneOK
  <2>3. ASSUME q \notin shared, NEW t \in tokens, t # s PROVE t.at < s.at
    BY <1>2, <1>3, <1>9, <2>3 DEF AloneOK
  <2>4. ASSUME q \notin shared PROVE slug = Slug[q] BY <1>2, <1>11a, <2>4 DEF AloneOK
  <2>5. QED BY <1>3, <1>9, <1>13, <1>15, <1>16, <2>1, <2>2, <2>3, <2>4 DEF LastOK
<1>19. \A x \in r.tokens \ row.tokens : Earned(x)' BY <1>9, <1>13, <1>17
<1>20. row.tokens \subseteq r.tokens BY <1>9, <1>13
<1>21. \E b \in BOOLEAN :
         tx' = [tx EXCEPT ![q] = [@ EXCEPT !.pc = "done", !.renames = b, !.writes = FALSE]]
  BY DEF Commit
<1>22. last' = q /\ UNCHANGED <<rd, stamp, AdminState, shared>> BY DEF Commit
<1>23. r.hooks = r.tokens /\ r.repos = 1 /\ r.policy # None /\ HasNewest(r.tokens)
  BY <1>8, <1>10, <1>13
<1> QED
  BY <1>1, <1>14, <1>15, <1>18, <1>19, <1>20, <1>21, <1>22, <1>23, CommitKeeps

(* COMMIT of a pattern: the list of the policy alone.                          *)
LEMMA AddGlobKeeps ==
  ASSUME RInv, NEW g \in Dialogs, CommitGlobs(g)
  PROVE  RInv'
<1>1. g \in Writers /\ g \notin Admins /\ tx[g].pc = "commit"
  BY RegistryAssumption DEF CommitGlobs, Writers
<1>2. WriterOK(g) /\ Open(g) /\ Flushed(g)
  BY <1>1 DEF RInv, TxOK, Open, Flushed, TxSteps
<1>3. tx[g].existing /\ row.repos = 1 /\ tx[g].loaded # None BY <1>2 DEF WriterOK
<1>4. tx[g].loaded \in Policy /\ row.policy \in Policy
  BY <1>1, <1>3, TxTyped DEF RInv, RTypeOK, Rows, RowsOK
<1>5. NewList(g) \in SUBSET Patterns
  BY <1>3, <1>4, RegistryAssumption DEF NewList, GlobsBefore, Policy
<1>6. PICK policy \in Policy : policy = [row.policy EXCEPT !.ignore_globs = NewList(g)]
  BY <1>4, <1>5 DEF Policy
<1>7. policy # None BY RegistryAssumption
<1>8. row \in Rows BY DEF RInv, RTypeOK
<1>9. PICK r \in Rows : r = [row EXCEPT !.policy = policy] BY <1>8 DEF Rows
<1>10. /\ r.repos = 1 /\ r.tokens = row.tokens /\ r.hooks = row.tokens /\ r.policy = policy
       /\ row.hooks = row.tokens /\ HasNewest(r.tokens)
  BY <1>3, <1>8, <1>9 DEF Rows, RInv, RowsOK
<1>11. row' = r BY <1>3, <1>6, <1>9 DEF CommitGlobs
<1>12. LastOK' BY <1>1 DEF LastOK, CommitGlobs
<1>13. \E b \in BOOLEAN :
         tx' = [tx EXCEPT ![g] = [@ EXCEPT !.pc = "done", !.renames = b, !.writes = FALSE]]
  <2>1. tx[g] \in Tx /\ tx \in [Writers -> Tx] BY <1>1 DEF RInv, RTypeOK
  <2>2. [tx[g] EXCEPT !.pc = "done", !.writes = FALSE] =
          [tx[g] EXCEPT !.pc = "done", !.renames = tx[g].renames, !.writes = FALSE]
    BY <2>1 DEF Tx
  <2>3. tx[g].renames \in BOOLEAN BY <2>1 DEF Tx
  <2>4. QED BY <2>2, <2>3 DEF CommitGlobs
<1> QED BY <1>1, <1>7, <1>10, <1>11, <1>12, <1>13, CommitKeeps DEF CommitGlobs

-----------------------------------------------------------------------------
(* The rest.                                                                 *)

(* A restart ends every open transaction and every lookup under way, so that no   *)
(* token outlives the key it was made with.                                   *)
LEMMA RestartKeeps ==
  ASSUME RInv, Restart
  PROVE  RInv'
<1>1. /\ UNCHANGED <<row, stamp, now, bearer, shared, last>>
      /\ key' = key + 1 /\ key < MaxKey
  BY DEF Restart
<1>2. ASSUME NEW w \in Writers
      PROVE  /\ tx'[w] \in Tx
             /\ ~ Open(w)' /\ ~ Inserting(w)' /\ ~ Flushed(w)'
             /\ ~ Open(w) => tx'[w] = tx[w]
  <2> DEFINE z == [NoTx EXCEPT !.pc = "failed", !.auth = tx[w].auth]
  <2>1. z \in Tx BY RolledBackTyped DEF RInv
  <2>2. NoTx \in Tx BY DEF NoTx, Tx, TxSteps
  <2>3. z.pc = "failed" BY <2>1, <2>2 DEF Tx
  <2>4. tx[w] \in Tx BY DEF RInv, RTypeOK
  <2>5. tx'[w] = IF Open(w) THEN z ELSE tx[w] BY DEF Restart
  <2> HIDE DEF z
  <2>6. CASE Open(w)
    <3>1. tx'[w] = z BY <2>5, <2>6
    <3>2. QED BY <2>1, <2>3, <2>6, <3>1 DEF Open, Inserting, Flushed, TxSteps
  <2>7. CASE ~ Open(w)
    <3>1. tx'[w] = tx[w] BY <2>5, <2>7
    <3>2. QED BY <2>4, <2>7, <3>1 DEF Open, Inserting, Flushed, TxSteps
  <2>8. QED BY <2>6, <2>7
<1>3. tx' \in [Writers -> Tx]
  <2>1. \E f : tx' = [w \in Writers |-> f[w]]
    <3>1. tx' = [w \in Writers |-> tx'[w]] BY DEF Restart
    <3>2. QED BY <3>1
  <2>2. QED BY <1>2, <2>1
<1>4. /\ rd' \in [Readers -> Rd]
      /\ \A r \in Readers : ReaderOK(r)'
  <2> DEFINE z(r) == [rd[r] EXCEPT !.pc = "failed"]
             g(r) == IF rd[r].pc \in {"repo", "secret", "policy"} THEN z(r) ELSE rd[r]
  <2>1. rd' = [r \in Readers |-> g(r)] BY DEF Restart
  <2>2. ASSUME NEW r \in Readers PROVE g(r) \in Rd /\ ReaderOK(r)'
    <3>1. rd[r] \in Rd /\ ReaderOK(r) BY DEF RInv, RTypeOK
    <3>2. z(r) \in Rd /\ z(r).pc = "failed" BY <3>1 DEF Rd
    <3>3. rd'[r] = g(r) BY <2>1
    <3> HIDE DEF z
    <3>4. CASE rd[r].pc \in {"repo", "secret", "policy"}
      BY <3>2, <3>3, <3>4 DEF ReaderOK
    <3>5. CASE rd[r].pc \notin {"repo", "secret", "policy"}
      BY <1>1, <3>1, <3>3, <3>5 DEF ReaderOK
    <3>6. QED BY <3>4, <3>5
  <2> HIDE DEF g
  <2>3. QED BY <2>1, <2>2
<1>5. RTypeOK' BY <1>1, <1>3, <1>4, RegistryAssumption DEF RInv, RTypeOK
<1>6. ASSUME NEW s \in row.tokens PROVE Earned(s)'
  <2>1. Earned(s) /\ s.by \in Writers
    BY DEF RInv, RowsOK, RTypeOK, Rows, Secret, Writers
  <2>2. ~ Open(s.by) BY <2>1 DEF Earned, Open, TxSteps
  <2>3. QED BY <1>1, <1>2, <2>1, <2>2 DEF Earned, InTime
<1>7. RowsOK' BY <1>1, <1>6 DEF RInv, RowsOK
<1>8. \A w \in Writers : WriterOK(w)' /\ AloneOK(w)' BY <1>2 DEF WriterOK, AloneOK
<1>9. OneInserter' BY <1>2 DEF OneInserter, Writers
<1>10. LastOK'
  <2>1. ASSUME last \in Admins PROVE tx'[last] = tx[last]
    <3>1. last \in Writers /\ ~ Open(last)
      BY <2>1 DEF RInv, LastOK, Writers, Open, TxSteps
    <3>2. QED BY <1>2, <3>1
  <2>2. QED BY <1>1, <2>1 DEF RInv, LastOK
<1>11. BearerOK' BY <1>1 DEF RInv, BearerOK
<1> QED BY <1>4, <1>5, <1>7, <1>8, <1>9, <1>10, <1>11 DEF RInv, TxOK

(* A login, or a second that passes.                                         *)
LEMMA ClockKeeps ==
  ASSUME RInv, Login \/ Tick
  PROVE  RInv'
<1>1. UNCHANGED <<row, tx, rd, stamp, key, shared, last>> BY DEF Login, Tick
<1>2. now' \in 0 .. MaxNow /\ bearer' \in Bearer \cup {None} /\ BearerOK'
  <2>1. CASE Login
    BY <2>1, RegistryAssumption DEF Login, Bearer, BearerOK, RInv, RTypeOK
  <2>2. CASE Tick
    BY <2>2, RegistryAssumption DEF Tick, BearerOK, RInv, RTypeOK
  <2>3. QED BY <2>1, <2>2
<1>3. RTypeOK' BY <1>1, <1>2 DEF RInv, RTypeOK
<1>4. RowsOK' BY <1>1 DEF RInv, RowsOK, Earned, InTime
<1>5. TxOK'
  BY <1>1 DEF RInv, TxOK, WriterOK, AloneOK, SlugAfter, OneInserter, Open, Inserting, Flushed,
      InTime
<1>6. LastOK' BY <1>1 DEF RInv, LastOK
<1>7. \A r \in Readers : ReaderOK(r)' BY <1>1 DEF RInv, ReaderOK, Kept
<1> QED BY <1>2, <1>3, <1>4, <1>5, <1>6, <1>7 DEF RInv

(* A lookup changes nothing but what it has read.                              *)
LEMMA ReadKeeps ==
  ASSUME RInv, NEW r \in Readers, NEW y \in Rd, rd' = [rd EXCEPT ![r] = y],
         UNCHANGED <<row, tx, stamp, AdminState, shared, last>>, ReaderOK(r)'
  PROVE  RInv'
<1>1. RTypeOK' BY DEF RInv, RTypeOK, AdminState
<1>2. RowsOK' BY DEF RInv, RowsOK, Earned, InTime, AdminState
<1>3. TxOK'
  BY DEF RInv, TxOK, WriterOK, AloneOK, SlugAfter, OneInserter, Open, Inserting, Flushed,
      InTime, AdminState
<1>4. LastOK' /\ BearerOK' BY DEF RInv, LastOK, BearerOK, AdminState
<1>5. ASSUME NEW x \in Readers PROVE ReaderOK(x)'
  <2>1. CASE x = r BY <2>1
  <2>2. CASE x # r
    <3>1. rd'[x] = rd[x] /\ ReaderOK(x) BY <2>2 DEF RInv, RTypeOK
    <3>2. QED BY <3>1 DEF ReaderOK, Kept
  <2>3. QED BY <2>1, <2>2
<1> QED BY <1>1, <1>2, <1>3, <1>4, <1>5 DEF RInv

(* The tables of secrets: typed, with a newest row, and both empty or none.       *)
LEMMA KeptOK ==
  ASSUME RInv, NEW kind
  PROVE  /\ Kept(kind) = row.tokens /\ Kept(kind) \in SUBSET Secret
         /\ Kept(kind) # {} => /\ row.repos = 1 /\ row.policy # None
                               /\ Newest(Kept(kind)) \in Kept(kind)
                               /\ \A t \in Kept(kind) : t.at <= Newest(Kept(kind)).at
<1>1. Kept(kind) = row.tokens BY DEF Kept, RInv, RowsOK
<1>2. row.tokens \in SUBSET Secret BY DEF RInv, RTypeOK, Rows
<1>3. row.tokens # {} => row.repos = 1 /\ row.policy # None /\ HasNewest(row.tokens)
  BY DEF RInv, RowsOK
<1> QED BY <1>1, <1>2, <1>3, NewestIsNewest

(* A lookup begins, when the newest secret is what it is.                     *)
LEMMA LookUpKeeps ==
  ASSUME RInv, NEW r \in Readers, NEW kind \in {"hook", "scan"}, LookUp(r, kind)
  PROVE  RInv'
<1> DEFINE f0 == IF Kept(kind) = {} THEN 0 ELSE Newest(Kept(kind)).at
           z  == [NoRd EXCEPT !.pc = "repo", !.kind = kind, !.floor = f0]
<1>1. f0 \in Nat
  <2>1. CASE Kept(kind) = {} BY <2>1
  <2>2. CASE Kept(kind) # {}
    <3>1. Newest(Kept(kind)) \in Secret BY <2>2, KeptOK
    <3>2. QED BY <2>2, <3>1 DEF Secret
  <2>3. QED BY <2>1, <2>2
<1>2. PICK f \in Nat : f = f0 BY <1>1
<1>3. f > 0 => \E s \in Kept(kind) : s.at >= f
  <2>1. ASSUME Kept(kind) # {} PROVE f = Newest(Kept(kind)).at /\ Newest(Kept(kind)) \in Kept(kind)
    BY <1>2, <2>1, KeptOK
  <2>2. CASE Kept(kind) = {} BY <1>2, <2>2
  <2>3. CASE Kept(kind) # {} BY <2>1, <2>3
  <2>4. QED BY <2>2, <2>3
<1>4. NoRd \in Rd /\ NoRd.secret = None BY DEF NoRd, Rd
<1>5. PICK y \in Rd : y = [NoRd EXCEPT !.pc = "repo", !.kind = kind, !.floor = f]
  BY <1>4 DEF Rd
<1>6. y.pc = "repo" /\ y.kind = kind /\ y.floor = f /\ y.secret = None BY <1>4, <1>5 DEF Rd
<1>7. rd' = [rd EXCEPT ![r] = y] BY <1>2, <1>5 DEF LookUp
<1>8. rd'[r] = y /\ row' = row BY <1>7 DEF LookUp, RInv, RTypeOK
<1>9. ReaderOK(r)' BY <1>3, <1>6, <1>8 DEF ReaderOK, Kept
<1> QED BY <1>7, <1>9, ReadKeeps DEF LookUp

(* Each SELECT of a lookup.                                                  *)
LEMMA ReaderStepKeeps ==
  ASSUME RInv, NEW r \in Readers, ReaderStep(r)
  PROVE  RInv'
<1>1. rd[r] \in Rd /\ rd \in [Readers -> Rd] /\ ReaderOK(r) BY DEF RInv, RTypeOK
<1>2. UNCHANGED <<row, tx, stamp, AdminState, shared, last>>
  BY DEF ReaderStep, ReadRepo, ReadSecret, ReadPolicy
<1>3. \A kind : Kept(kind)' = Kept(kind) BY <1>2 DEF Kept
<1>4. row.policy \in Policy \cup {None} BY DEF RInv, RTypeOK, Rows
<1> DEFINE kind == rd[r].kind
<1>5. ASSUME NEW pc \in {"secret", "done", "policy", "failed"},
             rd' = [rd EXCEPT ![r].pc = pc],
             \/ pc = "failed"
             \/ pc = "secret" /\ rd[r].pc = "repo"
             \/ pc \in {"done", "policy"} /\ rd[r].pc \in {"repo", "secret"} /\ Kept(kind) = {}
      PROVE  RInv'
  <2> DEFINE z == [rd[r] EXCEPT !.pc = pc]
  <2>1. z \in Rd BY <1>1 DEF Rd
  <2>2. PICK y \in Rd : y = z BY <2>1
  <2>3. /\ y.pc = pc /\ y.kind = rd[r].kind /\ y.floor = rd[r].floor
        /\ y.secret = rd[r].secret
    BY <1>1, <2>2 DEF Rd
  <2>4. rd' = [rd EXCEPT ![r] = y] BY <1>1, <1>5, <2>2
  <2>5. rd'[r] = y BY <1>1, <2>4
  <2>6. ReaderOK(r)' BY <1>1, <1>2, <1>3, <1>5, <2>3, <2>5 DEF ReaderOK
  <2>7. QED BY <1>2, <2>4, <2>6, ReadKeeps
<1>6. CASE ReadRepo(r)
  <2>1. Kept(kind) # {} => row.repos = 1 BY KeptOK
  <2>2. CASE row.repos > 0 BY <1>5, <1>6, <2>2 DEF ReadRepo
  <2>3. CASE ~ (row.repos > 0)
    <3>1. Kept(kind) = {} BY <2>1, <2>3
    <3>2. QED BY <1>5, <1>6, <2>3, <3>1 DEF ReadRepo
  <2>4. QED BY <2>2, <2>3
<1>7. CASE ReadSecret(r)
  <2> DEFINE next == IF kind = "hook" THEN "done" ELSE "policy"
  <2>1. rd[r].pc = "secret" BY <1>7 DEF ReadSecret
  <2>2. CASE Kept(kind) = {} /\ rd' = [rd EXCEPT ![r].pc = next]
    <3>1. CASE kind = "hook" BY <1>5, <2>1, <2>2, <3>1
    <3>2. CASE kind # "hook" BY <1>5, <2>1, <2>2, <3>2
    <3>3. QED BY <3>1, <3>2
  <2>3. CASE rd' = [rd EXCEPT ![r].pc = "failed"] BY <1>5, <2>3
  <2>4. CASE /\ Kept(kind) # {}
             /\ rd' = [rd EXCEPT ![r] = [@ EXCEPT !.pc = next, !.secret = FirstOf(Kept(kind))]]
    <3>1. /\ Newest(Kept(kind)) \in Kept(kind) /\ Kept(kind) \in SUBSET Secret
          /\ \A t \in Kept(kind) : t.at <= Newest(Kept(kind)).at
          /\ row.repos = 1
      BY <2>4, KeptOK
    <3>2. PICK s \in Secret : s = Newest(Kept(kind)) BY <3>1
    <3>3. PICK pc \in {"done", "policy"} : pc = next OBVIOUS
    <3>4. PICK y \in Rd : y = [rd[r] EXCEPT !.pc = pc, !.secret = s] BY <1>1 DEF Rd
    <3>5. /\ y.pc = pc /\ y.kind = rd[r].kind /\ y.floor = rd[r].floor /\ y.secret = s
      BY <1>1, <3>4 DEF Rd
    <3>6. rd' = [rd EXCEPT ![r] = y] BY <1>1, <2>4, <3>2, <3>3, <3>4 DEF FirstOf
    <3>7. rd'[r] = y BY <1>1, <3>6
    <3>8. s # None BY RegistryAssumption
    <3>9. rd[r].floor > 0 => s.at >= rd[r].floor
      <4>1. SUFFICES ASSUME rd[r].floor > 0 PROVE s.at >= rd[r].floor OBVIOUS
      <4>2. PICK t \in Kept(kind) : t.at >= rd[r].floor BY <1>1, <2>1, <4>1 DEF ReaderOK
      <4>3. t.at <= s.at /\ t.at \in Nat /\ s.at \in Nat /\ rd[r].floor \in Nat
        BY <1>1, <3>1, <3>2 DEF Secret, Rd
      <4>4. QED BY <4>2, <4>3
    <3>10. pc = "done" => kind # "scan" BY <3>3
    <3>11. ReaderOK(r)' BY <1>2, <3>1, <3>3, <3>5, <3>7, <3>8, <3>9, <3>10 DEF ReaderOK
    <3>12. QED BY <1>2, <3>6, <3>11, ReadKeeps
  <2>5. QED BY <1>7, <2>2, <2>3, <2>4 DEF ReadSecret
<1>8. CASE ReadPolicy(r)
  <2>1. rd[r].pc = "policy" BY <1>8 DEF ReadPolicy
  <2>2. CASE rd' = [rd EXCEPT ![r].pc = "failed"] BY <1>5, <2>2
  <2>3. CASE rd' = [rd EXCEPT ![r] = [@ EXCEPT !.pc = "done", !.policy = row.policy]]
    <3> DEFINE z == [rd[r] EXCEPT !.pc = "done", !.policy = row.policy]
    <3>1. z \in Rd BY <1>1, <1>4 DEF Rd
    <3>2. PICK y \in Rd : y = z BY <3>1
    <3>3. /\ y.pc = "done" /\ y.kind = rd[r].kind /\ y.floor = rd[r].floor
          /\ y.secret = rd[r].secret /\ y.policy = row.policy
      BY <1>1, <3>2 DEF Rd
    <3>4. rd' = [rd EXCEPT ![r] = y] BY <1>1, <2>3, <3>2
    <3>5. rd'[r] = y BY <1>1, <3>4
    <3>6. rd[r].secret # None => row.policy # None
      BY <1>1, <2>1 DEF ReaderOK, RInv, RowsOK
    <3>7. ReaderOK(r)' BY <1>1, <2>1, <3>3, <3>5, <3>6 DEF ReaderOK
    <3>8. QED BY <1>2, <3>4, <3>7, ReadKeeps
  <2>4. QED BY <1>8, <2>2, <2>3 DEF ReadPolicy
<1> QED BY <1>6, <1>7, <1>8 DEF ReaderStep

-----------------------------------------------------------------------------
(* The invariant and what follows from it.                                   *)

(* No table has a row, and nobody has begun.                                  *)
LEMMA RInvInit == RInit => RInv
<1> SUFFICES ASSUME RInit PROVE RInv OBVIOUS
<1>1. NoTx \in Tx /\ NoTx.pc = "idle" BY DEF NoTx, Tx, TxSteps
<1>2. NoRd \in Rd /\ NoRd.pc = "idle" BY DEF NoRd, Rd
<1>3. PICK y \in Tx : y = NoTx BY <1>1
<1>4. PICK x \in Rd : x = NoRd BY <1>2
<1>5. tx \in [Writers -> Tx] /\ \A w \in Writers : tx[w].pc = "idle"
  BY <1>1, <1>3 DEF RInit
<1>6. rd \in [Readers -> Rd] /\ \A r \in Readers : rd[r].pc = "idle"
  BY <1>2, <1>4 DEF RInit
<1>7. row \in Rows BY DEF RInit, Rows
<1>8. last = None /\ bearer = None /\ row.policy = None /\ row.tokens = {} /\ row.hooks = {}
      /\ row.repos = 0
  BY DEF RInit
<1>9. RTypeOK BY <1>5, <1>6, <1>7, RegistryAssumption DEF RTypeOK, RInit
<1>10. RowsOK BY <1>8 DEF RowsOK
<1>11. \A w \in Writers : ~ Open(w) /\ ~ Inserting(w) /\ ~ Flushed(w)
  BY <1>5 DEF Open, Inserting, Flushed, TxSteps
<1>12. TxOK BY <1>11 DEF TxOK, WriterOK, AloneOK, OneInserter, Writers
<1>13. BearerOK /\ \A r \in Readers : ReaderOK(r) BY <1>6, <1>8 DEF BearerOK, ReaderOK
<1>14. LastOK BY <1>8, RegistryAssumption DEF LastOK, Writers
<1> QED BY <1>9, <1>10, <1>12, <1>13, <1>14 DEF RInv

(* Every step keeps the invariant.                                           *)
LEMMA RInvNext == RInv /\ [RNext]_rVars => RInv'
<1> SUFFICES ASSUME RInv, [RNext]_rVars PROVE RInv' OBVIOUS
<1>1. CASE UNCHANGED rVars
  BY <1>1
  DEF rVars, RInv, RTypeOK, RowsOK, Earned, InTime, TxOK, WriterOK, AloneOK, SlugAfter,
      OneInserter, Open, Inserting, Flushed, LastOK, BearerOK, ReaderOK, Kept
<1>2. CASE Login \/ Tick BY <1>2, ClockKeeps
<1>3. CASE Restart BY <1>3, RestartKeeps
<1>4. ASSUME NEW q \in Admins, Refuse(q) \/ FindRepo(q) \/ AdminStep(q) PROVE RInv'
  BY <1>4, RefuseKeeps, FindKeeps, InsertKeeps, LoadKeeps, WriteKeeps, RegisterKeeps
  DEF AdminStep
<1>5. ASSUME NEW g \in Dialogs, FindPolicy(g) \/ DialogStep(g) PROVE RInv'
  BY <1>5, FindKeeps, GlobsKeep, AddGlobKeeps DEF DialogStep
<1>6. ASSUME NEW w \in Writers, WriterFails(w) PROVE RInv' BY <1>6, FailsKeeps
<1>7. ASSUME NEW r \in Readers, NEW kind \in {"hook", "scan"}, LookUp(r, kind) PROVE RInv'
  BY <1>7, LookUpKeeps
<1>8. ASSUME NEW r \in Readers, ReaderStep(r) PROVE RInv' BY <1>8, ReaderStepKeeps
<1> QED BY <1>1, <1>2, <1>3, <1>4, <1>5, <1>6, <1>7, <1>8 DEF RNext

(* So it holds in every state of every behaviour.                              *)
LEMMA RInvAlways == RSpec => []RInv
BY RInvInit, RInvNext, PTL DEF RSpec

(* The tables, the transactions and the lookups keep their types.               *)
THEOREM RegistryTyped == RSpec => []RTypeOK
<1>1. RInv => RTypeOK BY DEF RInv
<1> QED BY <1>1, RInvAlways, PTL

(* There is one row per repository, and with it a token, a webhook secret and a   *)
(* policy, the newest token and the newest webhook secret of one request: for     *)
(* any number of requests that race, fail or meet a restart.                   *)
THEOREM RegistrationWhole == RSpec => []RegistrationIsWhole
<1>1. RInv => RegistrationIsWhole BY DEF RInv, RowsOK, RegistrationIsWhole, Earned
<1> QED BY <1>1, RInvAlways, PTL

(* A registration that no other writer overlapped and none followed is what is    *)
(* there: the newest secrets are its own, the slug and the policy are the ones   *)
(* it asked for.                                                            *)
THEOREM RegistrationHolds == RSpec => []IsolatedRegistrationHolds
<1>1. RInv => IsolatedRegistrationHolds
  <2> SUFFICES ASSUME RInv, last \in Admins, last \notin shared
               PROVE  /\ Newest(row.tokens).by = last
                      /\ row.hooks = row.tokens
                      /\ row.slug = Slug[last]
                      /\ row.policy = Asked[last]
    BY DEF IsolatedRegistrationHolds
  <2>1. PICK s \in row.tokens : s.by = last /\ \A t \in row.tokens : t # s => t.at < s.at
    BY DEF RInv, LastOK
  <2>2. \A t \in row.tokens : t.at \in Nat BY DEF RInv, RTypeOK, Rows, Secret
  <2>3. HasNewest(row.tokens) BY <2>1, <2>2 DEF HasNewest
  <2>4. Newest(row.tokens) \in row.tokens /\ s.at <= Newest(row.tokens).at
    BY <2>1, <2>3, NewestIsNewest
  <2>5. Newest(row.tokens) = s BY <2>1, <2>2, <2>4
  <2>6. QED BY <2>1, <2>5 DEF RInv, LastOK, RowsOK
<1> QED BY <1>1, RInvAlways, PTL

(* A lookup that began after a registration returns a secret that is not older,   *)
(* and a worker's lookup that has a token has a policy.                        *)
THEOREM LookupsCurrent == RSpec => []LookupsAreCurrent
<1>1. RInv => LookupsAreCurrent
  <2> SUFFICES ASSUME RInv, NEW r \in Readers, rd[r].pc = "done"
               PROVE  /\ rd[r].floor > 0 => (rd[r].secret # None /\ rd[r].secret.at >= rd[r].floor)
                      /\ (rd[r].secret # None /\ rd[r].kind = "scan") => rd[r].policy # None
    BY DEF LookupsAreCurrent
  <2>1. ReaderOK(r) BY DEF RInv
  <2>2. QED BY <2>1 DEF ReaderOK
<1> QED BY <1>1, RInvAlways, PTL

(* No secret is registered later than Ttl after the login of its request's token,  *)
(* or by a process with another key than that token's.                         *)
THEOREM WorkAuthorised == RSpec => []WorkIsAuthorised
<1>1. RInv => WorkIsAuthorised
  BY DEF RInv, RowsOK, Earned, InTime, WorkIsAuthorised
<1> QED BY <1>1, RInvAlways, PTL

=============================================================================
