----------------------------- MODULE DialogProofs -----------------------------
(***************************************************************************)
(* What the dialog says and does, for every value of the constants and every   *)
(* set of faults.                                                            *)
(*                                                                         *)
(* A job is described by its stage: what the stages before it did in this try    *)
(* is done, what is still ahead was done in earlier tries at most, and, as long   *)
(* as no two jobs crossed, the list of patterns a job has read is still the one   *)
(* in the row when it writes.                                                *)
(***************************************************************************)
EXTENDS Dialog, FiniteSetTheorems, TLAPS

IsMark(n) == note[n].cmd = "false_positive" /\ FingerprintOf(n) # None

IsIgnore(n) == note[n].cmd = "ignore" /\ note[n].arg # None

TurnsOf(t, n) == {i \in DOMAIN turns[t] : turns[t][i].note = n}

(* What the comment asked for is done, or cannot be.                             *)
Acted(n) ==
  /\ IsMark(n) => rows[n] > 0
  /\ (~ crossed /\ n \notin vain /\ IsIgnore(n)) => note[n].arg \in globs

DJobOK(n) ==
  /\ djob[n] # "none" \/ drun[n].pc # "off" => note[n] # None
  /\ drun[n].pc = "record" => IsMark(n)
  /\ drun[n].pc \in {"read", "write"} => IsIgnore(n)
  /\ rows[n] > 0 => note[n] # None /\ IsMark(n)
  /\ rows[n] <= dtries[n]
  /\ drun[n].pc \in {"open", "thread", "record"} => rows[n] < dtries[n]
  /\ drun[n].pc \in {"reply", "count", "turn"} \/ replies[n] > 0 => note[n] # None /\ Acted(n)
  /\ (drun[n].pc = "write" /\ ~ crossed) =>
       drun[n].globs = globs /\ \A m \in Notes \ {n} : drun[m].pc # "write"
  /\ drun[n].pc = "turn" =>
       \A t \in Threads : note[n].thread = t => drun[n].count <= Len(turns[t])
  /\ drun[n].pc \in {"count", "turn"} =>
       \A t \in Threads : note[n].thread = t => Cardinality(TurnsOf(t, n)) < replies[n]
  /\ \A t \in Threads : Cardinality(TurnsOf(t, n)) <= replies[n]

DInv == DTypeOK /\ TurnsAreBounded /\ \A n \in Notes : DJobOK(n)

-----------------------------------------------------------------------------
(* What a step leaves alone.                                                 *)

(* The turns of a comment are finitely many.                                    *)
LEMMA TurnsFinite ==
  ASSUME DTypeOK, NEW t \in Threads, NEW n
  PROVE  IsFiniteSet(TurnsOf(t, n)) /\ Cardinality(TurnsOf(t, n)) \in Nat
<1>1. Len(turns[t]) \in Nat /\ DOMAIN turns[t] = 1 .. Len(turns[t])
  BY DEF DTypeOK
<1>2. IsFiniteSet(1 .. Len(turns[t]))
  BY <1>1, FS_Interval
<1>3. TurnsOf(t, n) \subseteq 1 .. Len(turns[t])
  BY <1>1 DEF TurnsOf
<1>4. IsFiniteSet(TurnsOf(t, n))
  BY <1>2, <1>3, FS_Subset
<1> QED
  BY <1>4, FS_CardinalityType

(* A comment is posted once and stays what it is.                               *)
LEMMA NotesStay ==
  ASSUME DTypeOK, NEW t \in Threads, NEW by \in {"user", "aegis"}, NEW cmd \in Commands,
         NEW arg \in Patterns \cup {None}, Post(t, by, cmd, arg)
  PROVE  /\ note' \in [Notes -> Note \cup {None}]
         /\ \A n \in Notes : note[n] # None => note'[n] = note[n]
<1>1. PICK m \in Notes :
        /\ note[m] = None
        /\ note' = [note EXCEPT ![m] = [thread |-> t, by |-> by, cmd |-> cmd, arg |-> arg]]
  BY DEF Post
<1>2. [thread |-> t, by |-> by, cmd |-> cmd, arg |-> arg] \in Note
  BY DEF Note
<1> QED
  BY <1>1, <1>2 DEF DTypeOK

(* An answer is a comment of the thread.                                       *)
LEMMA ReplyPosts ==
  ASSUME DTypeOK, NEW n \in Notes, note[n] # None, Reply(n)
  PROVE  /\ note' \in [Notes -> Note \cup {None}]
         /\ \A m \in Notes : note[m] # None => note'[m] = note[m]
<1>1. note[n] \in Note /\ note[n].thread \in Threads
  BY DEF DTypeOK, Note
<1>2. \A cmd : ArgsOf(cmd) \subseteq Patterns \cup {None}
  BY DEF ArgsOf
<1>3. EchoOf(note[n].cmd) \subseteq Commands \X (Patterns \cup {None})
  BY <1>2, DialogAssumption DEF EchoOf, Commands
<1>4. CASE \E e \in EchoOf(note[n].cmd) : Post(note[n].thread, "aegis", e[1], e[2])
  <2>1. PICK e \in EchoOf(note[n].cmd) : Post(note[n].thread, "aegis", e[1], e[2])
    BY <1>4
  <2>2. e[1] \in Commands /\ e[2] \in Patterns \cup {None}
    BY <1>3
  <2> QED
    BY <1>1, <2>1, <2>2, NotesStay
<1>5. CASE UNCHANGED note
  BY <1>5 DEF DTypeOK
<1> QED
  BY <1>4, <1>5 DEF Reply

Acts(n) == DialogStep(n) \/ DialogFault(n)

(* A step of job n changes nothing of another job, and adds to the rest.           *)
LEMMA DialogFrame ==
  ASSUME DInv, NEW n \in Notes, Acts(n)
  PROVE  /\ \A m \in Notes \ {n} :
              /\ djob'[m] = djob[m] /\ dtries'[m] = dtries[m] /\ drun'[m] = drun[m]
              /\ rows'[m] = rows[m] /\ replies'[m] = replies[m]
         /\ note' \in [Notes -> Note \cup {None}]
         /\ \A m \in Notes : note[m] # None => note'[m] = note[m]
         /\ crossed => crossed'
         /\ vain \subseteq vain'
         /\ globs' = globs \/ WriteGlobs(n)
         /\ turns' = turns \/ PersistTurn(n)
<1> USE DEF DInv, DTypeOK
<1>1. CASE DPickUp(n) \/ DGiveUp(n) \/ DAcknowledge(n) \/ DialogFault(n)
  BY <1>1
  DEF DPickUp, DGiveUp, DAcknowledge, DialogFault, DWorkerStops, DTimesOut, Raises, Done, NothingDone
<1>2. CASE Open(n) \/ FetchThread(n) \/ CountTurns(n)
  BY <1>2 DEF Open, FetchThread, CountTurns, GoOn, NothingDone
<1>3. CASE RecordFeedback(n) \/ ReadGlobs(n) \/ WriteGlobs(n) \/ PersistTurn(n)
  BY <1>3 DEF RecordFeedback, ReadGlobs, WriteGlobs, PersistTurn, GoOn
<1>4. CASE Reply(n)
  <2>1. note[n] # None
    BY <1>4 DEF Reply, AtStage, DJobOK
  <2> QED
    BY <1>4, <2>1, ReplyPosts DEF Reply, GoOn
<1> QED
  BY <1>1, <1>2, <1>3, <1>4 DEF Acts, DialogStep

(* Appending a turn of n adds one to the turns of n and none to those of others.    *)
LEMMA TurnAppended ==
  ASSUME DTypeOK, NEW n \in Notes, note[n] # None, PersistTurn(n),
         NEW th, th = note[n].thread
  PROVE  /\ turns' \in [Threads -> Seq(Turn)]
         /\ \A t \in Threads : Len(turns[t]) <= Len(turns'[t])
         /\ \A t \in Threads, m \in Notes : m # n => TurnsOf(t, m)' = TurnsOf(t, m)
         /\ \A t \in Threads : t # th => TurnsOf(t, n)' = TurnsOf(t, n)
         /\ Cardinality(TurnsOf(th, n)') = Cardinality(TurnsOf(th, n)) + 1
<1> DEFINE row == [note |-> n, turn |-> TurnNumber(n)]
<1>1. th \in Threads /\ drun[n].count \in Nat
  BY DEF DTypeOK, Note, DRun
<1>2. row \in Turn
  BY <1>1 DEF Turn, TurnNumber
<1>3. turns' = [turns EXCEPT ![th] = Append(turns[th], row)] /\ turns \in [Threads -> Seq(Turn)]
  BY DEF PersistTurn, DTypeOK
<1>4. row.note = n
  OBVIOUS
<1> HIDE DEF row
<1>5. /\ turns[th] \in Seq(Turn) /\ Len(turns[th]) \in Nat
      /\ turns'[th] = Append(turns[th], row)
      /\ Len(turns'[th]) = Len(turns[th]) + 1
      /\ DOMAIN turns[th] = 1 .. Len(turns[th])
      /\ DOMAIN turns'[th] = 1 .. Len(turns[th]) + 1
      /\ \A i \in 1 .. Len(turns[th]) : turns'[th][i] = turns[th][i]
      /\ turns'[th][Len(turns[th]) + 1] = row
  BY <1>1, <1>2, <1>3
<1>6. \A t \in Threads : t # th => turns'[t] = turns[t]
  BY <1>3
<1>7. turns' \in [Threads -> Seq(Turn)]
  BY <1>1, <1>2, <1>3
<1>8. \A t \in Threads : Len(turns[t]) <= Len(turns'[t])
  <2> SUFFICES ASSUME NEW t \in Threads PROVE Len(turns[t]) <= Len(turns'[t])
    OBVIOUS
  <2>1. Len(turns[t]) \in Nat
    BY DEF DTypeOK
  <2> QED
    BY <1>5, <1>6, <2>1
<1>9. ASSUME NEW m, m # n PROVE TurnsOf(th, m)' = TurnsOf(th, m)
  BY <1>4, <1>5, <1>9 DEF TurnsOf
<1>10. TurnsOf(th, n)' = TurnsOf(th, n) \cup {Len(turns[th]) + 1}
  BY <1>4, <1>5 DEF TurnsOf
<1>11. Len(turns[th]) + 1 \notin TurnsOf(th, n)
  BY <1>5 DEF TurnsOf
<1>12. IsFiniteSet(TurnsOf(th, n))
  BY <1>1, TurnsFinite
<1>13. Cardinality(TurnsOf(th, n)') = Cardinality(TurnsOf(th, n)) + 1
  BY <1>10, <1>11, <1>12, FS_AddElement
<1>14. ASSUME NEW t \in Threads, t # th, NEW m PROVE TurnsOf(t, m)' = TurnsOf(t, m)
  BY <1>6, <1>14 DEF TurnsOf
<1>15. ASSUME NEW t \in Threads, NEW m, m # n PROVE TurnsOf(t, m)' = TurnsOf(t, m)
  BY <1>9, <1>14, <1>15
<1> QED
  BY <1>7, <1>8, <1>13, <1>14, <1>15

-----------------------------------------------------------------------------
(* Stages.                                                                   *)

(* Where the operators that move a job lead it.                                *)
LEMMA Stage ==
  ASSUME DTypeOK, NEW n \in Notes
  PROVE  /\ \A pc : GoOn(n, pc) => drun'[n].pc = pc
         /\ \A pc \in DStages : GoOn(n, pc) => drun' \in [Notes -> DRun]
         /\ Done(n) => drun'[n].pc = "off" /\ drun' \in [Notes -> DRun] /\ djob'[n] = "settled"
         /\ (ReadGlobs(n) /\ known) =>
              drun'[n].pc = "write" /\ drun'[n].globs = globs /\ drun' \in [Notes -> DRun]
<1>1. drun \in [Notes -> DRun] /\ drun[n] \in DRun
  BY DEF DTypeOK
<1>2. ASSUME NEW pc, GoOn(n, pc) PROVE drun'[n].pc = pc /\ (pc \in DStages => drun' \in [Notes -> DRun])
  <2>1. drun' = [drun EXCEPT ![n] = [NoDRun EXCEPT !.pc = pc]]
    BY <1>2 DEF GoOn
  <2>2. [NoDRun EXCEPT !.pc = pc].pc = pc
    BY DEF NoDRun
  <2>3. pc \in DStages => [NoDRun EXCEPT !.pc = pc] \in DRun
    BY DEF NoDRun, DRun
  <2> QED
    BY <1>1, <2>1, <2>2, <2>3
<1>3. ASSUME Done(n) PROVE drun'[n].pc = "off" /\ drun' \in [Notes -> DRun] /\ djob'[n] = "settled"
  <2>1. NoDRun \in DRun /\ NoDRun.pc = "off"
    BY DEF NoDRun, DRun
  <2> QED
    BY <1>1, <1>3, <2>1 DEF Done, DTypeOK
<1>4. ASSUME ReadGlobs(n), known
      PROVE  drun'[n].pc = "write" /\ drun'[n].globs = globs /\ drun' \in [Notes -> DRun]
  <2> DEFINE d == [drun[n] EXCEPT !.pc = "write", !.globs = globs]
  <2>1. d \in DRun /\ d.pc = "write" /\ d.globs = globs
    BY <1>1 DEF DRun, DTypeOK, DStages
  <2>2. drun' = [drun EXCEPT ![n] = d]
    BY <1>4 DEF ReadGlobs
  <2> HIDE DEF d
  <2> QED
    BY <1>1, <2>1, <2>2
<1> QED
  BY <1>2, <1>3, <1>4

(* Only the step that reads the list leads to the stage that writes it.             *)
LEMMA WriteComes ==
  ASSUME DInv, NEW n \in Notes, Acts(n), drun'[n].pc = "write"
  PROVE  ReadGlobs(n) /\ known
<1> USE DEF DInv
<1>1. CASE DPickUp(n) \/ DWorkerStops(n)
  BY <1>1 DEF DPickUp, DWorkerStops, NoDRun, DTypeOK
<1>2. CASE DGiveUp(n) \/ DAcknowledge(n) \/ DTimesOut(n) \/ Raises(n)
  BY <1>2, Stage DEF DGiveUp, DAcknowledge, DTimesOut, Raises
<1>3. CASE Open(n) \/ RecordFeedback(n) \/ WriteGlobs(n) \/ Reply(n) \/ PersistTurn(n)
  BY <1>3, Stage DEF Open, RecordFeedback, WriteGlobs, Reply, PersistTurn
<1>4. CASE FetchThread(n)
  <2>1. CommandStage(n) # "write"
    BY DEF CommandStage
  <2> QED
    BY <1>4, <2>1, Stage DEF FetchThread
<1>5. CASE CountTurns(n)
  BY <1>5 DEF CountTurns, DTypeOK, DRun
<1>6. CASE ReadGlobs(n) /\ ~ known
  BY <1>6, Stage DEF ReadGlobs
<1> QED
  BY <1>1, <1>2, <1>3, <1>4, <1>5, <1>6 DEF Acts, DialogStep, DialogFault

(* Without a crossing no pattern is lost.                                       *)
LEMMA GlobsGrow ==
  ASSUME DInv, NEW n \in Notes, Acts(n), ~ crossed'
  PROVE  ~ crossed /\ globs \subseteq globs'
<1>1. ~ crossed /\ (globs' = globs \/ WriteGlobs(n))
  BY DialogFrame
<1>2. CASE WriteGlobs(n)
  <2>1. drun[n].globs = globs /\ globs' = NewGlobs(n)
    BY <1>1, <1>2 DEF WriteGlobs, AtStage, DInv, DJobOK
  <2> QED
    BY <1>1, <2>1 DEF NewGlobs
<1> QED
  BY <1>1, <1>2

(* The other jobs keep what was said of them.                                   *)
LEMMA OtherJobs ==
  ASSUME DInv, NEW n \in Notes, Acts(n), NEW m \in Notes, m # n
  PROVE  DJobOK(m)'
<1> USE DEF DInv
<1>1. /\ djob'[m] = djob[m] /\ dtries'[m] = dtries[m] /\ drun'[m] = drun[m]
      /\ rows'[m] = rows[m] /\ replies'[m] = replies[m]
      /\ \A o \in Notes \ {n} : drun'[o] = drun[o]
      /\ note[m] # None => note'[m] = note[m]
      /\ globs' = globs \/ WriteGlobs(n)
      /\ vain \subseteq vain'
  BY DialogFrame
<1>2. DJobOK(m)
  OBVIOUS
<1>3. note[m] # None => IsMark(m)' = IsMark(m) /\ IsIgnore(m)' = IsIgnore(m)
  BY <1>1 DEF IsMark, IsIgnore, FingerprintOf
<1>4. note[m] # None /\ Acted(m) => Acted(m)'
  BY <1>1, <1>3, GlobsGrow DEF Acted
<1>5. (drun[m].pc = "write" /\ ~ crossed') =>
        drun[m].globs = globs' /\ \A o \in Notes \ {m} : drun'[o].pc # "write"
  <2> SUFFICES ASSUME drun[m].pc = "write", ~ crossed'
               PROVE  drun[m].globs = globs' /\ \A o \in Notes \ {m} : drun'[o].pc # "write"
    OBVIOUS
  <2>1. drun[m].globs = globs /\ \A o \in Notes \ {m} : drun[o].pc # "write"
    BY <1>2, GlobsGrow DEF DJobOK
  <2>2. ~ WriteGlobs(n)
    BY <2>1 DEF WriteGlobs, AtStage
  <2>3. drun'[n].pc # "write"
    BY WriteComes DEF ReadGlobs, AtStage
  <2> QED
    BY <1>1, <2>1, <2>2, <2>3
<1>6. /\ \A t \in Threads : TurnsOf(t, m)' = TurnsOf(t, m)
      /\ \A t \in Threads : Len(turns[t]) <= Len(turns'[t])
  <2>1. CASE turns' = turns
    <3>1. \A t \in Threads : Len(turns[t]) \in Nat
      BY DEF DTypeOK
    <3> QED
      BY <2>1, <3>1 DEF TurnsOf
  <2>2. CASE PersistTurn(n)
    <3>1. note[n] # None
      BY <2>2 DEF PersistTurn, AtStage, DJobOK
    <3> QED
      BY <2>2, <3>1, TurnAppended
  <2> QED
    BY <2>1, <2>2, DialogFrame
<1>7. drun[m].pc # "off" => note[m] # None
  BY <1>2 DEF DJobOK
<1>8. \A t \in Threads : Len(turns[t]) \in Nat /\ Len(turns'[t]) \in Nat
  <2>1. PersistTurn(n) => note[n] # None
    BY DEF PersistTurn, AtStage, DJobOK
  <2>2. turns' \in [Threads -> Seq(Turn)]
    BY <2>1, DialogFrame, TurnAppended DEF DTypeOK
  <2> QED
    BY <2>2 DEF DTypeOK
<1>9. drun[m].pc = "turn" =>
        \A t \in Threads : note'[m].thread = t => drun[m].count <= Len(turns'[t])
  <2> SUFFICES ASSUME drun[m].pc = "turn", NEW t \in Threads, note'[m].thread = t
               PROVE  drun[m].count <= Len(turns'[t])
    OBVIOUS
  <2>1. drun[m].count <= Len(turns[t])
    BY <1>1, <1>2, <1>7 DEF DJobOK
  <2>2. drun[m].count \in Nat
    BY DEF DTypeOK, DRun
  <2> QED
    BY <1>6, <1>8, <2>1, <2>2
<1>10. drun[m].pc \in {"count", "turn"} =>
         \A t \in Threads : note'[m].thread = t => Cardinality(TurnsOf(t, m)') < replies[m]
  <2> SUFFICES ASSUME drun[m].pc \in {"count", "turn"}, NEW t \in Threads, note'[m].thread = t
               PROVE  Cardinality(TurnsOf(t, m)') < replies[m]
    OBVIOUS
  <2>1. Cardinality(TurnsOf(t, m)) < replies[m]
    BY <1>1, <1>2, <1>7 DEF DJobOK
  <2> QED
    BY <1>6, <2>1
<1>11. \A t \in Threads : Cardinality(TurnsOf(t, m)') <= replies[m]
  BY <1>2, <1>6 DEF DJobOK
<1>12. /\ (drun[m].pc = "record" => IsMark(m)') /\ (drun[m].pc \in {"read", "write"} => IsIgnore(m)')
       /\ (rows[m] > 0 => note'[m] # None /\ IsMark(m)')
       /\ (drun[m].pc \in {"reply", "count", "turn"} \/ replies[m] > 0 => note'[m] # None /\ Acted(m)')
  BY <1>1, <1>2, <1>3, <1>4, <1>7 DEF DJobOK
<1>13. djob[m] # "none" \/ drun[m].pc # "off" => note'[m] # None
  BY <1>1, <1>2 DEF DJobOK
<1>14. rows[m] <= dtries[m] /\ (drun[m].pc \in {"open", "thread", "record"} => rows[m] < dtries[m])
  BY <1>2 DEF DJobOK
<1> QED
  BY <1>1, <1>5, <1>9, <1>10, <1>11, <1>12, <1>13, <1>14 DEF DJobOK

-----------------------------------------------------------------------------
(* The job that steps.                                                       *)

(* A step that only moves its job: what its new stage says has to hold already.     *)
LEMMA OwnMove ==
  ASSUME DInv, NEW n \in Notes, NothingDone, note[n] # None,
         dtries'[n] \in Nat, dtries[n] <= dtries'[n],
         drun'[n].pc # "write",
         drun'[n].pc = "record" => IsMark(n),
         drun'[n].pc = "read" => IsIgnore(n),
         drun'[n].pc \in {"open", "thread", "record"} => rows[n] < dtries'[n],
         drun'[n].pc \in {"reply", "count", "turn"} => Acted(n),
         drun'[n].pc = "turn" =>
           \A t \in Threads : note[n].thread = t => drun'[n].count <= Len(turns[t]),
         drun'[n].pc \in {"count", "turn"} =>
           \A t \in Threads : note[n].thread = t => Cardinality(TurnsOf(t, n)) < replies[n]
  PROVE  DJobOK(n)'
<1> USE DEF DInv
<1>1. /\ note' = note /\ rows' = rows /\ globs' = globs /\ replies' = replies
      /\ turns' = turns /\ crossed' = crossed /\ vain' = vain
  BY DEF NothingDone
<1>2. /\ IsMark(n)' = IsMark(n) /\ IsIgnore(n)' = IsIgnore(n) /\ Acted(n)' = Acted(n)
      /\ \A t : TurnsOf(t, n)' = TurnsOf(t, n)
  BY <1>1 DEF IsMark, IsIgnore, Acted, FingerprintOf, TurnsOf
<1>3. rows[n] <= dtries'[n]
  BY DEF DJobOK, DTypeOK
<1> QED
  BY <1>1, <1>2, <1>3 DEF DJobOK

(* A job that ends or is put back is at no stage.                                *)
LEMMA OwnEnd ==
  ASSUME DInv, NEW n \in Notes, NothingDone, note[n] # None,
         UNCHANGED dtries, drun'[n].pc = "off"
  PROVE  DJobOK(n)'
<1>1. dtries'[n] \in Nat /\ dtries[n] <= dtries'[n]
  BY DialogAssumption DEF DInv, DTypeOK
<1> QED
  BY <1>1, OwnMove

(* Starting, ending and the steps that change nothing but their job.                *)
LEMMA OwnQuiet ==
  ASSUME DInv, NEW n \in Notes,
         \/ DPickUp(n) \/ DGiveUp(n) \/ DAcknowledge(n) \/ DialogFault(n)
         \/ Open(n) \/ FetchThread(n) \/ CountTurns(n)
  PROVE  DJobOK(n)'
<1> USE DEF DInv
<1>1. DJobOK(n) /\ dtries[n] \in Nat /\ dtries \in [Notes -> 0 .. MaxTries]
  BY DialogAssumption DEF DTypeOK
<1>2. note[n] # None
  BY <1>1 DEF DJobOK, DPickUp, DGiveUp, DAcknowledge, DialogFault, DWorkerStops, DTimesOut,
              Raises, Open, FetchThread, CountTurns, AtStage, DStages
<1>3. CASE DPickUp(n)
  <2>1. dtries'[n] = dtries[n] + 1 /\ NothingDone
    BY <1>1, <1>3 DEF DPickUp
  <2>2. drun'[n].pc = "open"
    BY <1>3 DEF DPickUp, NoDRun, DTypeOK
  <2>3. rows[n] < dtries'[n]
    BY <1>1, <2>1 DEF DJobOK, DTypeOK
  <2> QED
    BY <1>1, <1>2, <2>1, <2>2, <2>3, OwnMove
<1>4. CASE DGiveUp(n) \/ DAcknowledge(n) \/ DTimesOut(n) \/ Raises(n)
  BY <1>2, <1>4, Stage, OwnEnd DEF DGiveUp, DAcknowledge, DTimesOut, Raises
<1>5. CASE DWorkerStops(n)
  <2>1. drun'[n].pc = "off"
    BY <1>5 DEF DWorkerStops, NoDRun, DTypeOK
  <2> QED
    BY <1>2, <1>5, <2>1, OwnEnd DEF DWorkerStops
<1>6. CASE Open(n)
  <2>1. NothingDone /\ dtries' = dtries /\ drun'[n].pc \in {"thread", "ack"} /\ drun[n].pc = "open"
    BY <1>6, Stage DEF Open, AtStage
  <2>2. rows[n] < dtries'[n]
    BY <1>1, <2>1 DEF DJobOK
  <2> QED
    BY <1>1, <1>2, <2>1, <2>2, OwnMove
<1>7. CASE FetchThread(n)
  <2>1. NothingDone /\ dtries' = dtries /\ drun'[n].pc = CommandStage(n) /\ drun[n].pc = "thread"
    BY <1>7, Stage DEF FetchThread, AtStage
  <2>2. rows[n] < dtries'[n]
    BY <1>1, <2>1 DEF DJobOK
  <2>3. CASE IsMark(n)
    <3>1. CommandStage(n) = "record"
      BY <2>3 DEF CommandStage, IsMark
    <3> QED
      BY <1>1, <1>2, <2>1, <2>2, <2>3, <3>1, OwnMove
  <2>4. CASE ~ IsMark(n) /\ IsIgnore(n)
    <3>1. CommandStage(n) = "read"
      BY <2>4 DEF CommandStage, IsMark, IsIgnore
    <3> QED
      BY <1>1, <1>2, <2>1, <2>4, <3>1, OwnMove
  <2>5. CASE ~ IsMark(n) /\ ~ IsIgnore(n)
    <3>1. CommandStage(n) = "reply"
      BY <2>5 DEF CommandStage, IsMark, IsIgnore
    <3>2. Acted(n)
      BY <2>5 DEF Acted
    <3> QED
      BY <1>1, <1>2, <2>1, <3>1, <3>2, OwnMove
  <2> QED
    BY <2>3, <2>4, <2>5
<1>8. CASE CountTurns(n)
  <2>1. NothingDone /\ dtries' = dtries /\ drun[n].pc = "count"
    BY <1>8 DEF CountTurns, AtStage
  <2>2. drun'[n].pc = "turn" /\ drun'[n].count = Len(turns[note[n].thread])
    BY <1>8 DEF CountTurns, DTypeOK, DRun
  <2>3. \A t \in Threads : Len(turns[t]) \in Nat
    BY DEF DTypeOK
  <2>4. \A t \in Threads : note[n].thread = t => drun'[n].count <= Len(turns[t])
    BY <2>2, <2>3
  <2>5. /\ Acted(n)
        /\ \A t \in Threads : note[n].thread = t => Cardinality(TurnsOf(t, n)) < replies[n]
    BY <1>1, <2>1 DEF DJobOK
  <2> QED
    BY <1>1, <1>2, <2>1, <2>2, <2>4, <2>5, OwnMove
<1> QED
  BY <1>3, <1>4, <1>5, <1>6, <1>7, <1>8 DEF DialogFault

(* The row of a false-positive command.                                        *)
LEMMA OwnRecord ==
  ASSUME DInv, NEW n \in Notes, RecordFeedback(n)
  PROVE  DJobOK(n)'
<1> USE DEF DInv
<1>1. /\ drun[n].pc = "record" /\ drun'[n].pc = "reply" /\ rows'[n] = rows[n] + 1
      /\ djob' = djob /\ dtries' = dtries /\ note' = note /\ globs' = globs
      /\ replies' = replies /\ turns' = turns /\ crossed' = crossed
  BY Stage DEF RecordFeedback, AtStage, DTypeOK
<1>2. /\ note[n] # None /\ IsMark(n) /\ rows[n] < dtries[n] /\ rows[n] \in Nat
      /\ \A t \in Threads : Cardinality(TurnsOf(t, n)) <= replies[n]
  BY <1>1 DEF DJobOK, DTypeOK
<1>3. /\ IsMark(n)' = IsMark(n) /\ IsIgnore(n)' = IsIgnore(n)
      /\ \A t : TurnsOf(t, n)' = TurnsOf(t, n)
  BY <1>1 DEF IsMark, IsIgnore, FingerprintOf, TurnsOf
<1>4. rows'[n] <= dtries'[n] /\ rows'[n] > 0
  BY <1>1, <1>2, DialogAssumption DEF DTypeOK
<1>5. Acted(n)'
  <2>1. ~ IsIgnore(n)
    BY <1>2 DEF IsIgnore, IsMark
  <2> QED
    BY <1>3, <1>4, <2>1 DEF Acted
<1> QED
  BY <1>1, <1>2, <1>3, <1>4, <1>5 DEF DJobOK

(* The list of patterns is read and written.                                    *)
LEMMA OwnGlobs ==
  ASSUME DInv, NEW n \in Notes, ReadGlobs(n) \/ WriteGlobs(n)
  PROVE  DJobOK(n)'
<1> USE DEF DInv
<1>1. /\ drun[n].pc \in {"read", "write"} /\ djob' = djob /\ dtries' = dtries /\ note' = note
      /\ rows' = rows /\ replies' = replies /\ turns' = turns /\ vain \subseteq vain'
  BY DEF ReadGlobs, WriteGlobs, AtStage
<1>2. /\ note[n] # None /\ IsIgnore(n) /\ rows[n] <= dtries[n] /\ ~ IsMark(n) /\ ~ (rows[n] > 0)
      /\ \A t \in Threads : Cardinality(TurnsOf(t, n)) <= replies[n]
      /\ replies[n] > 0 => Acted(n)
  <2>1. DJobOK(n) /\ IsIgnore(n)
    BY <1>1 DEF DJobOK
  <2>2. ~ IsMark(n)
    BY <2>1 DEF IsIgnore, IsMark
  <2> QED
    BY <1>1, <2>1, <2>2 DEF DJobOK
<1>3. /\ IsMark(n)' = IsMark(n) /\ IsIgnore(n)' = IsIgnore(n)
      /\ \A t : TurnsOf(t, n)' = TurnsOf(t, n)
  BY <1>1 DEF IsMark, IsIgnore, FingerprintOf, TurnsOf
<1>4. CASE ReadGlobs(n) /\ known
  <2>1. drun'[n].pc = "write" /\ drun'[n].globs = globs /\ globs' = globs
    BY <1>4, Stage DEF ReadGlobs
  <2>2. crossed' = (crossed \/ \E m \in Notes : drun[m].pc = "write")
    BY <1>4 DEF ReadGlobs, AtStage
  <2>3. \A m \in Notes \ {n} : drun'[m] = drun[m]
    BY <1>4, DialogFrame DEF Acts, DialogStep
  <2>4. replies[n] > 0 => Acted(n)'
    BY <1>1, <1>2, <1>3, <2>1, <2>2 DEF Acted
  <2> QED
    BY <1>1, <1>2, <1>3, <2>1, <2>2, <2>3, <2>4 DEF DJobOK
<1>5. CASE WriteGlobs(n)
  <2>1. drun'[n].pc = "reply" /\ globs' = NewGlobs(n) /\ crossed' = crossed /\ drun[n].pc = "write"
    BY <1>5, Stage DEF WriteGlobs, AtStage
  <2>2. ~ crossed => drun[n].globs = globs
    BY <2>1 DEF DJobOK
  <2>3. ~ crossed => note[n].arg \in globs'
    BY <2>1, <2>2 DEF NewGlobs
  <2>4. Acted(n)'
    BY <1>1, <1>2, <1>3, <2>1, <2>3 DEF Acted
  <2> QED
    BY <1>1, <1>2, <1>3, <2>1, <2>4 DEF DJobOK
<1>6. CASE ReadGlobs(n) /\ ~ known
  <2>1. drun'[n].pc = "reply" /\ n \in vain'
    BY <1>6, Stage DEF ReadGlobs
  <2>2. Acted(n)'
    BY <1>2, <1>3, <2>1 DEF Acted
  <2> QED
    BY <1>1, <1>2, <1>3, <2>1, <2>2 DEF DJobOK
<1> QED
  BY <1>4, <1>5, <1>6

(* The answer.                                                               *)
LEMMA OwnReply ==
  ASSUME DInv, NEW n \in Notes, Reply(n)
  PROVE  DJobOK(n)'
<1> USE DEF DInv
<1>1. /\ drun[n].pc = "reply" /\ drun'[n].pc = "count" /\ replies'[n] = replies[n] + 1
      /\ djob' = djob /\ dtries' = dtries /\ rows' = rows /\ globs' = globs
      /\ turns' = turns /\ crossed' = crossed /\ vain' = vain
  BY Stage DEF Reply, AtStage, DTypeOK
<1>2. note[n] # None /\ Acted(n) /\ DJobOK(n)
  BY <1>1 DEF DJobOK
<1>3. note'[n] = note[n]
  BY <1>2, ReplyPosts
<1>4. /\ IsMark(n)' = IsMark(n) /\ IsIgnore(n)' = IsIgnore(n) /\ Acted(n)' = Acted(n)
      /\ \A t : TurnsOf(t, n)' = TurnsOf(t, n)
  BY <1>1, <1>3 DEF IsMark, IsIgnore, Acted, FingerprintOf, TurnsOf
<1>5. \A t \in Threads : Cardinality(TurnsOf(t, n)) < replies'[n]
  <2> SUFFICES ASSUME NEW t \in Threads PROVE Cardinality(TurnsOf(t, n)) < replies'[n]
    OBVIOUS
  <2>1. Cardinality(TurnsOf(t, n)) \in Nat /\ replies[n] \in Nat
    BY TurnsFinite DEF DTypeOK
  <2>2. Cardinality(TurnsOf(t, n)) <= replies[n]
    BY <1>2 DEF DJobOK
  <2> QED
    BY <1>1, <2>1, <2>2
<1>6. \A t \in Threads : Cardinality(TurnsOf(t, n)) <= replies'[n]
  <2> SUFFICES ASSUME NEW t \in Threads PROVE Cardinality(TurnsOf(t, n)) <= replies'[n]
    OBVIOUS
  <2>1. Cardinality(TurnsOf(t, n)) \in Nat /\ replies'[n] \in Nat
    BY <1>1, TurnsFinite DEF DTypeOK
  <2> QED
    BY <1>5, <2>1
<1> QED
  BY <1>1, <1>2, <1>3, <1>4, <1>5, <1>6 DEF DJobOK

(* The turn that follows the answer.                                           *)
LEMMA OwnTurn ==
  ASSUME DInv, NEW n \in Notes, PersistTurn(n)
  PROVE  DJobOK(n)'
<1> USE DEF DInv
<1>1. /\ drun[n].pc = "turn" /\ drun'[n].pc = "ack" /\ replies' = replies
      /\ djob' = djob /\ dtries' = dtries /\ rows' = rows /\ globs' = globs
      /\ note' = note /\ crossed' = crossed /\ vain' = vain
  BY Stage DEF PersistTurn, AtStage
<1>2. note[n] # None /\ Acted(n) /\ DJobOK(n)
  BY <1>1 DEF DJobOK
<1>3. IsMark(n)' = IsMark(n) /\ IsIgnore(n)' = IsIgnore(n) /\ Acted(n)' = Acted(n)
  BY <1>1 DEF IsMark, IsIgnore, Acted, FingerprintOf
<1>4. PICK th \in Threads : th = note[n].thread
  BY <1>2 DEF DTypeOK, Note
<1>5. \A t \in Threads : Cardinality(TurnsOf(t, n)') <= replies[n]
  <2> SUFFICES ASSUME NEW t \in Threads PROVE Cardinality(TurnsOf(t, n)') <= replies[n]
    OBVIOUS
  <2>1. CASE t # th
    <3>1. TurnsOf(t, n)' = TurnsOf(t, n)
      BY <1>2, <1>4, <2>1, TurnAppended
    <3> QED
      BY <1>2, <3>1 DEF DJobOK
  <2>2. CASE t = th
    <3>1. Cardinality(TurnsOf(th, n)') = Cardinality(TurnsOf(th, n)) + 1
      BY <1>2, <1>4, TurnAppended
    <3>2. Cardinality(TurnsOf(th, n)) < replies[n]
      BY <1>1, <1>2, <1>4 DEF DJobOK
    <3>3. Cardinality(TurnsOf(th, n)) \in Nat /\ replies[n] \in Nat
      BY TurnsFinite DEF DTypeOK
    <3> QED
      BY <2>2, <3>1, <3>2, <3>3
  <2> QED
    BY <2>1, <2>2
<1> QED
  BY <1>1, <1>2, <1>3, <1>5 DEF DJobOK

(* The number of a turn is one more than a count of rows that were there.           *)
LEMMA TurnNumbers ==
  ASSUME DInv, NEW n \in Notes, PersistTurn(n)
  PROVE  TurnsAreBounded'
<1> USE DEF DInv
<1>1. drun[n].pc = "turn" /\ DJobOK(n) /\ note[n] # None
  BY DEF PersistTurn, AtStage, DJobOK
<1>2. PICK th \in Threads : th = note[n].thread
  BY <1>1 DEF DTypeOK, Note
<1> DEFINE row == [note |-> n, turn |-> drun[n].count + 1]
<1>3. row \in Turn /\ row.turn = drun[n].count + 1 /\ drun[n].count \in Nat
  BY DEF Turn, DTypeOK, DRun
<1>4. turns' = [turns EXCEPT ![th] = Append(turns[th], row)] /\ turns \in [Threads -> Seq(Turn)]
  BY <1>2 DEF PersistTurn, TurnNumber, DTypeOK
<1>5. drun[n].count <= Len(turns[th])
  BY <1>1, <1>2 DEF DJobOK
<1> HIDE DEF row
<1>6. SUFFICES ASSUME NEW t \in Threads, NEW i \in DOMAIN turns'[t]
               PROVE  turns'[t][i].turn \in 1 .. i
  BY DEF TurnsAreBounded
<1>7. CASE t # th
  BY <1>4, <1>6, <1>7 DEF TurnsAreBounded
<1>8. CASE t = th
  <2>1. Len(turns[th]) \in Nat /\ turns'[th] = Append(turns[th], row) /\ turns[th] \in Seq(Turn)
    BY <1>4
  <2>2. i \in 1 .. Len(turns[th]) + 1
    BY <1>3, <1>6, <1>8, <2>1
  <2>3. CASE i = Len(turns[th]) + 1
    BY <1>3, <1>5, <1>8, <2>1, <2>3
  <2>4. CASE i \in 1 .. Len(turns[th])
    <3>1. turns'[th][i] = turns[th][i] /\ i \in DOMAIN turns[th]
      BY <1>3, <2>1, <2>4
    <3> QED
      BY <1>8, <3>1 DEF TurnsAreBounded
  <2> QED
    BY <2>1, <2>2, <2>3, <2>4
<1> QED
  BY <1>7, <1>8

-----------------------------------------------------------------------------
(* The invariant.                                                            *)

(* A step of a job keeps every variable to its type.                              *)
LEMMA DialogTypes ==
  ASSUME DInv, NEW n \in Notes, Acts(n)
  PROVE  DTypeOK'
<1> USE DEF DInv
<1>0. DTypeOK /\ note' \in [Notes -> Note \cup {None}]
  BY DialogFrame
<1>1. CASE DPickUp(n)
  <2>1. [NoDRun EXCEPT !.pc = "open"] \in DRun
    BY DEF NoDRun, DRun, DStages
  <2>2. dtries[n] + 1 \in 0 .. MaxTries
    <3>1. dtries[n] \in 0 .. MaxTries /\ dtries[n] < MaxTries
      BY <1>1 DEF DPickUp, DTriesLeft, DTypeOK
    <3> QED
      BY <3>1, DialogAssumption
  <2>3. drun' \in [Notes -> DRun] /\ dtries' \in [Notes -> 0 .. MaxTries]
    BY <1>1, <2>1, <2>2 DEF DPickUp, DTypeOK
  <2> QED
    BY <1>0, <1>1, <2>3 DEF DPickUp, NothingDone, DTypeOK
<1>2. CASE DGiveUp(n) \/ DAcknowledge(n) \/ DTimesOut(n) \/ Raises(n)
  <2>1. Done(n) /\ UNCHANGED dtries /\ NothingDone
    BY <1>2 DEF DGiveUp, DAcknowledge, DTimesOut, Raises
  <2>2. drun' \in [Notes -> DRun]
    BY <2>1, Stage
  <2> QED
    BY <1>0, <2>1, <2>2 DEF Done, NothingDone, DTypeOK
<1>3. CASE DWorkerStops(n)
  <2>1. NoDRun \in DRun
    BY DEF NoDRun, DRun
  <2> QED
    BY <1>0, <1>3, <2>1 DEF DWorkerStops, NothingDone, DTypeOK
<1>4. CASE Open(n) \/ FetchThread(n)
  <2>1. CommandStage(n) \in DStages
    BY DEF CommandStage, DStages
  <2>2. drun' \in [Notes -> DRun]
    BY <1>4, <2>1, Stage DEF Open, FetchThread, DStages
  <2> QED
    BY <1>0, <1>4, <2>2 DEF Open, FetchThread, NothingDone, DTypeOK
<1>5. CASE RecordFeedback(n)
  <2>1. drun' \in [Notes -> DRun] /\ rows' \in [Notes -> Nat]
    BY <1>5, Stage DEF RecordFeedback, DTypeOK, DStages
  <2> QED
    BY <1>0, <1>5, <2>1 DEF RecordFeedback, DTypeOK
<1>6. CASE ReadGlobs(n)
  <2>1. drun' \in [Notes -> DRun]
    BY <1>6, Stage DEF ReadGlobs, DTypeOK, DStages
  <2> QED
    BY <1>0, <1>6, <2>1 DEF ReadGlobs, DTypeOK
<1>7. CASE WriteGlobs(n)
  <2>1. drun' \in [Notes -> DRun]
    BY <1>7, Stage DEF WriteGlobs, DStages
  <2>2. IsIgnore(n) /\ note[n] \in Note
    BY <1>7 DEF WriteGlobs, AtStage, DJobOK, DTypeOK
  <2>3. note[n].arg \in Patterns /\ drun[n].globs \in SUBSET Patterns
    BY <2>2 DEF IsIgnore, Note, DTypeOK, DRun
  <2>4. globs' \in SUBSET Patterns
    BY <1>0, <1>7, <2>3 DEF WriteGlobs, NewGlobs, DTypeOK
  <2> QED
    BY <1>0, <1>7, <2>1, <2>4 DEF WriteGlobs, DTypeOK
<1>8. CASE Reply(n)
  <2>1. drun' \in [Notes -> DRun] /\ replies' \in [Notes -> Nat]
    BY <1>8, Stage DEF Reply, DTypeOK, DStages
  <2> QED
    BY <1>0, <1>8, <2>1 DEF Reply, DTypeOK
<1>9. CASE CountTurns(n)
  <2>1. note[n] # None
    BY <1>9 DEF CountTurns, AtStage, DJobOK
  <2>2. Len(turns[note[n].thread]) \in Nat
    BY <2>1 DEF DTypeOK, Note
  <2>3. [drun[n] EXCEPT !.pc = "turn", !.count = Len(turns[note[n].thread])] \in DRun
    BY <2>2 DEF DTypeOK, DRun, DStages
  <2>4. drun' \in [Notes -> DRun]
    BY <1>0, <1>9, <2>3 DEF CountTurns, DTypeOK
  <2> QED
    BY <1>0, <1>9, <2>4 DEF CountTurns, NothingDone, DTypeOK
<1>10. CASE PersistTurn(n)
  <2>1. note[n] # None
    BY <1>10 DEF PersistTurn, AtStage, DJobOK
  <2>2. drun' \in [Notes -> DRun] /\ turns' \in [Threads -> Seq(Turn)]
    BY <1>10, <2>1, Stage, TurnAppended DEF PersistTurn, DStages
  <2> QED
    BY <1>0, <1>10, <2>2 DEF PersistTurn, DTypeOK
<1> QED
  BY <1>1, <1>2, <1>3, <1>4, <1>5, <1>6, <1>7, <1>8, <1>9, <1>10 DEF Acts, DialogStep, DialogFault

(* A comment of a user, its delivery or a registration tells no job anything new.   *)
LEMMA CommentsOnly ==
  ASSUME DInv, note' \in [Notes -> Note \cup {None}],
         \A m \in Notes : note[m] # None => note'[m] = note[m],
         djob' \in [Notes -> {"none", "queued", "running", "settled"}],
         \A m \in Notes : djob'[m] # djob[m] => note[m] # None,
         known' \in BOOLEAN,
         UNCHANGED <<dtries, drun, rows, globs, replies, turns, crossed, vain>>
  PROVE  DInv'
<1> USE DEF DInv
<1>1. DTypeOK' /\ TurnsAreBounded'
  BY DEF DTypeOK, TurnsAreBounded
<1>2. SUFFICES ASSUME NEW n \in Notes PROVE DJobOK(n)'
  BY <1>1
<1>3. DJobOK(n) /\ (note[n] # None => note'[n] = note[n]) /\ (djob'[n] # djob[n] => note[n] # None)
  OBVIOUS
<1>4. note[n] # None =>
        /\ IsMark(n)' = IsMark(n) /\ IsIgnore(n)' = IsIgnore(n) /\ Acted(n)' = Acted(n)
  BY <1>3 DEF IsMark, IsIgnore, Acted, FingerprintOf
<1>5. \A t : TurnsOf(t, n)' = TurnsOf(t, n)
  BY DEF TurnsOf
<1> QED
  BY <1>3, <1>4, <1>5 DEF DJobOK

(* The invariant holds of every step.                                            *)
LEMMA DialogInductive == DInv /\ [DNext]_dVars => DInv'
<1> SUFFICES ASSUME DInv, [DNext]_dVars PROVE DInv'
  OBVIOUS
<1>1. ASSUME NEW n \in Notes, Acts(n) PROVE DInv'
  <2>1. DTypeOK'
    BY <1>1, DialogTypes
  <2>2. TurnsAreBounded'
    <3>1. CASE turns' = turns
      BY <3>1 DEF DInv, TurnsAreBounded
    <3> QED
      BY <1>1, <3>1, DialogFrame, TurnNumbers
  <2>3. DJobOK(n)'
    BY <1>1, OwnQuiet, OwnRecord, OwnGlobs, OwnReply, OwnTurn DEF Acts, DialogStep
  <2>4. \A m \in Notes : DJobOK(m)'
    BY <1>1, <2>3, OtherJobs
  <2> QED
    BY <2>1, <2>2, <2>4 DEF DInv
<1>2. CASE UserComments
  <2>1. PICK t \in Threads, cmd \in Said : \E arg \in ArgsOf(cmd) : Post(t, "user", cmd, arg)
    BY <1>2 DEF UserComments
  <2>2. PICK arg \in ArgsOf(cmd) : Post(t, "user", cmd, arg)
    BY <2>1
  <2>3. cmd \in Commands /\ arg \in Patterns \cup {None}
    BY <2>2, DialogAssumption DEF ArgsOf
  <2>4. /\ note' \in [Notes -> Note \cup {None}]
        /\ \A n \in Notes : note[n] # None => note'[n] = note[n]
    BY <2>2, <2>3, NotesStay DEF DInv
  <2> QED
    BY <1>2, <2>4, CommentsOnly DEF UserComments, DInv, DTypeOK
<1>3. ASSUME NEW n \in Notes, Deliver(n) PROVE DInv'
  <2>1. /\ djob' \in [Notes -> {"none", "queued", "running", "settled"}]
        /\ \A m \in Notes : djob'[m] # djob[m] => note[m] # None
        /\ note' = note /\ note \in [Notes -> Note \cup {None}]
    BY <1>3 DEF Deliver, DInv, DTypeOK
  <2> QED
    BY <1>3, <2>1, CommentsOnly DEF Deliver, DInv, DTypeOK
<1>4. CASE UNCHANGED dVars \/ Register
  BY <1>4, CommentsOnly DEF dVars, Register, DInv, DTypeOK
<1> QED
  BY <1>1, <1>2, <1>3, <1>4 DEF DNext, Acts

(* The invariant holds initially.                                              *)
LEMMA DialogStarts == DInit => DInv
<1> SUFFICES ASSUME DInit PROVE DInv
  OBVIOUS
<1>1. DTypeOK
  <2>1. NoDRun \in DRun
    BY DEF NoDRun, DRun
  <2>2. drun \in [Notes -> DRun]
    BY <2>1 DEF DInit
  <2>3. dtries \in [Notes -> 0 .. MaxTries]
    <3>1. 0 \in 0 .. MaxTries
      BY DialogAssumption
    <3> QED
      BY <3>1 DEF DInit
  <2>4. turns \in [Threads -> Seq(Turn)]
    BY DEF DInit
  <2> QED
    BY <2>2, <2>3, <2>4 DEF DInit, DTypeOK
<1>2. TurnsAreBounded
  BY DEF DInit, TurnsAreBounded
<1>3. ASSUME NEW n \in Notes PROVE DJobOK(n)
  <2>1. \A t \in Threads : TurnsOf(t, n) = {}
    BY DEF DInit, TurnsOf
  <2>2. drun[n].pc = "off" /\ djob[n] = "none" /\ rows[n] = 0 /\ dtries[n] = 0 /\ replies[n] = 0
    BY <1>3 DEF DInit, NoDRun
  <2> QED
    BY <2>1, <2>2, FS_EmptySet DEF DJobOK
<1> QED
  BY <1>1, <1>2, <1>3 DEF DInv

(* Comments, jobs and what they leave are as the invariant says.                  *)
THEOREM DialogInvariant == DSpec => []DInv
<1> QED
  BY DialogStarts, DialogInductive, PTL DEF DSpec

(* Every variable of the dialog has its type.                                    *)
THEOREM DialogTyped == DSpec => []DTypeOK
<1>1. DInv => DTypeOK
  BY DEF DInv
<1> QED
  BY <1>1, DialogInvariant, PTL

(* Rows of feedback come from false-positive commands in threads of findings, one   *)
(* per start of the job, whatever the bot says in its own answers.                 *)
THEOREM OnlyAskedFor == DSpec => []FeedbackIsAskedFor
<1>1. DInv => FeedbackIsAskedFor
  BY DEF DInv, DJobOK, FeedbackIsAskedFor, IsMark
<1> QED
  BY <1>1, DialogInvariant, PTL

(* The answer to a false-positive command has its row exactly when the thread names   *)
(* a finding, and a turn is never ahead of its answer, across retries, timeouts and   *)
(* stopped workers.                                                            *)
THEOREM AnswersBacked == DSpec => []AnswersAreBacked
<1>1. DInv => AnswersAreBacked
  <2> SUFFICES ASSUME DInv, NEW n \in Notes
               PROVE  /\ (replies[n] > 0 /\ note[n].cmd = "false_positive") =>
                            (rows[n] > 0 <=> FingerprintOf(n) # None)
                      /\ \A t \in Threads : Cardinality(TurnsOf(t, n)) <= replies[n]
    BY DEF AnswersAreBacked, TurnsOf
  <2>1. DJobOK(n)
    BY DEF DInv
  <2>2. rows[n] > 0 => FingerprintOf(n) # None
    BY <2>1 DEF DJobOK, IsMark
  <2>3. (replies[n] > 0 /\ note[n].cmd = "false_positive" /\ FingerprintOf(n) # None) => rows[n] > 0
    BY <2>1 DEF DJobOK, IsMark, Acted
  <2>4. \A t \in Threads : Cardinality(TurnsOf(t, n)) <= replies[n]
    BY <2>1 DEF DJobOK
  <2> QED
    BY <2>2, <2>3, <2>4
<1> QED
  BY <1>1, DialogInvariant, PTL

(* However jobs interleave between counting and inserting, a turn is never numbered  *)
(* beyond its place in the thread.                                              *)
THEOREM NumbersNeverRunAhead == DSpec => []TurnsAreBounded
<1>1. DInv => TurnsAreBounded
  BY DEF DInv
<1> QED
  BY <1>1, DialogInvariant, PTL

(* An answered ignore command is in force unless its pattern is empty, its job found   *)
(* no registered repository, or two jobs crossed.                                 *)
THEOREM NoIgnoreLost == DSpec => []IgnoresAreKept
<1>1. DInv => IgnoresAreKept
  BY DEF DInv, DJobOK, IgnoresAreKept, IsIgnore, Acted
<1> QED
  BY <1>1, DialogInvariant, PTL

=============================================================================
