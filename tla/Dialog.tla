-------------------------------- MODULE Dialog --------------------------------
(***************************************************************************)
(* The dialog (pipeline/dialog.py): comments in the threads of a repository,   *)
(* the run_dialog jobs their webhook events cause, and the answers these jobs *)
(* post, which are comments again.  Jobs run side by side and are started     *)
(* again like run_scan jobs; there is no exception handler around them.       *)
(***************************************************************************)
EXTENDS Naturals, Sequences, FiniteSets

CONSTANTS
  MaxNotes,     \* bound: number of comments
  Said,         \* bound: the kinds of comment that users make
  Threads,      \* threads of review comments
  Prints,       \* fingerprints
  PrintIn,      \* PrintIn[t]: the fingerprint that a comment of t names, or None
  Patterns,     \* ignore patterns
  EchoPattern,  \* what _IGNORE reads in the answer to an ignore command
  None,         \* "no value"
  MaxTries,     \* WorkerSettings.max_tries
  Faults        \* the kinds of fault a run admits

Notes == 1 .. MaxNotes  \* comment ids, in the order of the comments

Commands == {"false_positive", "ignore", "scan_full", "explain", "blank"}

ASSUME DialogAssumption ==
  /\ MaxNotes \in Nat
  /\ Said \subseteq Commands
  /\ MaxTries \in Nat \ {0}
  /\ EchoPattern \in Patterns
  /\ None \notin Prints \cup Patterns \cup Notes
  /\ PrintIn \in [Threads -> Prints \cup {None}]
  /\ Faults \subseteq {"worker", "timeout", "exception", "token"}

VARIABLES
  note,      \* note[n]: comment n at the host, None while there is none
  djob,      \* djob[n]: where the Arq job for comment n is
  dtries,    \* dtries[n]: how often a worker has started it
  drun,      \* drun[n]: its local state
  rows,      \* rows[n]: feedback rows that it has inserted
  globs,     \* ignore_globs in the policy of the repository
  replies,   \* replies[n]: answers to n that the host received
  turns,     \* turns[t]: the dialog_turns rows of t, in the order of their commits
  crossed,   \* history: a job read ignore_globs while another was to write them
  known,     \* the repository is registered
  vain       \* history: ignore commands that found no registered repository

dVars == <<note, djob, dtries, drun, rows, globs, replies, turns, crossed, known, vain>>

(* by: the author; cmd, arg: what parse_command makes of the body, "blank" if  *)
(* there is none.                                                            *)
Note == [ thread : Threads,
          by     : {"user", "aegis"},
          cmd    : Commands,
          arg    : Patterns \cup {None} ]

DStages ==
  {"open", "thread", "record", "read", "write", "reply", "count", "turn", "ack"}

(* globs: ignore_globs as they were read; count: len(existing).              *)
DRun == [pc : DStages \cup {"off"}, globs : SUBSET Patterns, count : Nat]

NoDRun == [pc |-> "off", globs |-> {}, count |-> 0]

Turn == [note : Notes, turn : Nat]

DTypeOK ==
  /\ note \in [Notes -> Note \cup {None}]
  /\ djob \in [Notes -> {"none", "queued", "running", "settled"}]
  /\ dtries \in [Notes -> 0 .. MaxTries]
  /\ drun \in [Notes -> DRun]
  /\ rows \in [Notes -> Nat]
  /\ globs \in SUBSET Patterns
  /\ replies \in [Notes -> Nat]
  /\ turns \in [Threads -> Seq(Turn)]
  /\ crossed \in BOOLEAN
  /\ known \in BOOLEAN
  /\ vain \in SUBSET Notes

DInit ==
  /\ note = [n \in Notes |-> None]
  /\ djob = [n \in Notes |-> "none"]
  /\ dtries = [n \in Notes |-> 0]
  /\ drun = [n \in Notes |-> NoDRun]
  /\ rows = [n \in Notes |-> 0]
  /\ globs = {}
  /\ replies = [n \in Notes |-> 0]
  /\ turns = [t \in Threads |-> <<>>]
  /\ crossed = FALSE
  /\ known = FALSE
  /\ vain = {}

-----------------------------------------------------------------------------
(* The host.                                                                 *)

Post(t, by, cmd, arg) ==
  \E m \in Notes :
    /\ note[m] = None /\ \A k \in 1 .. m - 1 : note[k] # None
    /\ note' = [note EXCEPT ![m] = [thread |-> t, by |-> by, cmd |-> cmd, arg |-> arg]]

(* Only an ignore command has an argument that matters, and it can be empty. *)
ArgsOf(cmd) == IF cmd = "ignore" THEN Patterns \cup {None} ELSE {None}

UserComments ==
  /\ \E t \in Threads, cmd \in Said :
       \E arg \in ArgsOf(cmd) : Post(t, "user", cmd, arg)
  /\ UNCHANGED <<djob, dtries, drun, rows, globs, replies, turns, crossed, known, vain>>

(* The event of comment n passes the gateway, whose claim lets it do so once. *)
Deliver(n) ==
  /\ note[n] # None
  /\ djob[n] = "none"
  /\ djob' = [djob EXCEPT ![n] = "queued"]
  /\ UNCHANGED <<note, dtries, drun, rows, globs, replies, turns, crossed, known, vain>>

(* create_repo. Until then resolve knows the token from the environment.         *)
Register ==
  /\ ~ known
  /\ known' = TRUE
  /\ UNCHANGED <<note, djob, dtries, drun, rows, globs, replies, turns, crossed, vain>>

-----------------------------------------------------------------------------
(* Arq, as for run_scan.                                                     *)

AtStage(n, pc) == drun[n].pc = pc

(* What was read is not used beyond the step that writes.                    *)
GoOn(n, pc) == drun' = [drun EXCEPT ![n] = [NoDRun EXCEPT !.pc = pc]]

Done(n) ==
  /\ djob' = [djob EXCEPT ![n] = "settled"]
  /\ drun' = [drun EXCEPT ![n] = NoDRun]

NothingDone == UNCHANGED <<note, rows, globs, replies, turns, crossed, known, vain>>

DTriesLeft(n) == dtries[n] < MaxTries

(* Mutation: Arq never drops a job.                                          *)
DNeverExhausted(n) == FALSE

DExhausted(n) == dtries[n] = MaxTries

DPickUp(n) ==
  /\ djob[n] = "queued"
  /\ DTriesLeft(n)
  /\ djob' = [djob EXCEPT ![n] = "running"]
  /\ dtries' = [dtries EXCEPT ![n] = @ + 1]
  /\ drun' = [drun EXCEPT ![n] = [NoDRun EXCEPT !.pc = "open"]]
  /\ NothingDone

DGiveUp(n) ==
  /\ djob[n] = "queued"
  /\ DExhausted(n)
  /\ Done(n)
  /\ UNCHANGED dtries /\ NothingDone

DWorkerStops(n) ==
  /\ "worker" \in Faults
  /\ djob[n] = "running"
  /\ djob' = [djob EXCEPT ![n] = "queued"]
  /\ drun' = [drun EXCEPT ![n] = NoDRun]
  /\ UNCHANGED dtries /\ NothingDone

DTimesOut(n) ==
  /\ "timeout" \in Faults
  /\ djob[n] = "running"
  /\ ~ AtStage(n, "ack")
  /\ Done(n)
  /\ UNCHANGED dtries /\ NothingDone

DAcknowledge(n) ==
  /\ AtStage(n, "ack")
  /\ Done(n)
  /\ UNCHANGED dtries /\ NothingDone

(* Postgres, the host or the router raises: the job ends.  A call that took   *)
(* effect and failed for its caller is the call and then this.               *)
Raises(n) ==
  /\ "exception" \in Faults
  /\ drun[n].pc \in DStages \ {"ack"}
  /\ Done(n)
  /\ UNCHANGED dtries /\ NothingDone

-----------------------------------------------------------------------------
(* handle_dialog_event.                                                      *)

(* A comment that does not mention the bot is answered as well: parse_event   *)
(* of every provider gives each comment event a thread_id.                   *)
ShouldAnswer(n) == note[n].cmd # "blank"

(* A comment that is no command is dropped, and so is one of a repository      *)
(* without a token.                                                          *)
Open(n) ==
  /\ AtStage(n, "open")
  /\ \/ ShouldAnswer(n) /\ GoOn(n, "thread")
     \/ (~ ShouldAnswer(n) \/ "token" \in Faults) /\ GoOn(n, "ack")
  /\ UNCHANGED <<djob, dtries>> /\ NothingDone

FingerprintOf(n) == PrintIn[note[n].thread]

(* Mutations: a comment in the thread of a finding counts as a command about   *)
(* it; the answer is given without doing anything.                           *)
RecordAlways(n) == IF FingerprintOf(n) # None THEN "record" ELSE "reply"
AnswerAtOnce(n) == "reply"

(* answer_command: what is done before the answer.  An explanation asks the   *)
(* LLM router and falls back to a fixed text.                                *)
CommandStage(n) ==
  CASE note[n].cmd = "false_positive" /\ FingerprintOf(n) # None -> "record"
    [] note[n].cmd = "ignore" /\ note[n].arg # None              -> "read"
    [] OTHER                                                     -> "reply"

(* fetch_pull_request and get_thread, which change nothing.                  *)
FetchThread(n) ==
  /\ AtStage(n, "thread")
  /\ GoOn(n, CommandStage(n))
  /\ UNCHANGED <<djob, dtries>> /\ NothingDone

(* _record_feedback commits one row.                                         *)
RecordFeedback(n) ==
  /\ AtStage(n, "record")
  /\ rows' = [rows EXCEPT ![n] = @ + 1]
  /\ GoOn(n, "reply")
  /\ UNCHANGED <<djob, dtries, note, globs, replies, turns, crossed, known, vain>>

(* _add_ignore_glob reads the list, and writes it back at its commit. Of a          *)
(* repository that is not registered it writes nothing.                       *)
ReadGlobs(n) ==
  /\ AtStage(n, "read")
  /\ \/ /\ known
        /\ drun' = [drun EXCEPT ![n] = [@ EXCEPT !.pc = "write", !.globs = globs]]
        /\ crossed' = (crossed \/ \E m \in Notes : AtStage(m, "write"))
        /\ UNCHANGED vain
     \/ /\ ~ known
        /\ GoOn(n, "reply")
        /\ vain' = vain \cup {n}
        /\ UNCHANGED crossed
  /\ UNCHANGED <<djob, dtries, note, rows, globs, replies, turns, known>>

(* Mutation: the list is replaced by the pattern.                            *)
OnlyThePattern(n) == {note[n].arg}

(* The list as it was read, with the pattern; no UPDATE if it is in the list. *)
NewGlobs(n) ==
  IF note[n].arg \in drun[n].globs THEN globs ELSE drun[n].globs \cup {note[n].arg}

WriteGlobs(n) ==
  /\ AtStage(n, "write")
  /\ globs' = NewGlobs(n)
  /\ GoOn(n, "reply")
  /\ UNCHANGED <<djob, dtries, note, rows, replies, turns, crossed, known, vain>>

(* The commands that parse_command can see in the answer to a command: the    *)
(* fixed answers have their words, an explanation can have any.              *)
EchoOf(cmd) ==
  CASE cmd = "false_positive" -> {<<"false_positive", None>>}
    [] cmd = "ignore"         -> {<<"ignore", EchoPattern>>}
    [] cmd = "scan_full"      -> {<<"explain", None>>}
    [] OTHER                  -> UNION {{c} \X ArgsOf(c) : c \in Commands \ {"blank"}}

(* The answer is a comment of the thread, as long as the bound on comments    *)
(* allows; its event is delivered like any other.                            *)
Reply(n) ==
  /\ AtStage(n, "reply")
  /\ replies' = [replies EXCEPT ![n] = @ + 1]
  /\ \/ \E e \in EchoOf(note[n].cmd) : Post(note[n].thread, "aegis", e[1], e[2])
     \/ (\A m \in Notes : note[m] # None) /\ UNCHANGED note
  /\ GoOn(n, "count")
  /\ UNCHANGED <<djob, dtries, rows, globs, turns, crossed, known, vain>>

(* _persist_turn counts the rows of the thread, and inserts one at its commit. *)
CountTurns(n) ==
  /\ AtStage(n, "count")
  /\ drun' = [drun EXCEPT ![n] = [@ EXCEPT !.pc = "turn", !.count = Len(turns[note[n].thread])]]
  /\ UNCHANGED <<djob, dtries>> /\ NothingDone

(* Mutation: the number is off by one.                                       *)
NextTurnAfter(n) == drun[n].count + 2

TurnNumber(n) == drun[n].count + 1

PersistTurn(n) ==
  /\ AtStage(n, "turn")
  /\ turns' = [turns EXCEPT ![note[n].thread] = Append(@, [note |-> n, turn |-> TurnNumber(n)])]
  /\ GoOn(n, "ack")
  /\ UNCHANGED <<djob, dtries, note, rows, globs, replies, crossed, known, vain>>

-----------------------------------------------------------------------------

DialogStep(n) ==
  \/ DPickUp(n) \/ DGiveUp(n) \/ DAcknowledge(n)
  \/ Open(n) \/ FetchThread(n)
  \/ RecordFeedback(n) \/ ReadGlobs(n) \/ WriteGlobs(n)
  \/ Reply(n) \/ CountTurns(n) \/ PersistTurn(n)

DialogFault(n) == DWorkerStops(n) \/ DTimesOut(n) \/ Raises(n)

DNext ==
  \/ UserComments \/ Register
  \/ \E n \in Notes : Deliver(n) \/ DialogStep(n) \/ DialogFault(n)

DSpec == DInit /\ [][DNext]_dVars

(* Workers poll the queue and every await of a job ends.                     *)
DFairSpec == DSpec /\ \A n \in Notes : WF_dVars(DialogStep(n))

-----------------------------------------------------------------------------

(* Feedback, from which suppression follows, has a comment that asked for it: *)
(* one row per start of a job for a false-positive command in the thread of a *)
(* finding, so that Threshold rows need Threshold / MaxTries such comments.   *)
FeedbackIsAskedFor ==
  \A n \in Notes :
    rows[n] > 0 =>
      /\ note[n].cmd = "false_positive"
      /\ FingerprintOf(n) # None
      /\ rows[n] <= dtries[n]

(* "Marked this finding as a false positive" (dialog.py:92-96) is never ahead of its  *)
(* row where the thread names a finding; where it does not, the answer is the same  *)
(* and no row is behind it, in whichever try (dialog.py:175-176). And dialog_turns   *)
(* never has a turn whose answer the host did not receive.                      *)
AnswersAreBacked ==
  \A n \in Notes :
    /\ (replies[n] > 0 /\ note[n].cmd = "false_positive") =>
          (rows[n] > 0 <=> FingerprintOf(n) # None)
    /\ \A t \in Threads :
         Cardinality({i \in DOMAIN turns[t] : turns[t][i].note = n}) <= replies[n]

(* Turn numbers are read before and used after other jobs insert theirs: they *)
(* can repeat, but the i-th row is never numbered beyond i nor below 1.       *)
TurnsAreBounded ==
  \A t \in Threads : \A i \in DOMAIN turns[t] : turns[t][i].turn \in 1 .. i

(* "Added repository ignore pattern" (dialog.py:99) is true, in this try and for      *)
(* ever, unless the pattern is empty (dialog.py:190-191), the repository was not    *)
(* registered when the command looked (dialog.py:201-202), or two jobs read and      *)
(* wrote the list crosswise, which loses an update. (A second registration replaces  *)
(* the list by its own: RepoRegistry.)                                        *)
IgnoresAreKept ==
  \A n \in Notes :
    (replies[n] > 0 /\ note[n].cmd = "ignore") =>
      note[n].arg \in globs \/ note[n].arg = None \/ n \in vain \/ crossed

(* Every dialog job ends, whatever fails.                                    *)
DialogsSettle == \A n \in Notes : (djob[n] = "queued") ~> (djob[n] = "settled")

=============================================================================
