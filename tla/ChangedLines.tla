----------------------------- MODULE ChangedLines -----------------------------
(***************************************************************************)
(* From the patch of a changed file to the findings on its added lines: the    *)
(* stages filter, context and deterministic of a scan (pipeline/filter.py,     *)
(* context.py, deterministic_stage.py and deterministic/), for one file beside  *)
(* a manifest whose dependencies are Deps. What becomes of a line does not       *)
(* depend on the other lines, so every line is one that each tool would report.  *)
(***************************************************************************)
EXTENDS DiffParser, FiniteSets

CONSTANTS
  FileTraits,     \* the sets of traits that a file can have
  Beyond,         \* what a file can have besides: <<lines after the last hunk, separators>>
  ContextLines,   \* diff.context_lines
  Deps            \* lines of the other manifest that add a dependency

Traits == {"deleted", "manifest", "binary", "ignored", "non-code", "too-large", "generated"}

ASSUME LinesAssumption ==
  /\ FileTraits \subseteq SUBSET (Traits \cup {"python"})
  /\ Beyond \subseteq Nat \X Nat
  /\ ContextLines \in Nat
  /\ Deps \subseteq Nat

CodeTools == {"secrets", "gitleaks", "semgrep", "bandit"}

Stages == {"read", "context", "merge", "secrets", "gitleaks", "fetch", "semgrep", "bandit", "sca",
           "persist", "done", "raised"}

VARIABLES
  stage,      \* where the scan is
  host,       \* the parser of the pull request's host
  traits,     \* the traits of the file
  fileLen,    \* lines of the file at the head of the pull request
  textLen,    \* lines of it in the eyes of splitlines()
  windows,    \* _merge_intervals: merged
  todo,       \* _merge_intervals: the hunks whose intervals are not in it yet
  text,       \* file_texts has the file
  found,      \* findings of the deterministic stage
  degraded,   \* result.degraded
  mute        \* history: what failed without an entry in degraded

sVars == <<stage, host, traits, fileLen, textLen, windows, todo, text, found, degraded, mute>>
cVars == <<pVars, sVars>>

(* file: "code" is the file itself, "deps" the other manifest. at: history, the text   *)
(* of the patch that the finding is about.                                     *)
Finding == [tool : CodeTools \cup {"sca"}, file : {"code", "deps"}, line : Nat, at : Nat \X Nat]

CTypeOK ==
  /\ PTypeOK
  /\ stage \in Stages
  /\ host \in Parsers
  /\ traits \in SUBSET (Traits \cup {"python"})
  /\ fileLen \in Nat
  /\ textLen \in Nat
  /\ windows \in Seq(Nat \X Int)
  /\ todo \in SUBSET Nat
  /\ text \in BOOLEAN
  /\ found \in SUBSET Finding
  /\ degraded \in SUBSET CodeTools
  /\ mute \in SUBSET (CodeTools \cup {"fetch"})

CInit ==
  /\ PInit
  /\ stage = "read"
  /\ host = "unified"
  /\ traits = {}
  /\ fileLen = 0
  /\ textLen = 0
  /\ windows = <<>>
  /\ todo = {}
  /\ text = FALSE
  /\ found = {}
  /\ degraded = {}
  /\ mute = {}

ReadPatch == stage = "read" /\ PNext /\ UNCHANGED sVars

-----------------------------------------------------------------------------
(* apply_filter: the first of these that applies is the reason to skip a file.   *)
Reasons == <<"deleted", "manifest", "binary", "ignored", "non-code", "too-large", "generated">>

Reason(T) ==
  IF T \cap Traits = {} THEN "kept"
  ELSE Reasons[CHOOSE i \in 1 .. Len(Reasons) :
                 Reasons[i] \in T /\ \A j \in 1 .. i - 1 : Reasons[j] \notin T]

Kept == stage # "read" /\ Reason(traits) = "kept"

(* fetch_diff has parsed the patch and apply_filter sorts the file. GitLab's parser   *)
(* never says that a file is binary. For splitlines() a separator ends a line.    *)
Filter(h, T, beyond) ==
  /\ stage = "read"
  /\ LastKind \notin {"none", "hunk"}
  /\ h = "gitlab" => "binary" \notin T
  /\ beyond[1] > 0 => file.ended = "no"
  /\ stage' = "context"
  /\ host' = h
  /\ traits' = T
  /\ fileLen' = file.new - 1 + beyond[1]
  /\ beyond[2] > 0 => fileLen' > 0
  /\ textLen' = fileLen' + beyond[2]
  /\ UNCHANGED <<pVars, windows, todo, text, found, degraded, mute>>

-----------------------------------------------------------------------------
(* extract_context.                                                          *)

Lesser(a, b) == IF a < b THEN a ELSE b
Greater(a, b) == IF a < b THEN b ELSE a

Window(h) ==
  LET hunk == parsed[host].hunks[h]
  IN  << Greater(1, hunk.new_start - ContextLines),
         Lesser(textLen, hunk.new_start + hunk.new_count + ContextLines - 1) >>

(* sorted: tuples compare element by element.                                *)
Before(v, w) == v[1] < w[1] \/ (v[1] = w[1] /\ v[2] < w[2])

(* Mutation: windows that touch are left apart.                               *)
Overlaps(w, v) == v[1] <= w[2]

Touches(w, v) == v[1] <= w[2] + 1

Merge(merged, v) ==
  IF merged # <<>> /\ Touches(merged[Len(merged)], v)
  THEN [merged EXCEPT ![Len(merged)] = <<@[1], Greater(@[2], v[2])>>]
  ELSE Append(merged, v)

(* A file that cannot be fetched, or that is empty, has no context.             *)
Context ==
  /\ stage = "context"
  /\ \/ stage' = "secrets" /\ UNCHANGED todo
     \/ Kept /\ textLen > 0 /\ stage' = "merge" /\ todo' = 1 .. Len(parsed[host].hunks)
  /\ UNCHANGED <<pVars, host, traits, fileLen, textLen, windows, text, found, degraded, mute>>

(* _merge_intervals, a turn of its loop per hunk: it walks over the sorted        *)
(* intervals, so that the next one is a least one of the rest.                  *)
MergeNext ==
  /\ stage = "merge"
  /\ \E h \in todo :
       /\ \A g \in todo : ~ Before(Window(g), Window(h))
       /\ windows' = Merge(windows, Window(h))
       /\ todo' = todo \ {h}
  /\ UNCHANGED <<pVars, stage, host, traits, fileLen, textLen, text, found, degraded, mute>>

Merged ==
  /\ stage = "merge"
  /\ todo = {}
  /\ stage' = "secrets"
  /\ UNCHANGED <<pVars, host, traits, fileLen, textLen, windows, todo, text, found, degraded, mute>>

-----------------------------------------------------------------------------
(* run_deterministic.                                                        *)

Go(next) ==
  /\ stage' = next
  /\ UNCHANGED <<pVars, host, traits, fileLen, textLen, windows, todo>>

(* A line that has several texts has a finding for each of them, as any may be the    *)
(* one the tool reports the line for (scan_secrets stops at the first).          *)
FindingsOn(tool, ln) ==
  {[tool |-> tool, file |-> "code", line |-> ln.new, at |-> x] : x \in TextsOf(host, ln)}

(* Mutation: the detectors see all files.                                     *)
EveryFile == AddedLines(host)

(* Of state.code_files, which are what the filter kept.                        *)
CodeLines == IF Kept THEN AddedLines(host) ELSE {}

Secrets ==
  /\ stage = "secrets"
  /\ found' = UNION {FindingsOn("secrets", ln) : ln \in CodeLines}
  /\ Go("gitleaks")
  /\ UNCHANGED <<text, degraded, mute>>

(* A tool that is not installed is noted; one that exits with another code than    *)
(* 0 and 1, or whose report is garbled, has found nothing.                     *)
RunTool(tool, runs, results, next) ==
  /\ stage = tool
  /\ \/ found' = found \cup (IF runs THEN results ELSE {}) /\ UNCHANGED <<degraded, mute>>
     \/ runs /\ degraded' = degraded \cup {tool} /\ UNCHANGED <<found, mute>>
     \/ runs /\ mute' = mute \cup {tool} /\ UNCHANGED <<found, degraded>>
  /\ Go(next)
  /\ UNCHANGED text

(* Mutation: the lines of the temporary file are counted from 0.               *)
TempLineFromZero(ln) == Cardinality({m \in CodeLines : m.pos < ln.pos})

(* The temporary file has the added lines alone.                              *)
TempLine(ln) == Cardinality({m \in CodeLines : m.pos <= ln.pos})

Gitleaks ==
  RunTool("gitleaks", CodeLines # {},
          UNION {FindingsOn("gitleaks", ln) :
                   ln \in {m \in CodeLines : TempLine(m) \in 1 .. Cardinality(CodeLines)}},
          "fetch")

(* A file that cannot be fetched is left out of file_texts.                   *)
Fetch ==
  /\ stage = "fetch"
  /\ \/ text' = Kept /\ UNCHANGED mute
     \/ Kept /\ mute' = mute \cup {"fetch"} /\ UNCHANGED text
  /\ Go("semgrep")
  /\ UNCHANGED <<found, degraded>>

(* Mutation: the lines that follow the changed ones count as changed.          *)
NearAdded(n) == {ln \in CodeLines : n - ln.new \in {0, 1}}

(* _added_line_set and _position_for: the added lines that have the number n.    *)
WithNumber(n) == {ln \in CodeLines : ln.new = n}

FirstWithNumber(n) ==
  CHOOSE ln \in WithNumber(n) : \A m \in WithNumber(n) : ln.pos <= m.pos

(* These tools report lines of the whole file, by their true numbers.            *)
OnAddedLines(tool) ==
  { [tool |-> tool, file |-> "code", line |-> n, at |-> FirstWithNumber(n).at] :
      n \in {m \in 1 .. fileLen : WithNumber(m) # {}} }

Semgrep == RunTool("semgrep", text, OnAddedLines("semgrep"), "bandit")

Bandit == RunTool("bandit", text /\ "python" \in traits, OnAddedLines("bandit"), "sca")

(* The dependencies that the manifests add, the file's too if it is one.          *)
Queries ==
  (UNION {FindingsOn("sca", ln) : ln \in IF Reason(traits) = "manifest" THEN AddedLines(host) ELSE {}}) \cup
  {[tool |-> "sca", file |-> "deps", line |-> n, at |-> <<n, 0>>] : n \in Deps}

(* OSV knows advisories for some of them, or answers for fewer than were asked; no   *)
(* answer, or a status other than 200, is no finding.                          *)
Sca ==
  /\ stage = "sca"
  /\ \E S \in SUBSET Queries : found' = found \cup S
  /\ Go("persist")
  /\ UNCHANGED <<text, degraded, mute>>

Persist ==
  /\ stage = "persist"
  /\ Go("done")
  /\ UNCHANGED <<text, found, degraded, mute>>

(* What is not caught ends the scan with "error", and nothing of the stage is        *)
(* kept: an OSV answer that is not JSON (sca.py:80), a report of Semgrep that is   *)
(* not an object, a tool that may not be started, a failing session.            *)
StageRaises ==
  /\ stage \in {"gitleaks", "semgrep", "bandit", "sca", "persist"}
  /\ Go("raised")
  /\ UNCHANGED <<text, found, degraded, mute>>

CNext ==
  \/ ReadPatch
  \/ \E h \in Parsers, T \in FileTraits, beyond \in Beyond : Filter(h, T, beyond)
  \/ Context \/ MergeNext \/ Merged \/ Secrets \/ Gitleaks \/ Fetch \/ Semgrep \/ Bandit \/ Sca \/ Persist
  \/ StageRaises

CSpec == CInit /\ [][CNext]_cVars

-----------------------------------------------------------------------------

(* The parser shows every text as it is.                                       *)
Whole == host = "unified" \/ rests = <<>>

(* The changed-lines contract (semgrep.py:5): what Semgrep and Bandit say of the     *)
(* whole file is kept only where the file at the head has an added line,        *)
(* whatever the parser calls added lines; with GitLab, unless the patch has a     *)
(* separator (gitlab.py:229): the lines after one have other numbers.           *)
ChangedLinesContract ==
  \A f \in found : (f.tool \in {"semgrep", "bandit"} /\ Whole) =>
    \E i \in 1 .. Len(patch) : IsAdded(i) /\ patch[i].new = f.line

(* GitLab's parser does not take the text for an added one: it follows a separator    *)
(* and does not happen to begin with "+".                                      *)
Torn(x) == host = "gitlab" /\ x[2] # 0 /\ rests[x[2]].looks # "add"

(* A finding that a text of an added line deserves is missing at the end only if a     *)
(* tool was missing and "degraded" says so, if a tool or the fetch failed without   *)
(* an entry, or, with GitLab and without a word: the text follows a separator        *)
(* (the tools that read the parser's lines), or the line follows one in its hunk or   *)
(* is next after a marker, and has lost its number (those that read the file).    *)
LossIsExplained ==
  (stage = "done" /\ Kept) =>
    \A x \in {y \in Texts : IsAdded(y[1])} :
      /\ Torn(x) \/ \E f \in found : f.tool = "secrets" /\ f.at = x
      /\ \/ Torn(x) \/ \E f \in found : f.tool = "gitleaks" /\ f.at = x
         \/ "gitleaks" \in degraded \cup mute
      /\ \A tool \in {"semgrep"} \cup (IF "python" \in traits THEN {"bandit"} ELSE {}) :
           \/ \E f \in found : f.tool = tool /\ f.line = patch[x[1]].new
           \/ tool \in degraded \cup mute
           \/ "fetch" \in mute
           \/ host = "gitlab" /\ (patch[x[1]].torn \/ patch[x[1] - 1].kind = "eof")

Covered(n) == \E k \in 1 .. Len(windows) : n \in windows[k][1] .. windows[k][2]

(* The context of a file is made of windows of its lines that are apart from each      *)
(* other, and the number of every added line is in one of them; with GitLab, whose   *)
(* hunks have no length, the first ContextLines numbers of a hunk are. (In a file     *)
(* with separators the line of that number is another: context.py:62 counts them.)  *)
ContextCoversHunks ==
  (windows # <<>> /\ stage # "merge") =>
    /\ \A k \in 1 .. Len(windows) : 1 <= windows[k][1] /\ windows[k][2] <= textLen
    /\ \A k \in 1 .. Len(windows) - 1 : windows[k][2] + 1 < windows[k + 1][1]
    /\ \A h \in 1 .. Len(parsed[host].hunks) :
         LET start == parsed[host].hunks[h].new_start
         IN  \A n \in Greater(1, start) .. Lesser(textLen, start + ContextLines - 1) : Covered(n)
    /\ host = "unified" =>
         \A i \in 1 .. Len(patch) : IsAdded(i) => Covered(patch[i].new)

(* The places that SafetyNet speaks of: texts of the patch, and lines of the other     *)
(* manifest.                                                                 *)
NetState ==
  CASE stage = "read" -> "open" [] stage \in {"done", "raised"} -> stage [] OTHER -> "ready"

CodeAt == IF Kept THEN {x \in Texts : IsAdded(x[1])} ELSE {}

ShownAt == UNION {TextsOf(host, ln) : ln \in CodeLines}

DepsAt == IF stage = "read" THEN {} ELSE {q.at : q \in Queries}

FoundAt == IF stage = "done" THEN {<<f.tool, f.at>> : f \in found} ELSE {}

(* The stage keeps the promise of SafetyNet, whatever the file, whichever tools fail  *)
(* and wherever the stage raises.                                            *)
Net == INSTANCE SafetyNet WITH
  Places <- Nat \X Nat, net <- NetState, code <- CodeAt, shown <- ShownAt, whole <- Whole,
  deps <- DepsAt, found <- FoundAt

ImplementsSafetyNet == Net!NSpec

=============================================================================
