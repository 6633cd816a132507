------------------------------ MODULE DiffParser ------------------------------
(***************************************************************************)
(* The patch of one changed file, raw line by raw line, and what the two       *)
(* parsers make of it: "unified" is parse_unified_diff (providers/diffparse.py) *)
(* for GitHub and Bitbucket, "gitlab" is _parse_gitlab_diff                    *)
(* (providers/gitlab.py). The first ends a line at a newline only, as the file   *)
(* does; the second walks over str.splitlines(), which ends one at a form feed,   *)
(* a line separator and their like (\f, \v, \x1c-\x1e, \x85, U+2028, U+2029, a   *)
(* lone \r) too, and so tears a raw line that has one into several texts.       *)
(***************************************************************************)
EXTENDS Integers, Sequences

CONSTANTS
  Gaps,       \* how many unchanged lines can precede a hunk
  Looks,      \* what the text after a separator can look like to the second parser
  Named,      \* line numbers that a text can name which looks like a header
  MaxPatch,   \* bound: raw lines of the patch and separators in them
  MaxRests    \* bound: separators

LineKinds == {"add", "del", "ctx"}

ASSUME ParserAssumption ==
  /\ Gaps \subseteq Nat /\ Named \subseteq Nat
  /\ Looks \subseteq {"hunk"} \cup LineKinds
  /\ MaxPatch \in Nat /\ MaxRests \in Nat

Parsers == {"unified", "gitlab"}

(* "eof" is "\ No newline at end of file", about the line before it.           *)
RawKinds == {"hunk", "add", "del", "ctx", "eof"}

(* old and new: of a header, where its hunk starts; of a line, its true numbers. *)
(* The parsers see them of headers only. torn: history, whether a line before it  *)
(* in its hunk has a separator.                                              *)
Raw == [kind : RawKinds, old : Nat, new : Nat, torn : BOOLEAN]

(* The text after a separator: in which raw line, and what it begins like ("ctx":  *)
(* none of "@@", "+" and "-").                                               *)
Rest == [at : Nat, looks : {"hunk"} \cup LineKinds]

VARIABLES
  patch,     \* the raw lines so far
  rests,     \* the texts after a separator in them
  file,      \* the true numbers of the next lines, which sides have ended, and whether
             \* the hunk has a separator
  parsed     \* parsed[p]: what parser p has made of the patch

pVars == <<patch, rests, file, parsed>>

(* A missing line number is 0. at: history, the text that it was made of: <<i, 0>>   *)
(* is raw line i up to its first separator, <<i, t>> is rests[t] in raw line i.   *)
DiffLine == [kind : LineKinds, new : Nat, old : Nat, pos : Nat, at : Nat \X Nat]

Hunk == [new_start : Nat, new_count : Nat]

Parsed == [pos : Nat, old : Nat, new : Nat, lines : Seq(DiffLine), hunks : Seq(Hunk)]

PTypeOK ==
  /\ patch \in Seq(Raw)
  /\ rests \in Seq(Rest)
  /\ file \in [old : Nat \ {0}, new : Nat \ {0}, ended : {"no", "old", "both"}, torn : BOOLEAN]
  /\ parsed \in [Parsers -> Parsed]

PInit ==
  /\ patch = <<>>
  /\ rests = <<>>
  /\ file = [old |-> 1, new |-> 1, ended |-> "no", torn |-> FALSE]
  /\ parsed = [p \in Parsers |-> [pos |-> 0, old |-> 0, new |-> 0, lines |-> <<>>, hunks |-> <<>>]]

-----------------------------------------------------------------------------
(* The parsers.                                                              *)

(* Mutation: the lines before a header are counted on.                        *)
CountedOn(s, r) ==
  [s EXCEPT !.pos = @ + 1, !.old = IF s.pos = 0 THEN r.old ELSE @,
            !.new = IF s.pos = 0 THEN r.new ELSE @,
            !.hunks = Append(@, [new_start |-> r.new, new_count |-> 0])]

(* A header takes a position of its own. "gitlab" leaves the count at 0; the     *)
(* other's is the one of the header, which is the one of the lines that follow.  *)
ParseHeader(s, r) ==
  [ pos   |-> s.pos + 1,
    old   |-> r.old,
    new   |-> r.new,
    lines |-> s.lines,
    hunks |-> Append(s.hunks, [new_start |-> r.new, new_count |-> 0]) ]

(* unidiff gives no number to the marker of a missing newline, which is then a    *)
(* context line without one; _parse_gitlab_diff takes it for a context line.    *)
Numbered(p, r) == r.kind # "eof" \/ p = "gitlab"

ParseLine(p, s, r, at) ==
  LET kind  == IF r.kind = "eof" THEN "ctx" ELSE r.kind
      onOld == Numbered(p, r) /\ kind # "add"
      onNew == Numbered(p, r) /\ kind # "del"
  IN  [ pos   |-> s.pos + 1,
        old   |-> IF onOld THEN s.old + 1 ELSE s.old,
        new   |-> IF onNew THEN s.new + 1 ELSE s.new,
        lines |-> Append(s.lines, [ kind |-> kind, pos |-> s.pos + 1, at |-> at,
                                    old |-> IF onOld THEN s.old ELSE 0,
                                    new |-> IF onNew THEN s.new ELSE 0 ]),
        hunks |-> IF p = "unified" /\ onNew
                  THEN [s.hunks EXCEPT ![Len(s.hunks)].new_count = @ + 1]
                  ELSE s.hunks ]

Parse(p, r, at) ==
  IF r.kind = "hunk" THEN ParseHeader(parsed[p], r) ELSE ParseLine(p, parsed[p], r, at)

(* A raw line, up to its first separator.                                    *)
Read(r) ==
  /\ Len(patch) + Len(rests) < MaxPatch
  /\ patch' = Append(patch, r)
  /\ parsed' = [p \in Parsers |-> Parse(p, r, <<Len(patch) + 1, 0>>)]
  /\ UNCHANGED rests

(* A separator in the last raw line, and the text after it: more of the same line    *)
(* to "unified", a line of its own to "gitlab", which takes it for what it looks     *)
(* like. (One that starts with "@@" and is no header makes the parser raise: the     *)
(* file never gets to the filter.) The marker of a missing newline is no text of     *)
(* the file.                                                                 *)
Tear(looks, n) ==
  /\ patch # <<>> /\ patch[Len(patch)].kind # "eof"
  /\ Len(rests) < MaxRests /\ Len(patch) + Len(rests) < MaxPatch
  /\ rests' = Append(rests, [at |-> Len(patch), looks |-> looks])
  /\ parsed' = [parsed EXCEPT !["gitlab"] =
                   Parse("gitlab", [kind |-> looks, old |-> n, new |-> n, torn |-> TRUE],
                         <<Len(patch), Len(rests) + 1>>)]
  /\ file' = [file EXCEPT !.torn = TRUE]
  /\ UNCHANGED patch

-----------------------------------------------------------------------------
(* The patch, as the hosts produce it.                                        *)

LastKind == IF patch = <<>> THEN "none" ELSE patch[Len(patch)].kind

Header(gap) ==
  /\ LastKind # "hunk"
  /\ file.ended = "no"
  /\ patch # <<>> => gap > 0
  /\ Read([kind |-> "hunk", old |-> file.old + gap, new |-> file.new + gap, torn |-> FALSE])
  /\ file' = [old |-> file.old + gap, new |-> file.new + gap, ended |-> "no", torn |-> FALSE]

Line(kind) ==
  /\ patch # <<>>
  /\ file.ended = "no" \/ (file.ended = "old" /\ kind = "add")
  /\ Read([kind |-> kind, old |-> file.old, new |-> file.new, torn |-> file.torn])
  /\ file' = [ old   |-> IF kind = "add" THEN file.old ELSE file.old + 1,
                new   |-> IF kind = "del" THEN file.new ELSE file.new + 1,
                ended |-> file.ended,
                torn  |-> file.torn ]

(* The last line of a side has no newline. Removed lines precede added ones, so   *)
(* that after an added line nothing can follow.                              *)
NoNewline ==
  /\ LastKind \in {"add", "del", "ctx"}
  /\ file.ended # "both"
  /\ Read([kind |-> "eof", old |-> file.old, new |-> file.new, torn |-> file.torn])
  /\ file' = [ old   |-> file.old,
                new   |-> file.new,
                ended |-> IF LastKind = "del" THEN "old" ELSE "both",
                torn  |-> file.torn ]

PNext ==
  \/ \E gap \in Gaps : Header(gap)
  \/ \E kind \in LineKinds : Line(kind)
  \/ NoNewline
  \/ \E looks \in Looks, n \in Named : Tear(looks, n)

PSpec == PInit /\ [][PNext]_pVars

-----------------------------------------------------------------------------

(* FileChange.added_lines, as a set: no line occurs twice.                      *)
AddedLines(p) ==
  {parsed[p].lines[k] : k \in {j \in 1 .. Len(parsed[p].lines) : parsed[p].lines[j].kind = "add"}}

IsAdded(i) == i \in 1 .. Len(patch) /\ patch[i].kind = "add"

(* All texts of the patch.                                                   *)
Texts ==
  {<<i, 0>> : i \in 1 .. Len(patch)} \cup {<<rests[t].at, t>> : t \in 1 .. Len(rests)}

(* Those in the content of a parsed line.                                     *)
TextsOf(p, ln) == {x \in Texts : x = ln.at \/ (p = "unified" /\ x[1] = ln.at[1])}

(* The added lines that follow a marker in the middle of a hunk.               *)
AfterMarker(i) == \E j \in 1 .. i : patch[j].kind = "eof"

(* Whatever hunks, markers and separators a patch has: what "unified" calls an added  *)
(* line is one, at the position and with the number on which its comment is put;   *)
(* "gitlab" has the same of all raw lines, but of the numbers of those that follow  *)
(* a marker, which are the next (gitlab.py:259 counts the marker), and of those     *)
(* that follow a separator in the same hunk, of which nothing is claimed; nor is    *)
(* anything of the positions in a patch with a separator (gitlab.py:229), or of    *)
(* the texts that follow one.                                                *)
NumberingIsRight ==
  \A p \in Parsers : \A k \in 1 .. Len(parsed[p].lines) :
    LET ln == parsed[p].lines[k]
        i  == ln.at[1]
    IN  /\ p = "unified" => ln.at[2] = 0
        /\ (ln.kind = "add" /\ ln.at[2] = 0) =>
             /\ IsAdded(i)
             /\ (p = "unified" \/ rests = <<>>) => ln.pos = i
             /\ (p = "unified" \/ ~ patch[i].torn) =>
                  ln.new = patch[i].new + (IF p = "gitlab" /\ AfterMarker(i) THEN 1 ELSE 0)

(* "Shared by all providers so line mapping behaves identically regardless of    *)
(* VCS" (diffparse.py:4-5), "right-side line numbers" (gitlab.py:223-224): with   *)
(* every parser an added line has the number it has in the file.              *)
LineMappingIsIdentical ==
  \A p \in Parsers : \A k \in 1 .. Len(parsed[p].lines) :
    LET ln == parsed[p].lines[k]
    IN  (ln.kind = "add" /\ ln.at[2] = 0) => ln.new = patch[ln.at[1]].new

=============================================================================
