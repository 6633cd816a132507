-------------------------- MODULE ChangedLinesProofs --------------------------
(***************************************************************************)
(* For patches of any length with any hunks, markers and separators, and files of  *)
(* any size.  Both parsers number the added lines as NumberingIsRight says.     *)
(* The context holds every changed line once.  The deterministic stage           *)
(* implements SafetyNet: whatever the patch, the host, the filter's verdict and   *)
(* the tools' outcomes, no text that the parser shows as added is missed by a    *)
(* stage that ends, all texts of added lines are shown but with GitLab in a      *)
(* patch with separators, and nothing is reported elsewhere than on shown texts  *)
(* and dependencies; and what a tool misses on an added line has one of the      *)
(* reasons of LossIsExplained.                                               *)
(***************************************************************************)
EXTENDS ChangedLines, FiniteSetTheorems, WellFoundedInduction, TLAPS

-----------------------------------------------------------------------------
(* The parsers.                                                              *)

Shift(p) == IF p = "gitlab" /\ file.ended = "old" THEN 1 ELSE 0

HasMarker == \E j \in 1 .. Len(patch) : patch[j].kind = "eof"

(* Right for the line ln of parser p.                                         *)
LineIsRight(p, ln) ==
  /\ p = "unified" => ln.at[2] = 0
  /\ (ln.kind = "add" /\ ln.at[2] = 0) =>
       /\ IsAdded(ln.at[1])
       /\ (p = "unified" \/ rests = <<>>) => ln.pos = ln.at[1]
       /\ (p = "unified" \/ ~ patch[ln.at[1]].torn) =>
            ln.new = patch[ln.at[1]].new + (IF p = "gitlab" /\ AfterMarker(ln.at[1]) THEN 1 ELSE 0)

(* The counters of the parsers follow the true ones, those of "gitlab" as long as    *)
(* the hunk has no separator: that is what lets the next line be numbered right.  *)
Counting ==
  /\ file.ended = "no" <=> ~ HasMarker
  /\ file.ended = "old" => LastKind \in {"eof", "add"}
  /\ file.torn => rests # <<>>
  /\ \A i \in 1 .. Len(patch) : patch[i].torn => rests # <<>>
  /\ \A p \in Parsers :
       /\ (p = "unified" \/ rests = <<>>) => parsed[p].pos = Len(patch)
       /\ (patch # <<>> /\ file.ended # "both" /\ (p = "unified" \/ ~ file.torn)) =>
            parsed[p].new = file.new + Shift(p)

PInv == PTypeOK /\ Counting /\ NumberingIsRight

-----------------------------------------------------------------------------

(* A hunk header leaves the state of a parser well typed.                  *)
LEMMA HeaderTyped ==
  ASSUME NEW s \in Parsed, NEW r \in Raw
  PROVE  ParseHeader(s, r) \in Parsed
<1> DEFINE hs == Append(s.hunks, [new_start |-> r.new, new_count |-> 0])
<1>1. hs \in Seq(Hunk) BY DEF Parsed, Raw, Hunk
<1>2. ParseHeader(s, r) =
        [pos |-> s.pos + 1, old |-> r.old, new |-> r.new, lines |-> s.lines, hunks |-> hs]
  BY DEF ParseHeader, Parsed
<1> HIDE DEF hs
<1>3. QED BY <1>1, <1>2 DEF Parsed, Raw

(* Counting a line in the last hunk leaves a sequence of hunks.              *)
LEMMA CountTyped ==
  ASSUME NEW hunks \in Seq(Hunk)
  PROVE  [hunks EXCEPT ![Len(hunks)].new_count = @ + 1] \in Seq(Hunk)
<1> DEFINE m == Len(hunks)
           x == [hunks[m] EXCEPT !.new_count = @ + 1]
           q == [i \in 1 .. m |-> IF i = m THEN x ELSE hunks[i]]
<1>1. m \in Nat /\ \A i \in 1 .. m : hunks[i] \in Hunk OBVIOUS
<1>2. m > 0 => x \in Hunk BY <1>1, SMTT(30) DEF Hunk
<1>3. [hunks EXCEPT ![m].new_count = @ + 1] = [hunks EXCEPT ![m] = x] OBVIOUS
<1> HIDE DEF x
<1>4. q \in Seq(Hunk) BY <1>1, <1>2
<1>5. [hunks EXCEPT ![m] = x] = q OBVIOUS
<1>6. QED BY <1>3, <1>4, <1>5

(* So does any other line, with either parser.                             *)
LEMMA LineTyped ==
  ASSUME NEW p \in Parsers, NEW s \in Parsed, NEW r \in Raw, r.kind # "hunk", NEW at \in Nat \X Nat
  PROVE  ParseLine(p, s, r, at) \in Parsed
<1> DEFINE kind  == IF r.kind = "eof" THEN "ctx" ELSE r.kind
           onOld == Numbered(p, r) /\ kind # "add"
           onNew == Numbered(p, r) /\ kind # "del"
           ln    == [ kind |-> kind, pos |-> s.pos + 1, at |-> at,
                      old |-> IF onOld THEN s.old ELSE 0, new |-> IF onNew THEN s.new ELSE 0 ]
           hs    == [s.hunks EXCEPT ![Len(s.hunks)].new_count = @ + 1]
<1>1. ln \in DiffLine BY DEF DiffLine, LineKinds, Parsed, Raw, RawKinds
<1>2. Append(s.lines, ln) \in Seq(DiffLine) BY <1>1 DEF Parsed
<1>3. hs \in Seq(Hunk) BY CountTyped DEF Parsed
<1>4. ParseLine(p, s, r, at) = [ pos |-> s.pos + 1,
                             old |-> IF onOld THEN s.old + 1 ELSE s.old,
                             new |-> IF onNew THEN s.new + 1 ELSE s.new,
                             lines |-> Append(s.lines, ln),
                             hunks |-> IF p = "unified" /\ onNew THEN hs ELSE s.hunks ]
  BY DEF ParseLine
<1> HIDE DEF ln, hs, onOld, onNew, kind
<1>5. /\ s.pos + 1 \in Nat
      /\ (IF onOld THEN s.old + 1 ELSE s.old) \in Nat
      /\ (IF onNew THEN s.new + 1 ELSE s.new) \in Nat
  BY DEF Parsed
<1>6. (IF p = "unified" /\ onNew THEN hs ELSE s.hunks) \in Seq(Hunk) BY <1>3 DEF Parsed
<1>7. QED BY <1>2, <1>4, <1>5, <1>6 DEF Parsed

(* Whatever is read, the types hold, a line that was right stays right, and the    *)
(* lines of a parser grow by at most the one that was read.                    *)
LEMMA ReadKeeps ==
  ASSUME PInv, NEW r \in Raw, Read(r)
  PROVE  /\ patch' \in Seq(Raw)
         /\ parsed' \in [Parsers -> Parsed]
         /\ Len(patch') = Len(patch) + 1
         /\ patch'[Len(patch) + 1] = r
         /\ \A i \in 1 .. Len(patch) : patch'[i] = patch[i]
         /\ rests' = rests
         /\ \A p \in Parsers : parsed'[p].pos = parsed[p].pos + 1
         /\ \A p \in Parsers : \A k \in 1 .. Len(parsed[p].lines) :
              /\ LineIsRight(p, parsed[p].lines[k])'
              /\ parsed'[p].lines[k] = parsed[p].lines[k]
<1>1. /\ patch' \in Seq(Raw)
      /\ Len(patch') = Len(patch) + 1
      /\ patch'[Len(patch) + 1] = r
      /\ \A i \in 1 .. Len(patch) : patch'[i] = patch[i]
      /\ rests' = rests
      /\ <<Len(patch) + 1, 0>> \in Nat \X Nat
  BY DEF PInv, PTypeOK, Read
<1>2. parsed' \in [Parsers -> Parsed]
  BY <1>1, HeaderTyped, LineTyped DEF PInv, PTypeOK, Read, Parse
<1>3. \A p \in Parsers : parsed'[p].pos = parsed[p].pos + 1
  BY DEF Read, Parse, ParseHeader, ParseLine
<1>4. ASSUME NEW p \in Parsers, NEW k \in 1 .. Len(parsed[p].lines)
      PROVE  parsed'[p].lines[k] = parsed[p].lines[k]
  <2>1. parsed[p] \in Parsed BY DEF PInv, PTypeOK
  <2>2. CASE r.kind = "hunk"
    BY <2>1, <2>2 DEF Read, Parse, ParseHeader, Parsed, PInv, PTypeOK
  <2>3. CASE r.kind # "hunk"
    <3>1. \E ln : parsed'[p].lines = Append(parsed[p].lines, ln)
      BY <2>3 DEF Read, Parse, ParseLine
    <3>2. QED BY <2>1, <3>1 DEF Parsed
  <2>4. QED BY <2>2, <2>3
<1>5. ASSUME NEW q \in 1 .. Len(patch) PROVE AfterMarker(q)' = AfterMarker(q)
  <2>1. \A j \in 1 .. q : j \in 1 .. Len(patch) OBVIOUS
  <2>2. \A j \in 1 .. q : patch'[j] = patch[j] BY <1>1, <2>1
  <2>3. QED BY <2>2 DEF AfterMarker
<1>6. ASSUME NEW p \in Parsers, NEW k \in 1 .. Len(parsed[p].lines)
      PROVE  LineIsRight(p, parsed[p].lines[k])'
  <2> DEFINE ln == parsed[p].lines[k]
  <2>1. LineIsRight(p, ln)
    BY DEF PInv, NumberingIsRight, LineIsRight
  <2>2. parsed'[p].lines[k] = ln BY <1>4
  <2>3. ASSUME ln.kind = "add", ln.at[2] = 0
        PROVE  LineIsRight(p, parsed[p].lines[k])'
    <3>1. PICK i \in 1 .. Len(patch) : i = ln.at[1] BY <2>1, <2>3 DEF LineIsRight, IsAdded
    <3>2. /\ patch[i].kind = "add"
          /\ p = "unified" => ln.at[2] = 0
          /\ (p = "unified" \/ rests = <<>>) => ln.pos = i
          /\ (p = "unified" \/ ~ patch[i].torn) =>
               ln.new = patch[i].new + (IF p = "gitlab" /\ AfterMarker(i) THEN 1 ELSE 0)
      BY <2>1, <2>3, <3>1 DEF LineIsRight, IsAdded
    <3>3. /\ i \in 1 .. Len(patch')
          /\ patch'[i] = patch[i]
          /\ AfterMarker(i)' = AfterMarker(i)
      BY <1>1, <1>5 DEF PInv, PTypeOK
    <3>4. QED BY <1>1, <2>2, <3>1, <3>2, <3>3 DEF LineIsRight, IsAdded
  <2>4. QED BY <2>1, <2>2, <2>3 DEF LineIsRight
<1>7. QED BY <1>1, <1>2, <1>3, <1>4, <1>6

(* The patch has a marker once one was read.                               *)
LEMMA MarkerRead ==
  ASSUME PInv, NEW r \in Raw, Read(r)
  PROVE  HasMarker' <=> (HasMarker \/ r.kind = "eof")
<1>1. Len(patch) \in Nat BY DEF PInv, PTypeOK
<1>2. ASSUME HasMarker PROVE HasMarker'
  BY <1>1, <1>2, ReadKeeps DEF HasMarker
<1>3. ASSUME r.kind = "eof" PROVE HasMarker'
  BY <1>1, <1>3, ReadKeeps DEF HasMarker
<1>4. ASSUME HasMarker', r.kind # "eof" PROVE HasMarker
  <2>1. PICK j \in 1 .. Len(patch') : patch'[j].kind = "eof" BY <1>4 DEF HasMarker
  <2>2. j # Len(patch) + 1 BY <1>4, <2>1, ReadKeeps
  <2>3. j \in 1 .. Len(patch) BY <1>1, <2>1, <2>2, ReadKeeps
  <2>4. QED BY <2>1, <2>3, ReadKeeps DEF HasMarker
<1>5. QED BY <1>2, <1>3, <1>4

(* The line that was read last is the only one to be looked at.                *)
LEMMA LastLineDecides ==
  ASSUME PInv, NEW r \in Raw, Read(r),
         \A p \in Parsers :
           r.kind # "hunk" => LineIsRight(p, parsed[p].lines[Len(parsed[p].lines)])'
  PROVE  NumberingIsRight'
<1> SUFFICES ASSUME NEW p \in Parsers, NEW k \in 1 .. Len(parsed'[p].lines)
             PROVE  LineIsRight(p, parsed[p].lines[k])'
  BY DEF NumberingIsRight, LineIsRight
<1>1. parsed[p] \in Parsed /\ parsed[p].lines \in Seq(DiffLine) BY DEF PInv, PTypeOK, Parsed
<1>2. CASE k \in 1 .. Len(parsed[p].lines)
  BY <1>2, ReadKeeps
<1>3. CASE k \notin 1 .. Len(parsed[p].lines)
  <2>1. r.kind # "hunk"
    BY <1>1, <1>3 DEF Read, Parse, ParseHeader, PInv, PTypeOK
  <2>2. \E ln : parsed'[p].lines = Append(parsed[p].lines, ln)
    BY <2>1 DEF Read, Parse, ParseLine
  <2>3. k = Len(parsed'[p].lines)
    BY <1>1, <1>3, <2>2
  <2>4. QED BY <2>1, <2>3
<1>4. QED BY <1>2, <1>3

(* The positions are counted, and what was torn stays known.                *)
LEMMA PlacesRead ==
  ASSUME PInv, NEW r \in Raw, Read(r), r.torn => file.torn
  PROVE  /\ \A i \in 1 .. Len(patch') : patch'[i].torn => rests' # <<>>
         /\ file.torn => rests' # <<>>
         /\ \A p \in Parsers : (p = "unified" \/ rests' = <<>>) => parsed'[p].pos = Len(patch')
<1>1. Len(patch) \in Nat /\ \A p \in Parsers : parsed[p].pos \in Nat
  BY DEF PInv, PTypeOK, Parsed
<1>2. ASSUME NEW i \in 1 .. Len(patch'), patch'[i].torn PROVE rests' # <<>>
  <2>1. i \in 1 .. Len(patch) \/ i = Len(patch) + 1 BY <1>1, ReadKeeps
  <2>2. QED BY <1>2, <2>1, ReadKeeps DEF PInv, Counting
<1>3. QED BY <1>1, <1>2, ReadKeeps DEF PInv, Counting

(* Every line but an added one is right by its place.                       *)
LEMMA OtherIsRight ==
  ASSUME PInv, NEW r \in Raw, Read(r), r.kind \notin {"hunk", "add"}, NEW p \in Parsers
  PROVE  LineIsRight(p, parsed[p].lines[Len(parsed[p].lines)])'
<1>1. parsed[p] \in Parsed /\ parsed[p].lines \in Seq(DiffLine) BY DEF PInv, PTypeOK, Parsed
<1>2. PICK ln : /\ parsed'[p].lines = Append(parsed[p].lines, ln)
                /\ ln.kind # "add" /\ ln.at = <<Len(patch) + 1, 0>>
  BY DEF Read, Parse, ParseLine
<1>3. parsed'[p].lines[Len(parsed'[p].lines)] = ln BY <1>1, <1>2
<1>4. QED BY <1>2, <1>3 DEF LineIsRight

(* A hunk header sets the counters of both parsers to the true ones.       *)
LEMMA HeaderKeeps ==
  ASSUME PInv, NEW gap \in Gaps, Header(gap)
  PROVE  PInv'
<1> DEFINE r == [kind |-> "hunk", old |-> file.old + gap, new |-> file.new + gap, torn |-> FALSE]
<1>1. r \in Raw /\ Read(r) /\ r.kind = "hunk" /\ gap \in Nat
  BY ParserAssumption DEF Header, Raw, RawKinds, PInv, PTypeOK
<1> HIDE DEF r
<1>2. NumberingIsRight' BY <1>1, LastLineDecides
<1>3. PTypeOK'
  <2>1. file' \in [old : Nat \ {0}, new : Nat \ {0}, ended : {"no", "old", "both"}, torn : BOOLEAN]
    BY <1>1 DEF PInv, PTypeOK, Header
  <2>2. QED BY <1>1, <2>1, ReadKeeps DEF PInv, PTypeOK
<1>4. HasMarker' <=> HasMarker
  BY <1>1, MarkerRead
<1>5. file.ended = "no" /\ file'.ended = "no" /\ file'.new = r.new /\ ~ file'.torn /\ ~ r.torn
  BY DEF Header, r, PInv, PTypeOK
<1>6. ASSUME NEW p \in Parsers PROVE parsed'[p].new = file'.new + Shift(p)'
  <2>1. parsed'[p].new = r.new BY <1>1 DEF Read, Parse, ParseHeader
  <2>2. QED BY <1>1, <1>5, <2>1 DEF Shift, Raw
<1>7. Counting'
  <2>1. file'.ended = "no" <=> ~ HasMarker' BY <1>4, <1>5 DEF PInv, Counting
  <2>2. QED BY <1>1, <1>5, <1>6, <2>1, PlacesRead DEF Counting
<1>8. QED BY <1>2, <1>3, <1>7 DEF PInv

(* A line of a hunk moves the true counters and those of the parsers alike.*)
LEMMA LineKeeps ==
  ASSUME PInv, NEW kind \in LineKinds, Line(kind)
  PROVE  PInv'
<1> DEFINE r == [kind |-> kind, old |-> file.old, new |-> file.new, torn |-> file.torn]
<1>1. r \in Raw /\ Read(r) /\ r.kind = kind /\ r.new = file.new /\ r.torn = file.torn /\ kind # "hunk"
  BY DEF Line, LineKinds, Raw, RawKinds, PInv, PTypeOK
<1> HIDE DEF r
<1>2. PTypeOK'
  <2>1. file' \in [old : Nat \ {0}, new : Nat \ {0}, ended : {"no", "old", "both"}, torn : BOOLEAN]
    BY DEF PInv, PTypeOK, Line
  <2>2. QED BY <1>1, <2>1, ReadKeeps DEF PInv, PTypeOK
<1>3. /\ HasMarker' <=> HasMarker
      /\ file'.ended = file.ended /\ file'.torn = file.torn
      /\ file.ended # "both" /\ patch # <<>>
  BY <1>1, MarkerRead DEF PInv, PTypeOK, Line, LineKinds
<1>4. ASSUME NEW p \in Parsers
      PROVE  /\ parsed'[p].new = IF kind = "del" THEN parsed[p].new ELSE parsed[p].new + 1
             /\ (p = "unified" \/ ~ file.torn) => parsed[p].new = file.new + Shift(p)
             /\ Shift(p)' = Shift(p)
  BY <1>1, <1>3 DEF Read, Parse, ParseLine, Numbered, LineKinds, PInv, PTypeOK, Parsed, Counting, Shift
<1>5. ASSUME NEW p \in Parsers
      PROVE  patch' # <<>> /\ ((p = "unified" \/ ~ file.torn) => parsed'[p].new = file'.new + Shift(p)')
  <2>1. patch' # <<>> BY <1>1, ReadKeeps DEF PInv, PTypeOK
  <2>2. file'.new = IF kind = "del" THEN file.new ELSE file.new + 1 BY DEF Line
  <2>3. parsed[p].new \in Nat /\ file.new \in Nat /\ Shift(p) \in Nat
    BY DEF PInv, PTypeOK, Parsed, Shift
  <2>4. QED BY <1>4, <2>1, <2>2, <2>3
<1>6. Counting'
  <2>1. file'.ended = "old" => LastKind' = "add"
    BY <1>1, <1>3, <1>5, ReadKeeps DEF LastKind, Line
  <2>2. QED BY <1>1, <1>3, <1>5, <2>1, PlacesRead DEF Counting, PInv
<1>7. ASSUME NEW p \in Parsers, kind = "add"
      PROVE  LineIsRight(p, parsed[p].lines[Len(parsed[p].lines)])'
  <2>1. /\ parsed[p] \in Parsed /\ parsed[p].lines \in Seq(DiffLine) /\ Len(patch) \in Nat
        /\ (p = "unified" \/ rests = <<>>) => parsed[p].pos = Len(patch)
    BY DEF PInv, PTypeOK, Parsed, Counting
  <2> DEFINE ln == [ kind |-> "add", pos |-> parsed[p].pos + 1, at |-> <<Len(patch) + 1, 0>>,
                     old |-> 0, new |-> parsed[p].new ]
  <2>2. parsed'[p].lines = Append(parsed[p].lines, ln)
    BY <1>1, <1>7, <2>1 DEF Read, Parse, ParseLine, Numbered
  <2>3. parsed'[p].lines[Len(parsed'[p].lines)] = ln
    <3> HIDE DEF ln
    <3>1. QED BY <2>1, <2>2
  <2>4. /\ ln.at[1] = Len(patch') /\ ln.at[2] = 0
        /\ (p = "unified" \/ rests' = <<>>) => ln.pos = Len(patch')
        /\ (p = "unified" \/ ~ file.torn) => ln.new = file.new + Shift(p)
    BY <1>1, <1>4, <2>1, ReadKeeps
  <2> HIDE DEF ln
  <2>5. /\ Len(patch') \in 1 .. Len(patch') /\ patch'[Len(patch')] = r
    BY <1>1, ReadKeeps DEF PInv, PTypeOK
  <2>6. AfterMarker(Len(patch))' <=> file.ended = "old"
    <3>1. HasMarker' <=> file.ended = "old" BY <1>3 DEF PInv, PTypeOK, Counting
    <3>2. QED BY <3>1 DEF AfterMarker, HasMarker
  <2>7. QED BY <1>1, <1>7, <2>3, <2>4, <2>5, <2>6 DEF LineIsRight, Shift, IsAdded
<1>8. NumberingIsRight' BY <1>1, <1>7, OtherIsRight, LastLineDecides DEF LineKinds
<1>9. QED BY <1>2, <1>6, <1>8 DEF PInv

(* A marker moves one counter of the GitLab parser, and no other.          *)
LEMMA MarkerKeeps ==
  ASSUME PInv, NoNewline
  PROVE  PInv'
<1> DEFINE r == [kind |-> "eof", old |-> file.old, new |-> file.new, torn |-> file.torn]
<1>1. r \in Raw /\ Read(r) /\ r.kind = "eof" /\ r.torn = file.torn
  BY DEF NoNewline, Raw, RawKinds, PInv, PTypeOK
<1> HIDE DEF r
<1>2. PTypeOK'
  <2>1. file' \in [old : Nat \ {0}, new : Nat \ {0}, ended : {"no", "old", "both"}, torn : BOOLEAN]
    BY DEF PInv, PTypeOK, NoNewline
  <2>2. QED BY <1>1, <2>1, ReadKeeps DEF PInv, PTypeOK
<1>3. NumberingIsRight' BY <1>1, OtherIsRight, LastLineDecides
<1>4. file'.ended # "no" /\ HasMarker' /\ file'.torn = file.torn BY <1>1, MarkerRead DEF NoNewline
(* Only a marker after a removed line leaves lines to come: none came before.    *)
<1>5. ASSUME NEW p \in Parsers, file'.ended # "both", p = "unified" \/ ~ file.torn
      PROVE  parsed'[p].new = file'.new + Shift(p)'
  <2>1. file.ended = "no" /\ file'.ended = "old" /\ file'.new = file.new /\ patch # <<>>
    <3>1. LastKind = "del" /\ file'.ended = "old" /\ file'.new = file.new
      BY <1>5 DEF NoNewline
    <3>2. file.ended \in {"no", "old"} BY DEF NoNewline, PInv, PTypeOK
    <3>3. QED BY <3>1, <3>2 DEF PInv, Counting, LastKind
  <2>2. parsed[p].new = file.new /\ parsed[p] \in Parsed
    BY <1>5, <2>1 DEF PInv, PTypeOK, Counting, Shift
  <2>3. parsed'[p].new = IF p = "gitlab" THEN parsed[p].new + 1 ELSE parsed[p].new
    BY <1>1 DEF Read, Parse, ParseLine, Numbered
  <2>4. QED BY <2>1, <2>2, <2>3 DEF Shift, PInv, PTypeOK, Parsed
<1>6. Counting'
  <2>1. patch' # <<>> /\ LastKind' = "eof" BY <1>1, ReadKeeps DEF LastKind
  <2>2. QED BY <1>1, <1>4, <1>5, <2>1, PlacesRead DEF Counting
<1>7. QED BY <1>2, <1>3, <1>6 DEF PInv

(* A separator is nothing to the unified parser, and gives the other one at most a    *)
(* line, which it puts after those it has.                                    *)
LEMMA TearReads ==
  ASSUME PInv, NEW looks \in Looks, NEW n \in Named, Tear(looks, n)
  PROVE  /\ UNCHANGED patch /\ Len(rests') = Len(rests) + 1
         /\ rests' \in Seq(Rest) /\ parsed' \in [Parsers -> Parsed]
         /\ \A t \in 1 .. Len(rests) : rests'[t] = rests[t]
         /\ rests'[Len(rests) + 1] = [at |-> Len(patch), looks |-> looks]
         /\ Len(patch) \in 1 .. Len(patch)
         /\ parsed'["unified"] = parsed["unified"]
         /\ \A p \in Parsers : \A k \in 1 .. Len(parsed[p].lines) : parsed'[p].lines[k] = parsed[p].lines[k]
         /\ \A p \in Parsers : \A k \in 1 .. Len(parsed'[p].lines) :
              \/ k \in 1 .. Len(parsed[p].lines)
              \/ /\ p = "gitlab" /\ looks # "hunk"
                 /\ parsed'[p].lines[k].kind = looks
                 /\ parsed'[p].lines[k].at = <<Len(patch), Len(rests) + 1>>
         /\ looks # "hunk" => Len(parsed'["gitlab"].lines) = Len(parsed["gitlab"].lines) + 1
         /\ looks = "hunk" => Len(parsed'["gitlab"].lines) = Len(parsed["gitlab"].lines)
<1> DEFINE r  == [kind |-> looks, old |-> n, new |-> n, torn |-> TRUE]
           at == <<Len(patch), Len(rests) + 1>>
           s  == parsed["gitlab"]
<1>1. /\ s \in Parsed /\ s.lines \in Seq(DiffLine) /\ r \in Raw /\ at \in Nat \X Nat
      /\ looks \in {"hunk"} \cup LineKinds
  <2>1. looks \in {"hunk"} \cup LineKinds /\ n \in Nat
    BY ParserAssumption DEF LineKinds
  <2>2. r \in Raw BY <2>1 DEF Raw, RawKinds, LineKinds
  <2>3. s \in Parsed BY DEF PInv, PTypeOK, Parsers
  <2>4. s.lines \in Seq(DiffLine) BY <2>3 DEF Parsed
  <2>5. at \in Nat \X Nat BY DEF PInv, PTypeOK
  <2>6. QED BY <2>1, <2>2, <2>3, <2>4, <2>5
<1>2. parsed' = [parsed EXCEPT !["gitlab"] = IF looks = "hunk" THEN ParseHeader(s, r)
                                             ELSE ParseLine("gitlab", s, r, at)]
  BY DEF Tear, Parse
<1>3. /\ UNCHANGED patch /\ rests' = Append(rests, [at |-> Len(patch), looks |-> looks])
      /\ Len(patch) \in 1 .. Len(patch)
  BY DEF Tear, PInv, PTypeOK
<1>4. [at |-> Len(patch), looks |-> looks] \in Rest BY <1>1 DEF Rest
<1>5. /\ rests' \in Seq(Rest) /\ Len(rests') = Len(rests) + 1
      /\ \A t \in 1 .. Len(rests) : rests'[t] = rests[t]
      /\ rests'[Len(rests) + 1] = [at |-> Len(patch), looks |-> looks]
  BY <1>3, <1>4 DEF PInv, PTypeOK
<1>6. /\ ParseHeader(s, r) \in Parsed /\ ParseHeader(s, r).lines = s.lines
  BY <1>1, HeaderTyped DEF ParseHeader
<1>7. looks # "hunk" =>
        /\ ParseLine("gitlab", s, r, at) \in Parsed
        /\ \E ln : /\ ParseLine("gitlab", s, r, at).lines = Append(s.lines, ln)
                   /\ ln.kind = looks /\ ln.at = at
  <2>1. ASSUME looks # "hunk" PROVE ParseLine("gitlab", s, r, at) \in Parsed
    <3> HIDE DEF r, at, s
    <3>1. r.kind # "hunk" BY <2>1 DEF r
    <3>2. QED BY <1>1, <3>1, LineTyped DEF Parsers
  <2>2. ASSUME looks # "hunk"
        PROVE \E ln : /\ ParseLine("gitlab", s, r, at).lines = Append(s.lines, ln)
                       /\ ln.kind = looks /\ ln.at = at
    <3> DEFINE ln == [ kind |-> looks, pos |-> s.pos + 1, at |-> at,
                       old |-> IF looks # "add" THEN s.old ELSE 0,
                       new |-> IF looks # "del" THEN s.new ELSE 0 ]
    <3>1. looks # "eof" BY <1>1 DEF LineKinds
    <3>2. ParseLine("gitlab", s, r, at).lines = Append(s.lines, ln)
      BY <2>2, <3>1 DEF ParseLine, Numbered
    <3>3. ln.kind = looks /\ ln.at = at OBVIOUS
    <3> HIDE DEF ln
    <3>4. QED BY <3>2, <3>3
  <2>3. QED BY <2>1, <2>2
<1> HIDE DEF r, at, s
<1>8. /\ parsed' \in [Parsers -> Parsed] /\ parsed'["unified"] = parsed["unified"]
      /\ looks = "hunk" => parsed'["gitlab"].lines = s.lines
      /\ looks # "hunk" => \E ln : /\ parsed'["gitlab"].lines = Append(s.lines, ln)
                                   /\ ln.kind = looks /\ ln.at = at
  BY <1>2, <1>6, <1>7 DEF PInv, PTypeOK, Parsers
<1>9. /\ \A k \in 1 .. Len(s.lines) : parsed'["gitlab"].lines[k] = s.lines[k]
      /\ looks = "hunk" => Len(parsed'["gitlab"].lines) = Len(s.lines)
      /\ looks # "hunk" => /\ Len(parsed'["gitlab"].lines) = Len(s.lines) + 1
                           /\ parsed'["gitlab"].lines[Len(s.lines) + 1].kind = looks
                           /\ parsed'["gitlab"].lines[Len(s.lines) + 1].at = at
  <2>1. CASE looks = "hunk" BY <1>8, <2>1
  <2>2. CASE looks # "hunk"
    <3>1. PICK ln : /\ parsed'["gitlab"].lines = Append(s.lines, ln)
                    /\ ln.kind = looks /\ ln.at = at
      BY <1>8, <2>2
    <3>2. QED BY <1>1, <2>2, <3>1
  <2>3. QED BY <2>1, <2>2
<1>10. Len(s.lines) \in Nat BY <1>1
<1>11. ASSUME NEW p \in Parsers, NEW k \in 1 .. Len(parsed'[p].lines), k \notin 1 .. Len(parsed[p].lines)
       PROVE  /\ p = "gitlab" /\ looks # "hunk"
              /\ parsed'[p].lines[k].kind = looks
              /\ parsed'[p].lines[k].at = <<Len(patch), Len(rests) + 1>>
  <2>1. p = "gitlab" BY <1>8, <1>11 DEF Parsers
  <2>2. parsed[p].lines = s.lines BY <2>1 DEF s
  <2>3. looks # "hunk" /\ k = Len(s.lines) + 1 BY <1>9, <1>10, <1>11, <2>1, <2>2
  <2>4. QED BY <1>9, <2>1, <2>3 DEF at
<1>12. \A p \in Parsers : \A k \in 1 .. Len(parsed[p].lines) : parsed'[p].lines[k] = parsed[p].lines[k]
  BY <1>8, <1>9 DEF Parsers, s
<1>13. QED BY <1>3, <1>5, <1>8, <1>9, <1>11, <1>12 DEF s

LEMMA TearLengths ==
  ASSUME PInv, NEW looks \in Looks, NEW n \in Named, Tear(looks, n), NEW p \in Parsers
  PROVE  /\ Len(parsed[p].lines) \in Nat
         /\ Len(parsed'[p].lines) \in {Len(parsed[p].lines), Len(parsed[p].lines) + 1}
<1>1. Len(parsed[p].lines) \in Nat BY DEF PInv, PTypeOK, Parsed
<1>2. CASE p = "unified" BY <1>1, <1>2, TearReads
<1>3. CASE p = "gitlab" BY <1>1, <1>3, TearReads
<1>4. QED BY <1>2, <1>3 DEF Parsers

(* So the first texts of the lines are as right as they were.                  *)
LEMMA TearKeeps ==
  ASSUME PInv, NEW looks \in Looks, NEW n \in Named, Tear(looks, n)
  PROVE  PInv'
<1>1. file' = [file EXCEPT !.torn = TRUE] /\ UNCHANGED patch /\ Len(rests) \in Nat
  BY DEF Tear, PInv, PTypeOK
<1>2. /\ file' \in [old : Nat \ {0}, new : Nat \ {0}, ended : {"no", "old", "both"}, torn : BOOLEAN]
      /\ file'.torn /\ file'.new = file.new /\ file'.ended = file.ended
  BY <1>1 DEF PInv, PTypeOK
<1>3. /\ rests' \in Seq(Rest) /\ parsed' \in [Parsers -> Parsed] /\ Len(rests') = Len(rests) + 1
      /\ parsed'["unified"] = parsed["unified"]
      /\ \A p \in Parsers : \A k \in 1 .. Len(parsed[p].lines) : parsed'[p].lines[k] = parsed[p].lines[k]
      /\ \A p \in Parsers : \A k \in 1 .. Len(parsed'[p].lines) :
           \/ k \in 1 .. Len(parsed[p].lines)
           \/ p = "gitlab" /\ parsed'[p].lines[k].at = <<Len(patch), Len(rests) + 1>>
  BY TearReads
<1>4. PTypeOK' BY <1>1, <1>2, <1>3 DEF PInv, PTypeOK
<1>5. rests' # <<>> BY <1>1, <1>3
<1>6. HasMarker' = HasMarker /\ LastKind' = LastKind /\ Shift("unified")' = Shift("unified")
  BY <1>1, <1>2 DEF HasMarker, LastKind, Shift
<1>7. Counting'
  <2>1. ASSUME NEW p \in Parsers
        PROVE  /\ (p = "unified" \/ rests' = <<>>) => parsed'[p].pos = Len(patch')
               /\ (patch' # <<>> /\ file'.ended # "both" /\ (p = "unified" \/ ~ file'.torn)) =>
                    parsed'[p].new = file'.new + Shift(p)'
    <3>1. CASE p = "unified" BY <1>1, <1>2, <1>3, <1>6, <3>1 DEF PInv, Counting
    <3>2. CASE p # "unified" BY <1>2, <1>5, <3>2
    <3>3. QED BY <3>1, <3>2
  <2>2. QED BY <1>1, <1>2, <1>5, <1>6, <2>1 DEF PInv, Counting
<1>8. NumberingIsRight'
  <2> SUFFICES ASSUME NEW p \in Parsers, NEW k \in 1 .. Len(parsed'[p].lines)
               PROVE  LineIsRight(p, parsed[p].lines[k])'
    BY DEF NumberingIsRight, LineIsRight
  <2>1. CASE k \in 1 .. Len(parsed[p].lines)
    <3>1. LineIsRight(p, parsed[p].lines[k]) /\ parsed'[p].lines[k] = parsed[p].lines[k]
      BY <1>3, <2>1 DEF PInv, NumberingIsRight, LineIsRight
    <3>2. QED BY <1>1, <1>5, <3>1 DEF LineIsRight, IsAdded, AfterMarker
  <2>2. CASE k \notin 1 .. Len(parsed[p].lines)
    <3>1. p = "gitlab" /\ parsed'[p].lines[k].at[2] # 0 BY <1>1, <1>3, <2>2
    <3>2. QED BY <3>1 DEF LineIsRight
  <2>3. QED BY <2>1, <2>2
<1>9. QED BY <1>7, <1>8, <1>4 DEF PInv

(* Every raw line keeps the invariant of the parsers.                      *)
LEMMA ParserStep ==
  ASSUME PInv, [PNext]_pVars
  PROVE  PInv'
<1>1. CASE PNext
  BY <1>1, HeaderKeeps, LineKeeps, MarkerKeeps, TearKeeps DEF PNext
<1>2. CASE UNCHANGED pVars
  BY <1>2 DEF pVars, PInv, PTypeOK, Counting, Shift, HasMarker, LastKind, NumberingIsRight, IsAdded, AfterMarker
<1>3. QED BY <1>1, <1>2

(* The raw line of a text is one that adds something, for all that a parser knows.  *)
AddsFor(p, x) ==
  \/ x[2] = 0 /\ patch[x[1]].kind = "add"
  \/ x[2] # 0 /\ p = "gitlab" /\ rests[x[2]].looks = "add"

(* No such text is passed over, and nothing else is made into a line.             *)
Complete ==
  \A p \in Parsers : \A x \in Texts : AddsFor(p, x) =>
    \E k \in 1 .. Len(parsed[p].lines) : parsed[p].lines[k].kind = "add" /\ parsed[p].lines[k].at = x

Placed ==
  \A p \in Parsers : \A k \in 1 .. Len(parsed[p].lines) :
    /\ parsed[p].lines[k].at \in Texts
    /\ parsed[p].lines[k].kind = "add" => AddsFor(p, parsed[p].lines[k].at)

RestsInPatch == \A t \in 1 .. Len(rests) : rests[t].at \in 1 .. Len(patch)

TInv == Complete /\ Placed /\ RestsInPatch

(* A raw line is a text more, the one at its end.                              *)
LEMMA TextsRead ==
  ASSUME PInv, RestsInPatch, NEW r \in Raw, Read(r)
  PROVE  /\ Texts' = Texts \cup {<<Len(patch) + 1, 0>>} /\ RestsInPatch'
         /\ \A p \in Parsers : \A x \in Texts : AddsFor(p, x)' <=> AddsFor(p, x)
         /\ \A p \in Parsers : \A x : x = <<Len(patch) + 1, 0>> => (AddsFor(p, x)' <=> r.kind = "add")
<1>1. /\ Len(patch) \in Nat /\ Len(patch') = Len(patch) + 1 /\ rests' = rests
      /\ patch'[Len(patch) + 1] = r /\ \A i \in 1 .. Len(patch) : patch'[i] = patch[i]
  BY ReadKeeps DEF PInv, PTypeOK
<1>2. 1 .. Len(patch') = 1 .. Len(patch) \cup {Len(patch) + 1} BY <1>1
<1>3. Texts' = Texts \cup {<<Len(patch) + 1, 0>>} BY <1>1, <1>2 DEF Texts
<1>4. RestsInPatch' BY <1>1, <1>2 DEF RestsInPatch
<1>5. \A x \in Texts : x[1] \in 1 .. Len(patch) BY DEF Texts, RestsInPatch
<1>6. \A p \in Parsers : \A x \in Texts : AddsFor(p, x)' <=> AddsFor(p, x)
  BY <1>1, <1>5 DEF AddsFor
<1>7. \A p \in Parsers : \A x : x = <<Len(patch) + 1, 0>> => (AddsFor(p, x)' <=> r.kind = "add")
  BY <1>1 DEF AddsFor
<1>8. QED BY <1>3, <1>4, <1>6, <1>7

(* A parser has a line more at the end, or none.                               *)
LEMMA ReadGrows ==
  ASSUME PInv, NEW r \in Raw, Read(r), NEW p \in Parsers
  PROVE  LET n == Len(parsed[p].lines)
         IN  /\ n \in Nat
             /\ \A k \in 1 .. n : parsed'[p].lines[k] = parsed[p].lines[k]
             /\ r.kind = "hunk" => Len(parsed'[p].lines) = n
             /\ r.kind # "hunk" =>
                  /\ Len(parsed'[p].lines) = n + 1
                  /\ parsed'[p].lines[n + 1].kind = (IF r.kind = "eof" THEN "ctx" ELSE r.kind)
                  /\ parsed'[p].lines[n + 1].at = <<Len(patch) + 1, 0>>
<1> DEFINE n == Len(parsed[p].lines)
           at == <<Len(patch) + 1, 0>>
           kind == IF r.kind = "eof" THEN "ctx" ELSE r.kind
<1>1. parsed[p] \in Parsed /\ parsed[p].lines \in Seq(DiffLine) /\ n \in Nat
  BY DEF PInv, PTypeOK, Parsed
<1>2. CASE r.kind = "hunk"
  <2>1. parsed'[p].lines = parsed[p].lines BY <1>2 DEF Read, Parse, ParseHeader
  <2>2. QED BY <1>1, <1>2, <2>1
<1>3. CASE r.kind # "hunk"
  <2> DEFINE ln == ParseLine(p, parsed[p], r, at).lines[n + 1]
  <2>1. \E x : parsed'[p].lines = Append(parsed[p].lines, x) /\ x.kind = kind /\ x.at = at
    <3> DEFINE y == [ kind |-> kind, pos |-> parsed[p].pos + 1, at |-> at,
                      old |-> IF Numbered(p, r) /\ kind # "add" THEN parsed[p].old ELSE 0,
                      new |-> IF Numbered(p, r) /\ kind # "del" THEN parsed[p].new ELSE 0 ]
    <3>1. parsed'[p].lines = Append(parsed[p].lines, y)
      BY <1>3 DEF Read, Parse, ParseLine
    <3>2. y.kind = kind /\ y.at = at OBVIOUS
    <3> HIDE DEF y
    <3>3. QED BY <3>1, <3>2
  <2>2. PICK x : parsed'[p].lines = Append(parsed[p].lines, x) /\ x.kind = kind /\ x.at = at
    BY <2>1
  <2>3. QED BY <1>1, <1>3, <2>2
<1>4. QED BY <1>2, <1>3

(* So the texts that a parser takes for added ones are those it should.          *)
LEMMA ReadIsComplete ==
  ASSUME PInv, TInv, NEW r \in Raw, Read(r)
  PROVE  TInv'
<1> DEFINE at == <<Len(patch) + 1, 0>>
<1>1. /\ Texts' = Texts \cup {at} /\ RestsInPatch'
      /\ \A p \in Parsers : \A x \in Texts : AddsFor(p, x)' <=> AddsFor(p, x)
      /\ \A p \in Parsers : \A x : x = at => (AddsFor(p, x)' <=> r.kind = "add")
  BY TextsRead DEF TInv
<1> HIDE DEF at
<1>2. ASSUME NEW p \in Parsers, NEW x \in Texts', AddsFor(p, x)'
      PROVE  \E k \in 1 .. Len(parsed'[p].lines) :
               parsed'[p].lines[k].kind = "add" /\ parsed'[p].lines[k].at = x
  <2> DEFINE n == Len(parsed[p].lines)
  <2>1. /\ n \in Nat /\ Len(parsed'[p].lines) \in {n, n + 1}
        /\ \A k \in 1 .. n : parsed'[p].lines[k] = parsed[p].lines[k]
        /\ r.kind = "add" => /\ Len(parsed'[p].lines) = n + 1
                             /\ parsed'[p].lines[n + 1].kind = "add" /\ parsed'[p].lines[n + 1].at = at
    BY ReadGrows DEF at
  <2>2. CASE x \in Texts
    <3>1. PICK k \in 1 .. n : parsed[p].lines[k].kind = "add" /\ parsed[p].lines[k].at = x
      BY <1>1, <1>2, <2>2 DEF TInv, Complete
    <3>2. k \in 1 .. Len(parsed'[p].lines) /\ parsed'[p].lines[k] = parsed[p].lines[k] BY <2>1
    <3>3. QED BY <3>1, <3>2
  <2>3. CASE x \notin Texts
    <3>1. x = at /\ r.kind = "add" BY <1>1, <1>2, <2>3
    <3>2. n + 1 \in 1 .. Len(parsed'[p].lines) BY <2>1, <3>1
    <3>3. QED BY <2>1, <3>1, <3>2
  <2>4. QED BY <2>2, <2>3
<1>3. ASSUME NEW p \in Parsers, NEW k \in 1 .. Len(parsed'[p].lines)
      PROVE  /\ parsed'[p].lines[k].at \in Texts'
             /\ parsed'[p].lines[k].kind = "add" => AddsFor(p, parsed[p].lines[k].at)'
  <2> DEFINE n == Len(parsed[p].lines)
  <2>1. /\ n \in Nat /\ \A j \in 1 .. n : parsed'[p].lines[j] = parsed[p].lines[j]
        /\ r.kind = "hunk" => Len(parsed'[p].lines) = n
        /\ r.kind # "hunk" =>
             /\ Len(parsed'[p].lines) = n + 1
             /\ parsed'[p].lines[n + 1].kind = (IF r.kind = "eof" THEN "ctx" ELSE r.kind)
             /\ parsed'[p].lines[n + 1].at = at
    BY ReadGrows DEF at
  <2>2. CASE k \in 1 .. n
    <3> DEFINE x == parsed[p].lines[k].at
    <3>1. x \in Texts /\ (parsed[p].lines[k].kind = "add" => AddsFor(p, x))
      BY <2>2 DEF TInv, Placed
    <3>2. parsed'[p].lines[k] = parsed[p].lines[k] BY <2>1, <2>2
    <3>3. QED BY <1>1, <3>1, <3>2 DEF AddsFor
  <2>3. CASE k \notin 1 .. n
    <3>1. r.kind # "hunk" /\ k = n + 1 BY <2>1, <2>3
    <3>2. QED BY <1>1, <2>1, <3>1 DEF AddsFor
  <2>4. QED BY <2>2, <2>3
<1>4. QED BY <1>1, <1>2, <1>3 DEF TInv, Complete, Placed, AddsFor

(* A separator is a text more, and a line of the second parser if it looks like one.  *)
LEMMA TearIsComplete ==
  ASSUME PInv, TInv, NEW looks \in Looks, NEW n \in Named, Tear(looks, n)
  PROVE  TInv'
<1> DEFINE at == <<Len(patch), Len(rests) + 1>>
<1>1. /\ UNCHANGED patch /\ Len(rests) \in Nat /\ Len(rests') = Len(rests) + 1
      /\ \A t \in 1 .. Len(rests) : rests'[t] = rests[t]
      /\ rests'[Len(rests) + 1] = [at |-> Len(patch), looks |-> looks]
      /\ Len(patch) \in 1 .. Len(patch)
  BY TearReads DEF PInv, PTypeOK
<1>2. 1 .. Len(rests') = 1 .. Len(rests) \cup {Len(rests) + 1} BY <1>1
<1>3. Texts' = Texts \cup {at} BY <1>1, <1>2 DEF Texts
<1>4. RestsInPatch' BY <1>1, <1>2 DEF TInv, RestsInPatch
<1>5. \A x \in Texts : x[2] = 0 \/ x[2] \in 1 .. Len(rests) BY DEF Texts
<1>6. /\ \A p \in Parsers : \A x \in Texts : AddsFor(p, x)' <=> AddsFor(p, x)
      /\ \A p \in Parsers : \A x : x = at => (AddsFor(p, x)' <=> (p = "gitlab" /\ looks = "add"))
  BY <1>1, <1>5 DEF AddsFor
<1>7. /\ \A p \in Parsers : Len(parsed[p].lines) \in Nat
      /\ \A p \in Parsers : Len(parsed'[p].lines) \in {Len(parsed[p].lines), Len(parsed[p].lines) + 1}
      /\ \A p \in Parsers : \A k \in 1 .. Len(parsed[p].lines) : parsed'[p].lines[k] = parsed[p].lines[k]
      /\ \A p \in Parsers : \A k \in 1 .. Len(parsed'[p].lines) :
           \/ k \in 1 .. Len(parsed[p].lines)
           \/ /\ p = "gitlab" /\ looks # "hunk"
              /\ parsed'[p].lines[k].kind = looks
              /\ parsed'[p].lines[k].at = at
      /\ looks # "hunk" => Len(parsed'["gitlab"].lines) = Len(parsed["gitlab"].lines) + 1
  <2>1. \A p \in Parsers :
          /\ Len(parsed[p].lines) \in Nat
          /\ Len(parsed'[p].lines) \in {Len(parsed[p].lines), Len(parsed[p].lines) + 1}
    BY TearLengths
  <2>2. QED BY <2>1, TearReads
<1> HIDE DEF at
<1>8. ASSUME NEW p \in Parsers, NEW x \in Texts', AddsFor(p, x)'
      PROVE  \E k \in 1 .. Len(parsed'[p].lines) :
               parsed'[p].lines[k].kind = "add" /\ parsed'[p].lines[k].at = x
  <2>1. CASE x \in Texts
    <3>1. PICK k \in 1 .. Len(parsed[p].lines) : parsed[p].lines[k].kind = "add" /\ parsed[p].lines[k].at = x
      BY <1>6, <1>8, <2>1 DEF TInv, Complete
    <3>2. k \in 1 .. Len(parsed'[p].lines) /\ parsed'[p].lines[k] = parsed[p].lines[k] BY <1>7
    <3>3. QED BY <3>1, <3>2
  <2>2. CASE x \notin Texts
    <3>1. x = at /\ p = "gitlab" /\ looks = "add" BY <1>3, <1>6, <1>8, <2>2
    <3> DEFINE k == Len(parsed[p].lines) + 1
    <3>2. k \in 1 .. Len(parsed'[p].lines) /\ k \notin 1 .. Len(parsed[p].lines) BY <1>7, <3>1
    <3>3. QED BY <1>7, <3>1, <3>2
  <2>3. QED BY <2>1, <2>2
<1>9. ASSUME NEW p \in Parsers, NEW k \in 1 .. Len(parsed'[p].lines)
      PROVE  /\ parsed'[p].lines[k].at \in Texts'
             /\ parsed'[p].lines[k].kind = "add" => AddsFor(p, parsed[p].lines[k].at)'
  <2>1. CASE k \in 1 .. Len(parsed[p].lines)
    <3> DEFINE x == parsed[p].lines[k].at
    <3>1. x \in Texts /\ (parsed[p].lines[k].kind = "add" => AddsFor(p, x))
      BY <2>1 DEF TInv, Placed
    <3>2. parsed'[p].lines[k] = parsed[p].lines[k] BY <1>7, <2>1
    <3>3. QED BY <1>3, <1>6, <3>1, <3>2 DEF AddsFor
  <2>2. CASE k \notin 1 .. Len(parsed[p].lines)
    <3>1. p = "gitlab" /\ parsed'[p].lines[k].kind = looks /\ parsed'[p].lines[k].at = at
      BY <1>7, <2>2
    <3>2. QED BY <1>3, <1>6, <3>1 DEF AddsFor
  <2>3. QED BY <2>1, <2>2
<1>10. QED BY <1>4, <1>8, <1>9 DEF TInv, Complete, Placed, AddsFor

(* The same, whatever comes next.                                            *)
LEMMA CompleteStep ==
  ASSUME PInv, TInv, [PNext]_pVars
  PROVE  TInv'
<1>1. ASSUME NEW gap \in Gaps, Header(gap) PROVE TInv'
  <2>1. [kind |-> "hunk", old |-> file.old + gap, new |-> file.new + gap, torn |-> FALSE] \in Raw
    BY ParserAssumption DEF Raw, RawKinds, PInv, PTypeOK
  <2>2. QED BY <1>1, <2>1, ReadIsComplete DEF Header
<1>2. ASSUME NEW kind \in LineKinds, Line(kind) PROVE TInv'
  BY <1>2, ReadIsComplete DEF Line, LineKinds, Raw, RawKinds, PInv, PTypeOK
<1>3. ASSUME NoNewline PROVE TInv'
  BY <1>3, ReadIsComplete DEF NoNewline, Raw, RawKinds, PInv, PTypeOK
<1>4. ASSUME NEW looks \in Looks, NEW n \in Named, Tear(looks, n) PROVE TInv'
  BY <1>4, TearIsComplete
<1>5. ASSUME UNCHANGED pVars PROVE TInv'
  BY <1>5 DEF pVars, TInv, Complete, Placed, RestsInPatch, Texts, AddsFor
<1>6. QED BY <1>1, <1>2, <1>3, <1>4, <1>5 DEF PNext

(* The parsers start within their invariant.                               *)
LEMMA ParserInit ==
  ASSUME PInit
  PROVE  PInv
<1>1. PTypeOK BY DEF PInit, PTypeOK, Parsed
<1>2. Counting BY DEF PInit, Counting, HasMarker
<1>3. NumberingIsRight BY DEF PInit, NumberingIsRight
<1>4. QED BY <1>1, <1>2, <1>3 DEF PInv

(* The numbers of added lines are right as far as NumberingIsRight says, with either   *)
(* parser, in every patch, with any markers and separators.                  *)
THEOREM NumbersAreRight == PSpec => []NumberingIsRight
<1>1. PInv => NumberingIsRight BY DEF PInv
<1>2. QED BY <1>1, ParserInit, ParserStep, PTL DEF PSpec

-----------------------------------------------------------------------------
(* The stages.                                                               *)

(* Secrets are found first and never dropped.                                 *)
AfterSecrets == {"gitleaks", "fetch", "semgrep", "bandit", "sca", "persist", "done", "raised"}

FoundIsIn ==
  \A f \in found :
    \/ f.tool \in CodeTools /\ f.at \in ShownAt
    \/ f.tool = "sca" /\ f.at \in DepsAt

SecretsAreIn ==
  stage \in AfterSecrets =>
    \A x \in ShownAt : \E f \in found : f.tool = "secrets" /\ f.at = x

NothingYet == stage \notin AfterSecrets => found = {}

(* The hunks left to merge are hunks of the patch, and no merging goes on outside   *)
(* the context stage.                                                        *)
Pending ==
  /\ stage # "merge" => todo = {}
  /\ stage \in {"read", "context"} => windows = <<>>
  /\ stage = "read" => host = "unified"
  /\ todo \subseteq 1 .. Len(parsed[host].hunks)

CInv ==
  /\ PInv
  /\ TInv
  /\ CTypeOK
  /\ FoundIsIn
  /\ SecretsAreIn
  /\ NothingYet
  /\ Pending

-----------------------------------------------------------------------------

(* The added lines of a parser are lines, and their texts are texts of the patch.     *)
LEMMA PlacesOfLines ==
  ASSUME PInv, TInv, NEW p \in Parsers
  PROVE  /\ \A ln \in AddedLines(p) : ln \in DiffLine /\ AddsFor(p, ln.at) /\ TextsOf(p, ln) \subseteq Texts
         /\ \A x \in Texts : AddsFor(p, x) => \E ln \in AddedLines(p) : ln.at = x
         /\ Texts \subseteq Nat \X Nat
<1>1. parsed[p] \in Parsed /\ parsed[p].lines \in Seq(DiffLine) BY DEF PInv, PTypeOK, Parsed
<1>2. ASSUME NEW ln \in AddedLines(p)
      PROVE  ln \in DiffLine /\ AddsFor(p, ln.at) /\ TextsOf(p, ln) \subseteq Texts
  <2>1. PICK k \in 1 .. Len(parsed[p].lines) : ln = parsed[p].lines[k] /\ ln.kind = "add"
    BY DEF AddedLines
  <2>2. QED BY <1>1, <2>1 DEF TInv, Placed, TextsOf
<1>3. ASSUME NEW x \in Texts, AddsFor(p, x) PROVE \E ln \in AddedLines(p) : ln.at = x
  <2>1. PICK k \in 1 .. Len(parsed[p].lines) :
               parsed[p].lines[k].kind = "add" /\ parsed[p].lines[k].at = x
    BY <1>3 DEF TInv, Complete
  <2>2. parsed[p].lines[k] \in AddedLines(p) BY <2>1 DEF AddedLines
  <2>3. QED BY <2>1, <2>2
<1>4. Texts \subseteq Nat \X Nat
  <2>1. \A t \in 1 .. Len(rests) : rests[t].at \in Nat
    <3>1. \A t \in 1 .. Len(rests) : rests[t] \in Rest BY DEF PInv, PTypeOK
    <3>2. QED BY <3>1 DEF Rest
  <2>2. Len(patch) \in Nat /\ Len(rests) \in Nat BY DEF PInv, PTypeOK
  <2>3. QED BY <2>1, <2>2 DEF Texts
<1>5. QED BY <1>2, <1>3, <1>4

(* What the detectors read are added lines of the parser's.                     *)
LEMMA CodeLinesAt ==
  ASSUME CInv
  PROVE  /\ \A ln \in CodeLines : ln \in DiffLine /\ TextsOf(host, ln) \subseteq ShownAt
         /\ \A ln \in CodeLines : ln.at \in ShownAt
         /\ \A x \in ShownAt : \E ln \in CodeLines : x \in TextsOf(host, ln)
         /\ ShownAt \subseteq Texts /\ Texts \subseteq Nat \X Nat
<1>1. host \in Parsers BY DEF CInv, CTypeOK
<1>2. \A ln \in CodeLines : ln \in AddedLines(host) BY DEF CodeLines
<1>3. \A ln \in CodeLines : ln \in DiffLine /\ TextsOf(host, ln) \subseteq Texts
  BY <1>1, <1>2, PlacesOfLines DEF CInv
<1>4. \A ln \in CodeLines : ln.at \in TextsOf(host, ln)
  <2> SUFFICES ASSUME NEW ln \in CodeLines PROVE ln.at \in Texts BY DEF TextsOf
  <2>1. PICK k \in 1 .. Len(parsed[host].lines) : ln = parsed[host].lines[k]
    BY <1>2 DEF AddedLines
  <2>2. QED BY <1>1, <2>1 DEF CInv, TInv, Placed
<1>5. QED BY <1>1, <1>3, <1>4, PlacesOfLines DEF CInv, ShownAt

(* What OSV can be asked about stands on added lines of a manifest.        *)
LEMMA QueriesAt ==
  ASSUME CInv, stage # "read"
  PROVE  /\ Queries \subseteq Finding
         /\ \A q \in Queries : q.tool = "sca" /\ q.at \in DepsAt
<1>1. \A ln \in AddedLines(host) : ln \in DiffLine /\ TextsOf(host, ln) \subseteq Nat \X Nat
  BY PlacesOfLines DEF CInv, CTypeOK
<1>2. \A n \in Deps : n \in Nat /\ <<n, 0>> \in Nat \X Nat BY LinesAssumption
<1>3. ASSUME NEW q \in Queries PROVE q \in Finding /\ q.tool = "sca"
  <2>1. CASE \E ln \in AddedLines(host) : q \in FindingsOn("sca", ln)
    <3>1. PICK ln \in AddedLines(host) : q \in FindingsOn("sca", ln) BY <2>1
    <3>2. PICK x \in TextsOf(host, ln) :
            q = [tool |-> "sca", file |-> "code", line |-> ln.new, at |-> x]
      BY <3>1 DEF FindingsOn
    <3>3. x \in Nat \X Nat /\ ln.new \in Nat BY <1>1 DEF DiffLine
    <3>4. QED BY <3>2, <3>3 DEF Finding
  <2>2. CASE \E n \in Deps : q = [tool |-> "sca", file |-> "deps", line |-> n, at |-> <<n, 0>>]
    BY <1>2, <2>2 DEF Finding
  <2> DEFINE M == IF Reason(traits) = "manifest" THEN AddedLines(host) ELSE {}
             D == {[tool |-> "sca", file |-> "deps", line |-> n, at |-> <<n, 0>>] : n \in Deps}
  <2>3. M \subseteq AddedLines(host) OBVIOUS
  <2> DEFINE X == {FindingsOn("sca", ln) : ln \in M}
  <2>4. Queries = (UNION X) \cup D BY DEF Queries
  <2>5. (\E ln \in M : q \in FindingsOn("sca", ln)) \/ q \in D
    <3>1. \A Y \in X : \E ln \in M : Y = FindingsOn("sca", ln) OBVIOUS
    <3> HIDE DEF D, X, M
    <3>2. q \in UNION X \/ q \in D BY <2>4
    <3>3. QED BY <3>1, <3>2
  <2>6. QED BY <2>1, <2>2, <2>3, <2>5
<1>4. QED BY <1>3 DEF DepsAt

(* What the detectors look at is the same as long as the patch and the file are.      *)
LEMMA SameLines ==
  ASSUME UNCHANGED pVars, UNCHANGED <<host, traits>>, stage # "read", stage' # "read"
  PROVE  /\ CodeAt' = CodeAt /\ ShownAt' = ShownAt /\ DepsAt' = DepsAt
         /\ (Kept' <=> Kept) /\ (Whole' <=> Whole) /\ CodeLines' = CodeLines
         /\ \A n : WithNumber(n)' = WithNumber(n)
<1>1. Texts' = Texts /\ (Kept' <=> Kept) /\ (Whole' <=> Whole) BY DEF pVars, Texts, Kept, Whole
<1>2. CodeAt' = CodeAt BY <1>1 DEF pVars, CodeAt, IsAdded
<1>3. CodeLines' = CodeLines BY <1>1 DEF pVars, CodeLines, AddedLines
<1>4. ShownAt' = ShownAt BY <1>1, <1>3 DEF pVars, ShownAt, TextsOf
<1>5. Queries' = Queries BY <1>1 DEF pVars, Queries, FindingsOn, TextsOf, AddedLines
<1>6. DepsAt' = DepsAt BY <1>5 DEF DepsAt
<1>7. \A n : WithNumber(n)' = WithNumber(n) BY <1>3 DEF WithNumber
<1>8. QED BY <1>1, <1>2, <1>3, <1>4, <1>6, <1>7

(* A tool adds findings on lines of the code, or none.                          *)
LEMMA ToolKeeps ==
  ASSUME CInv, NEW tool \in CodeTools \ {"secrets"}, NEW runs \in BOOLEAN, NEW results, NEW next \in AfterSecrets,
         next \in Stages,
         results \subseteq Finding,
         \A f \in results : f.tool = tool /\ f.at \in ShownAt,
         RunTool(tool, runs, results, next)
  PROVE  CInv'
<1>1. tool \in AfterSecrets /\ tool # "read" /\ next # "read" BY DEF CodeTools, AfterSecrets
<1>2. ShownAt' = ShownAt /\ DepsAt' = DepsAt
  BY <1>1, SameLines DEF RunTool, Go
<1>3. PInv' /\ TInv'
  BY ParserStep, CompleteStep DEF CInv, RunTool, Go
<1>4. found' \subseteq found \cup results /\ found \subseteq found'
  BY DEF RunTool
<1>5. CTypeOK'
  BY <1>3, <1>4 DEF CInv, PInv, CTypeOK, RunTool, Go
<1>6. FoundIsIn' BY <1>2, <1>4 DEF CInv, FoundIsIn
<1>7. SecretsAreIn' BY <1>1, <1>2, <1>4 DEF CInv, SecretsAreIn, RunTool
<1>8. NothingYet' BY DEF NothingYet, RunTool, Go
<1>9. Pending'
  <2>1. stage \notin {"read", "context", "merge"} /\ stage' \notin {"read", "context", "merge"}
    BY DEF RunTool, Go, CodeTools, AfterSecrets
  <2>2. UNCHANGED pVars /\ UNCHANGED <<host, windows, todo>> BY DEF RunTool, Go
  <2>3. QED BY <2>1, <2>2 DEF CInv, Pending, pVars
<1>10. QED BY <1>3, <1>5, <1>6, <1>7, <1>8, <1>9 DEF CInv

(* What a step that leaves the patch and the file alone leaves alone.            *)
LEMMA GoKeeps ==
  ASSUME CInv, stage \notin {"read", "context", "merge"},
         NEW next \in Stages \ {"read", "context", "merge"}, Go(next)
  PROVE  ShownAt' = ShownAt /\ DepsAt' = DepsAt /\ PInv' /\ TInv' /\ Pending'
<1>1. UNCHANGED pVars /\ UNCHANGED <<host, traits>> /\ stage' # "read" BY DEF Go
<1>2. PInv' /\ TInv' BY <1>1, ParserStep, CompleteStep DEF CInv
<1>3. ShownAt' = ShownAt /\ DepsAt' = DepsAt BY <1>1, SameLines
<1>4. Pending' BY <1>1 DEF CInv, Pending, pVars, Go
<1>5. QED BY <1>2, <1>3, <1>4

(* The invariant holds while the patch is read.                            *)
LEMMA ReadPatchKeeps ==
  ASSUME CInv, ReadPatch
  PROVE  CInv'
<1>1. PInv' /\ TInv' BY ParserStep, CompleteStep DEF CInv, ReadPatch
<1>2. CTypeOK' BY <1>1 DEF CInv, CTypeOK, PInv, ReadPatch, sVars
<1>3. stage = "read" /\ stage' = "read" /\ found' = {}
  BY DEF CInv, NothingYet, ReadPatch, sVars, AfterSecrets
<1>4. FoundIsIn' /\ SecretsAreIn' /\ NothingYet'
  BY <1>3 DEF FoundIsIn, SecretsAreIn, NothingYet, AfterSecrets
<1>5. Pending' BY <1>3 DEF CInv, Pending, ReadPatch, sVars
<1>6. QED BY <1>1, <1>2, <1>4, <1>5 DEF CInv

(* The filter keeps it.                                                    *)
LEMMA FilterKeeps ==
  ASSUME CInv, NEW h \in Parsers, NEW T \in FileTraits, NEW beyond \in Beyond, Filter(h, T, beyond)
  PROVE  CInv'
<1>1. PInv' /\ TInv' BY ParserStep, CompleteStep DEF CInv, Filter
<1>2. CTypeOK'
  <2>1. PICK a \in Nat, b \in Nat : a = beyond[1] /\ b = beyond[2]
    <3>1. beyond \in Nat \X Nat BY LinesAssumption
    <3>2. beyond[1] \in Nat /\ beyond[2] \in Nat BY <3>1
    <3>3. QED BY <3>2
  <2>2. fileLen' = file.new - 1 + a /\ textLen' = fileLen' + b /\ file.new \in Nat \ {0}
    BY <2>1 DEF CInv, PInv, PTypeOK, Filter
  <2>3. fileLen' \in Nat /\ textLen' \in Nat BY <2>2
  <2>4. QED
    BY <1>1, <2>3, LinesAssumption DEF CInv, CTypeOK, PInv, PTypeOK, Filter, Stages
<1>3. stage' = "context" /\ found' = {}
  BY DEF CInv, NothingYet, Filter, AfterSecrets
<1>4. FoundIsIn' /\ SecretsAreIn' /\ NothingYet'
  BY <1>3 DEF FoundIsIn, SecretsAreIn, NothingYet, AfterSecrets
<1>5. Pending' BY <1>3 DEF CInv, Pending, Filter
<1>6. QED BY <1>1, <1>2, <1>4, <1>5 DEF CInv

(* A detector that reads the parser's lines reports their texts, and each of them.     *)
LEMMA FindingsOnAt ==
  ASSUME CInv, NEW tool \in CodeTools
  PROVE  /\ \A ln \in CodeLines : \A f \in FindingsOn(tool, ln) :
              f \in Finding /\ f.tool = tool /\ f.at \in ShownAt
         /\ \A x \in ShownAt : \E ln \in CodeLines :
              \E f \in FindingsOn(tool, ln) : f.tool = tool /\ f.at = x
<1>1. ASSUME NEW ln \in CodeLines, NEW f \in FindingsOn(tool, ln)
      PROVE  f \in Finding /\ f.tool = tool /\ f.at \in ShownAt
  <2>1. PICK x \in TextsOf(host, ln) : f = [tool |-> tool, file |-> "code", line |-> ln.new, at |-> x]
    BY DEF FindingsOn
  <2>2. x \in ShownAt /\ x \in Nat \X Nat /\ ln.new \in Nat BY CodeLinesAt DEF DiffLine
  <2>3. QED BY <2>1, <2>2 DEF Finding
<1>2. ASSUME NEW x \in ShownAt
      PROVE  \E ln \in CodeLines : \E f \in FindingsOn(tool, ln) : f.tool = tool /\ f.at = x
  <2>1. PICK ln \in CodeLines : x \in TextsOf(host, ln) BY CodeLinesAt
  <2> DEFINE f == [tool |-> tool, file |-> "code", line |-> ln.new, at |-> x]
  <2>2. f \in FindingsOn(tool, ln) BY <2>1 DEF FindingsOn
  <2>3. f.tool = tool /\ f.at = x OBVIOUS
  <2> HIDE DEF f
  <2>4. QED BY <2>2, <2>3
<1>3. QED BY <1>1, <1>2

(* The secret detector, which comes first, keeps it and finds every secret.*)
LEMMA SecretsKeeps ==
  ASSUME CInv, Secrets
  PROVE  CInv'
<1>1. stage = "secrets" /\ stage' = "gitleaks" /\ "gitleaks" \in Stages BY DEF Secrets, Go, Stages
<1>2. ShownAt' = ShownAt /\ DepsAt' = DepsAt /\ PInv' /\ TInv' /\ Pending'
  BY <1>1, GoKeeps DEF Secrets
<1>3. found' \in SUBSET Finding BY FindingsOnAt DEF Secrets, CodeTools
<1>4. CTypeOK' BY <1>1, <1>2, <1>3 DEF CInv, PInv, CTypeOK, Secrets, Go
<1>5. \A f \in found' : f.tool = "secrets" /\ f.at \in ShownAt BY FindingsOnAt DEF Secrets, CodeTools
<1>6. \A x \in ShownAt : \E f \in found' : f.tool = "secrets" /\ f.at = x
  <2> SUFFICES ASSUME NEW x \in ShownAt PROVE \E f \in found' : f.tool = "secrets" /\ f.at = x
    OBVIOUS
  <2>1. PICK ln \in CodeLines : \E f \in FindingsOn("secrets", ln) : f.tool = "secrets" /\ f.at = x
    BY FindingsOnAt DEF CodeTools
  <2>2. FindingsOn("secrets", ln) \subseteq found' BY DEF Secrets
  <2>3. QED BY <2>1, <2>2
<1>7. FoundIsIn' /\ SecretsAreIn' /\ NothingYet'
  BY <1>1, <1>2, <1>5, <1>6 DEF FoundIsIn, SecretsAreIn, NothingYet, AfterSecrets, CodeTools
<1>8. QED BY <1>2, <1>4, <1>7 DEF CInv

(* Of the added lines with a number one comes first.                           *)
LEMMA FirstExists ==
  ASSUME CInv, NEW n, WithNumber(n) # {}
  PROVE  FirstWithNumber(n) \in WithNumber(n)
<1> DEFINE S == {ln.pos : ln \in WithNumber(n)}
<1>1. \A ln \in WithNumber(n) : ln.pos \in Nat BY CodeLinesAt DEF WithNumber, DiffLine
<1>2. S \subseteq Nat /\ S # {} BY <1>1
<1> DEFINE R == {ss \in Nat \X Nat : ss[1] < ss[2]}
<1>3. IsWellFoundedOn(R, Nat) BY NatLessThanWellFounded DEF OpToRel
<1>4. PICK a \in S : \A b \in S : ~ (<<b, a>> \in R)
  <2> HIDE DEF R, S
  <2>1. \E x \in S : \A y \in S : ~ (<<y, x>> \in R)
    BY <1>2, <1>3, WFMin, Zenon
  <2>2. QED BY <2>1
<1>5. ASSUME NEW b \in S PROVE a <= b
  <2>1. a \in Nat /\ b \in Nat BY <1>2
  <2>2. ~ (<<b, a>> \in R) BY <1>4
  <2>3. ~ (b < a) BY <2>1, <2>2
  <2>4. QED BY <2>1, <2>3
<1>6. PICK ln \in WithNumber(n) : ln.pos = a OBVIOUS
<1>7. \A m \in WithNumber(n) : ln.pos <= m.pos BY <1>5, <1>6
<1>8. QED BY <1>6, <1>7 DEF FirstWithNumber

(* What Semgrep and Bandit may report stands on added lines of code.       *)
LEMMA OnAddedLinesAt ==
  ASSUME CInv, NEW tool \in CodeTools
  PROVE  /\ OnAddedLines(tool) \subseteq Finding
         /\ \A f \in OnAddedLines(tool) : f.tool = tool /\ f.at \in ShownAt
<1> SUFFICES ASSUME NEW f \in OnAddedLines(tool)
             PROVE  f \in Finding /\ f.tool = tool /\ f.at \in ShownAt
  OBVIOUS
<1>1. PICK n \in {m \in 1 .. fileLen : WithNumber(m) # {}} :
        f = [tool |-> tool, file |-> "code", line |-> n, at |-> FirstWithNumber(n).at]
  BY DEF OnAddedLines
<1>2. FirstWithNumber(n) \in CodeLines BY <1>1, FirstExists DEF WithNumber
<1>3. FirstWithNumber(n).at \in ShownAt /\ FirstWithNumber(n).at \in Nat \X Nat BY <1>2, CodeLinesAt
<1>4. n \in Nat BY <1>1 DEF CInv, CTypeOK
<1>5. QED BY <1>1, <1>3, <1>4 DEF Finding

(* The window of a hunk is a pair of numbers, whatever the header says.          *)
LEMMA WindowTyped ==
  ASSUME CInv, NEW h \in 1 .. Len(parsed[host].hunks)
  PROVE  /\ Window(h) \in Nat \X Int
         /\ Window(h)[1] = Greater(1, parsed[host].hunks[h].new_start - ContextLines)
         /\ Window(h)[2] = Lesser(textLen, parsed[host].hunks[h].new_start
                                       + parsed[host].hunks[h].new_count + ContextLines - 1)
<1>1. parsed[host].hunks[h] \in Hunk BY DEF CInv, CTypeOK, PTypeOK, Parsed
<1>2. PICK a \in Nat, b \in Nat : /\ a = parsed[host].hunks[h].new_start
                                /\ b = parsed[host].hunks[h].new_count
  BY <1>1 DEF Hunk
<1>3. /\ Greater(1, a - ContextLines) \in Nat
      /\ Lesser(textLen, a + b + ContextLines - 1) \in Int
  BY LinesAssumption DEF Greater, Lesser, CInv, CTypeOK
<1>4. QED BY <1>2, <1>3 DEF Window

(* Merging replaces the last window or adds one.                               *)
LEMMA MergeTyped ==
  ASSUME NEW ws \in Seq(Nat \X Int), NEW v \in Nat \X Int
  PROVE  /\ Merge(ws, v) \in Seq(Nat \X Int)
         /\ \/ /\ ws # <<>>
               /\ Touches(ws[Len(ws)], v)
               /\ Len(Merge(ws, v)) = Len(ws)
               /\ Merge(ws, v)[Len(ws)] = <<ws[Len(ws)][1], Greater(ws[Len(ws)][2], v[2])>>
            \/ /\ ws = <<>> \/ ~ Touches(ws[Len(ws)], v)
               /\ Len(Merge(ws, v)) = Len(ws) + 1
               /\ Merge(ws, v)[Len(ws) + 1] = v
               /\ ws # <<>> => Merge(ws, v)[Len(ws)] = ws[Len(ws)]
         /\ \A k \in 1 .. Len(ws) - 1 : Merge(ws, v)[k] = ws[k]
<1>1. CASE ws # <<>> /\ Touches(ws[Len(ws)], v)
  <2> DEFINE w == <<ws[Len(ws)][1], Greater(ws[Len(ws)][2], v[2])>>
  <2>1. Len(ws) \in 1 .. Len(ws) /\ ws[Len(ws)] \in Nat \X Int BY <1>1
  <2>2. w \in Nat \X Int BY <2>1 DEF Greater
  <2>3. Merge(ws, v) = [ws EXCEPT ![Len(ws)] = w] BY <1>1 DEF Merge
  <2> HIDE DEF w
  <2>4. Merge(ws, v) \in Seq(Nat \X Int) BY <2>1, <2>2, <2>3
  <2>5. /\ Len(Merge(ws, v)) = Len(ws) /\ Merge(ws, v)[Len(ws)] = w
        /\ \A k \in 1 .. Len(ws) - 1 : Merge(ws, v)[k] = ws[k]
    BY <2>1, <2>3
  <2>6. QED BY <1>1, <2>4, <2>5 DEF w
<1>2. CASE ~ (ws # <<>> /\ Touches(ws[Len(ws)], v))
  <2>1. Merge(ws, v) = Append(ws, v) BY <1>2 DEF Merge
  <2>2. QED BY <1>2, <2>1
<1>3. QED BY <1>1, <1>2

(* Neither does the context stage report anything, nor lose a hunk.              *)
LEMMA ContextKeeps ==
  ASSUME CInv, Context \/ MergeNext \/ Merged
  PROVE  CInv'
<1>1. /\ stage \in {"context", "merge"} /\ stage' \in {"merge", "secrets"}
      /\ UNCHANGED pVars /\ UNCHANGED <<host, traits, fileLen, textLen, text, found, degraded, mute>>
  BY DEF Context, MergeNext, Merged
<1>2. PInv' /\ TInv' BY <1>1, ParserStep, CompleteStep DEF CInv
<1>3. FoundIsIn' /\ SecretsAreIn' /\ NothingYet'
  BY <1>1 DEF CInv, FoundIsIn, SecretsAreIn, NothingYet, AfterSecrets
<1>4. /\ windows' \in Seq(Nat \X Int)
      /\ todo' \subseteq 1 .. Len(parsed[host].hunks)
      /\ stage' # "merge" => todo' = {}
  <2>1. CASE Context BY <2>1 DEF Context, CInv, CTypeOK, Pending
  <2>2. CASE MergeNext
    <3>1. PICK h \in todo : windows' = Merge(windows, Window(h)) /\ todo' = todo \ {h}
      BY <2>2 DEF MergeNext
    <3>2. h \in 1 .. Len(parsed[host].hunks) BY DEF CInv, Pending
    <3>3. windows' \in Seq(Nat \X Int)
      BY <3>1, <3>2, WindowTyped, MergeTyped DEF CInv, CTypeOK
    <3>4. QED BY <2>2, <3>1, <3>3 DEF CInv, Pending, MergeNext
  <2>3. CASE Merged BY <2>3 DEF Merged, CInv, CTypeOK, Pending
  <2>4. QED BY <2>1, <2>2, <2>3
<1>5. todo' \subseteq Nat BY <1>4, <1>1 DEF pVars
<1>6. CTypeOK' BY <1>1, <1>2, <1>4, <1>5 DEF CInv, CTypeOK, PInv, Stages
<1>7. Pending' BY <1>1, <1>4 DEF Pending, pVars
<1>8. QED BY <1>2, <1>3, <1>6, <1>7 DEF CInv

(* Every step of the stage keeps the invariant.                            *)
LEMMA StepKeeps ==
  ASSUME CInv, CNext
  PROVE  CInv'
<1>1. CASE ReadPatch BY <1>1, ReadPatchKeeps
<1>2. CASE \E h \in Parsers, T \in FileTraits, beyond \in Beyond : Filter(h, T, beyond)
  BY <1>2, FilterKeeps
<1>3. CASE Context \/ MergeNext \/ Merged BY <1>3, ContextKeeps
<1>4. CASE Secrets BY <1>4, SecretsKeeps
<1>5. CASE Gitleaks
  <2> DEFINE R == UNION {FindingsOn("gitleaks", ln) :
                     ln \in {m \in CodeLines : TempLine(m) \in 1 .. Cardinality(CodeLines)}}
  <2>1. R \subseteq Finding /\ \A f \in R : f.tool = "gitleaks" /\ f.at \in ShownAt
    BY FindingsOnAt DEF CodeTools
  <2>2. RunTool("gitleaks", CodeLines # {}, R, "fetch") BY <1>5 DEF Gitleaks
  <2> HIDE DEF R
  <2>3. QED BY <2>1, <2>2, ToolKeeps DEF CodeTools, AfterSecrets, Stages
<1>6. CASE Fetch
  <2>1. stage = "fetch" /\ stage' = "semgrep" /\ found' = found /\ Go("semgrep")
    BY <1>6 DEF Fetch, Go
  <2>2. ShownAt' = ShownAt /\ DepsAt' = DepsAt /\ PInv' /\ TInv' /\ Pending' BY <2>1, GoKeeps DEF Stages
  <2>3. CTypeOK' BY <1>6, <2>2 DEF Fetch, Go, CInv, PInv, CTypeOK, Kept, Stages
  <2>4. QED BY <2>1, <2>2, <2>3 DEF CInv, FoundIsIn, SecretsAreIn, NothingYet, AfterSecrets
<1>7. CASE Semgrep
  BY <1>7, OnAddedLinesAt, ToolKeeps DEF Semgrep, CodeTools, AfterSecrets, Stages, CInv, CTypeOK
<1>8. CASE Bandit
  <2> DEFINE runs == text /\ "python" \in traits
  <2>1. RunTool("bandit", runs, OnAddedLines("bandit"), "sca") BY <1>8 DEF Bandit
  <2>2. runs \in BOOLEAN OBVIOUS
  <2> HIDE DEF runs
  <2>3. QED BY <2>1, <2>2, OnAddedLinesAt, ToolKeeps DEF CodeTools, AfterSecrets, Stages
<1>9. CASE Sca
  <2>1. stage = "sca" /\ stage' = "persist" /\ Go("persist") BY <1>9 DEF Sca, Go
  <2>2. ShownAt' = ShownAt /\ DepsAt' = DepsAt /\ PInv' /\ TInv' /\ Pending' BY <2>1, GoKeeps DEF Stages
  <2>3. found \subseteq found' /\ found' \subseteq found \cup Queries BY <1>9 DEF Sca
  <2>4. /\ Queries \subseteq Finding
        /\ \A q \in Queries : q.tool = "sca" /\ q.at \in DepsAt
    BY <2>1, QueriesAt
  <2>5. CTypeOK' BY <1>9, <2>2, <2>3, <2>4 DEF Sca, Go, CInv, PInv, CTypeOK, Stages
  <2>6. FoundIsIn' BY <2>2, <2>3, <2>4 DEF CInv, FoundIsIn
  <2>7. SecretsAreIn' /\ NothingYet'
    BY <2>1, <2>2, <2>3 DEF CInv, SecretsAreIn, NothingYet, AfterSecrets
  <2>8. QED BY <2>2, <2>5, <2>6, <2>7 DEF CInv
<1>10. CASE Persist \/ StageRaises
  <2>1. /\ stage \in AfterSecrets \ {"done", "raised"} /\ stage' \in {"done", "raised"}
        /\ found' = found /\ stage' \in Stages \ {"read"}
    BY <1>10 DEF Persist, StageRaises, Go, AfterSecrets, Stages
  <2>2. ShownAt' = ShownAt /\ DepsAt' = DepsAt /\ PInv' /\ TInv' /\ Pending'
    <3>1. stage \notin {"read", "context", "merge"} BY <2>1 DEF AfterSecrets
    <3>2. Go("done") \/ Go("raised") BY <1>10 DEF Persist, StageRaises
    <3>3. QED BY <3>1, <3>2, GoKeeps DEF Stages
  <2>3. CTypeOK' BY <1>10, <2>1, <2>2 DEF Persist, StageRaises, Go, CInv, PInv, CTypeOK
  <2>4. QED BY <2>1, <2>2, <2>3 DEF CInv, FoundIsIn, SecretsAreIn, NothingYet, AfterSecrets
<1>11. QED BY <1>1, <1>2, <1>3, <1>4, <1>5, <1>6, <1>7, <1>8, <1>9, <1>10 DEF CNext

(* The stage starts within its invariant.                                  *)
LEMMA InitKeeps ==
  ASSUME CInit
  PROVE  CInv
<1>1. PInv BY ParserInit DEF CInit
<1>2. TInv BY DEF CInit, PInit, TInv, Complete, Placed, RestsInPatch, Texts
<1>3. CTypeOK
  <2>1. windows \in Seq(Nat \X Int) BY DEF CInit
  <2>2. QED BY <1>1, <2>1 DEF CInit, CTypeOK, PInv, Stages, Parsers
<1>4. QED BY <1>1, <1>2, <1>3 DEF CInit, CInv, FoundIsIn, SecretsAreIn, NothingYet, AfterSecrets, Pending

(* So do steps that change nothing.                                        *)
LEMMA StutterKeeps ==
  ASSUME CInv, UNCHANGED cVars
  PROVE  CInv'
<1>1. PInv' /\ TInv' BY ParserStep, CompleteStep DEF CInv, cVars
<1>2. ShownAt' = ShownAt /\ DepsAt' = DepsAt
  BY DEF cVars, pVars, sVars, ShownAt, TextsOf, Texts, CodeLines, Kept, DepsAt, Queries, FindingsOn, AddedLines
<1>3. QED BY <1>1, <1>2 DEF CInv, cVars, sVars, pVars, CTypeOK, PInv, FoundIsIn, SecretsAreIn, NothingYet, Pending

(* Hence it always holds.                                                  *)
LEMMA CInvariant == CSpec => []CInv
<1>1. CInit => CInv BY InitKeeps
<1>2. CInv /\ [CNext]_cVars => CInv' BY StepKeeps, StutterKeeps
<1>3. QED BY <1>1, <1>2, PTL DEF CSpec

(* Types, for every patch, set of dependencies and file.                        *)
THEOREM LinesTyped == CSpec => []CTypeOK
<1>1. CInv => CTypeOK BY DEF CInv
<1>2. QED BY <1>1, CInvariant, PTL

(* The numbers of added lines are right in every patch that a scan reads.         *)
THEOREM LinesAreNumbered == CSpec => []NumberingIsRight
<1>1. CInv => NumberingIsRight BY DEF CInv, PInv
<1>2. QED BY <1>1, CInvariant, PTL

-----------------------------------------------------------------------------
(* A text of an added line is shown, unless it follows a separator on GitLab.       *)
LEMMA ShownUnlessTorn ==
  ASSUME CInv, NEW x \in CodeAt, ~ Torn(x)
  PROVE  x \in ShownAt
<1>1. x \in Texts /\ IsAdded(x[1]) /\ Kept /\ host \in Parsers BY DEF CodeAt, CInv, CTypeOK
<1>2. \A y \in Texts : AddsFor(host, y) => \E ln \in CodeLines : ln.at = y
  BY <1>1, PlacesOfLines DEF CInv, CodeLines
<1>3. CASE AddsFor(host, x)
  <2>1. PICK ln \in CodeLines : ln.at = x BY <1>1, <1>2, <1>3
  <2>2. QED BY <2>1, CodeLinesAt
<1>4. CASE ~ AddsFor(host, x)
  <2>1. x[2] # 0 /\ host = "unified"
    BY <1>1, <1>4 DEF AddsFor, IsAdded, Torn, Parsers
  <2> DEFINE y == <<x[1], 0>>
  <2>2. y \in Texts /\ AddsFor(host, y) BY <1>1 DEF Texts, IsAdded, AddsFor
  <2>3. PICK ln \in CodeLines : ln.at = y BY <1>2, <2>2
  <2>4. x \in TextsOf(host, ln) BY <1>1, <2>1, <2>3 DEF TextsOf
  <2>5. QED BY <2>4, CodeLinesAt
<1>5. QED BY <1>3, <1>4

(* Without separators there are no texts but the raw lines.                     *)
LEMMA WholeTexts ==
  ASSUME Whole
  PROVE  \A x \in Texts : host = "unified" \/ x[2] = 0
<1>1. Texts = {<<i, 0>> : i \in 1 .. Len(patch)} \cup {<<rests[t].at, t>> : t \in 1 .. Len(rests)}
  BY DEF Texts
<1>2. rests = <<>> => Len(rests) = 0 OBVIOUS
<1>3. QED BY <1>1, <1>2 DEF Whole

(* Without separators, or with the other parser, all added lines are shown and no others.  *)
LEMMA WholeShows ==
  ASSUME CInv, Whole
  PROVE  ShownAt = CodeAt
<1>1. \A x \in Texts : host = "unified" \/ x[2] = 0 BY WholeTexts
<1>2. ASSUME NEW x \in CodeAt PROVE x \in ShownAt
  <2>1. x \in Texts BY DEF CodeAt
  <2>2. ~ Torn(x) BY <1>1, <2>1 DEF Torn
  <2>3. QED BY <2>2, ShownUnlessTorn
<1>3. ASSUME NEW x \in ShownAt PROVE x \in CodeAt
  <2>1. PICK ln \in CodeLines : x \in TextsOf(host, ln) BY CodeLinesAt
  <2>2. Kept /\ ln \in AddedLines(host) /\ host \in Parsers BY <2>1 DEF CodeLines, CInv, CTypeOK
  <2>3. AddsFor(host, ln.at) /\ x \in Texts /\ ln.at \in Texts
    BY <2>1, <2>2, PlacesOfLines, CodeLinesAt DEF CInv
  <2>4. patch[ln.at[1]].kind = "add" /\ x[1] = ln.at[1]
    <3>1. ln.at[2] = 0 BY <1>1, <2>3 DEF AddsFor
    <3>2. QED BY <2>1, <2>3, <3>1 DEF AddsFor, TextsOf
  <2>5. x[1] \in 1 .. Len(patch)
    <3>1. \A i \in 1 .. Len(patch) : <<i, 0>>[1] = i OBVIOUS
    <3>2. \A t \in 1 .. Len(rests) : <<rests[t].at, t>>[1] \in 1 .. Len(patch)
      BY DEF CInv, TInv, RestsInPatch
    <3>3. QED BY <2>3, <3>1, <3>2 DEF Texts
  <2>6. QED BY <2>2, <2>3, <2>4, <2>5 DEF CodeAt, IsAdded
<1>4. QED BY <1>2, <1>3

(* The stage starts as the net does.                                       *)
LEMMA InitRefines ==
  ASSUME CInit
  PROVE  Net!NInit
<1>1. ~ Kept /\ CodeAt = {} /\ DepsAt = {} /\ FoundAt = {} /\ Whole
  BY DEF CInit, CodeAt, Kept, DepsAt, FoundAt, Whole
<1>2. ShownAt = {} BY <1>1 DEF ShownAt, CodeLines
<1>3. QED BY <1>1, <1>2 DEF Net!NInit, CInit, NetState

(* Nothing happens to the net while the stage works.                            *)
LEMMA WorkIsHidden ==
  ASSUME CInv, stage \in Stages \ {"read", "done", "raised"},
         NEW next \in Stages \ {"read", "done", "raised"}, stage' = next,
         UNCHANGED pVars, UNCHANGED <<host, traits>>
  PROVE  UNCHANGED Net!nVars
<1>1. CodeAt' = CodeAt /\ ShownAt' = ShownAt /\ DepsAt' = DepsAt /\ Whole' = Whole
  BY SameLines DEF Whole, pVars
<1>2. NetState = "ready" /\ NetState' = "ready" BY DEF NetState, Stages
<1>3. FoundAt = {} /\ FoundAt' = {} BY DEF FoundAt
<1>4. QED BY <1>1, <1>2, <1>3 DEF Net!nVars

(* What the net is handed, in any state.                                       *)
HandedOver ==
  /\ ShownAt \subseteq Texts /\ Texts \subseteq Nat \X Nat
  /\ Whole => ShownAt = CodeAt
  /\ stage # "read" => Queries \subseteq Finding

LEMMA Handed == CInv => HandedOver
BY CodeLinesAt, WholeShows, QueriesAt DEF HandedOver

(* The end of the filter hands the file to the net.                        *)
LEMMA FilterRefines ==
  ASSUME CInv, CInv', NEW h \in Parsers, NEW T \in FileTraits, NEW beyond \in Beyond, Filter(h, T, beyond)
  PROVE  Net!Submit
<1>1. stage = "read" /\ stage' = "context" BY DEF Filter
<1>2. NetState = "open" /\ NetState' = "ready" BY <1>1 DEF NetState
<1>3. FoundAt = {} /\ FoundAt' = {} BY <1>1 DEF FoundAt
<1>4. HandedOver'
  <2>1. CInv' => HandedOver' BY Handed, PTL
  <2>2. QED BY <2>1
<1>5. CodeAt' \subseteq Texts' BY DEF CodeAt
<1>6. ShownAt' \subseteq Texts' /\ Texts' \subseteq Nat \X Nat /\ (Whole' => ShownAt' = CodeAt')
  BY <1>4 DEF HandedOver
<1>7. DepsAt' \subseteq Nat \X Nat
  <2>1. Queries' \subseteq Finding BY <1>1, <1>4 DEF HandedOver
  <2>2. \A q \in Queries' : q.at \in Nat \X Nat BY <2>1 DEF Finding
  <2>3. QED BY <1>1, <2>2 DEF DepsAt
<1>8. Whole' \in BOOLEAN BY DEF Whole
<1>9. QED BY <1>2, <1>3, <1>4, <1>5, <1>6, <1>7, <1>8 DEF Net!Submit

(* Storing the findings is the one step in which the net reports.          *)
LEMMA PersistRefines ==
  ASSUME CInv, Persist
  PROVE  Net!Detect
<1>1. stage = "persist" /\ stage' = "done" /\ found' = found /\ Go("done") BY DEF Persist, Go
<1>2. CodeAt' = CodeAt /\ ShownAt' = ShownAt /\ DepsAt' = DepsAt /\ Whole' = Whole
  BY <1>1, SameLines DEF Go, Whole, pVars
<1>3. NetState = "ready" /\ NetState' = "done" BY <1>1 DEF NetState
<1>4. FoundAt' = {<<f.tool, f.at>> : f \in found} BY <1>1 DEF FoundAt
<1>5. {"secrets"} \X ShownAt \subseteq FoundAt'
  <2>1. \A x \in ShownAt : \E f \in found : f.tool = "secrets" /\ f.at = x
    BY <1>1 DEF CInv, SecretsAreIn, AfterSecrets
  <2>2. \A x \in ShownAt : <<"secrets", x>> \in FoundAt' BY <1>4, <2>1
  <2>3. QED BY <2>2
<1>6. FoundAt' \subseteq (CodeTools \X ShownAt) \cup ({"sca"} \X DepsAt)
  <2>1. \A f \in found : <<f.tool, f.at>> \in (CodeTools \X ShownAt) \cup ({"sca"} \X DepsAt)
    BY DEF CInv, FoundIsIn
  <2>2. QED BY <1>4, <2>1
<1>7. QED BY <1>2, <1>3, <1>5, <1>6 DEF Net!Detect

(* A stage that raises reports nothing.                                    *)
LEMMA RaiseRefines ==
  ASSUME CInv, StageRaises
  PROVE  Net!Raise
<1>1. /\ stage \in {"gitleaks", "semgrep", "bandit", "sca", "persist"} /\ stage' = "raised"
      /\ UNCHANGED pVars /\ UNCHANGED <<host, traits>>
  BY DEF StageRaises, Go
<1>2. CodeAt' = CodeAt /\ ShownAt' = ShownAt /\ DepsAt' = DepsAt /\ Whole' = Whole
  BY <1>1, SameLines DEF Whole, pVars
<1>3. NetState = "ready" /\ NetState' = "raised" BY <1>1 DEF NetState
<1>4. FoundAt = {} /\ FoundAt' = {} BY <1>1 DEF FoundAt
<1>5. QED BY <1>2, <1>3, <1>4 DEF Net!Raise

(* Reading the patch is hidden.                                            *)
LEMMA ReadRefines ==
  ASSUME CInv, ReadPatch
  PROVE  UNCHANGED Net!nVars
<1>1. stage = "read" /\ stage' = "read" /\ host' = host BY DEF ReadPatch, sVars
<1>2. CodeLines = {} /\ CodeLines' = {} /\ CodeAt = {} /\ CodeAt' = {}
  BY <1>1 DEF CodeLines, CodeAt, Kept
<1>3. ShownAt = {} /\ ShownAt' = {} BY <1>2 DEF ShownAt
<1>4. Whole /\ Whole' BY <1>1 DEF CInv, Pending, Whole
<1>5. QED BY <1>1, <1>2, <1>3, <1>4 DEF Net!nVars, NetState, DepsAt, FoundAt

(* Every step is one of the net or hidden.                                 *)
LEMMA StepRefines ==
  ASSUME CInv, CInv', [CNext]_cVars
  PROVE  [Net!NNext]_(Net!nVars)
<1>1. CASE ReadPatch BY <1>1, ReadRefines
<1>2. CASE \E h \in Parsers, T \in FileTraits, beyond \in Beyond : Filter(h, T, beyond)
  BY <1>2, FilterRefines DEF Net!NNext
<1>3. CASE Persist BY <1>3, PersistRefines DEF Net!NNext
<1>4. CASE StageRaises BY <1>4, RaiseRefines DEF Net!NNext
<1>5. CASE Context \/ MergeNext \/ Merged \/ Secrets \/ Gitleaks \/ Fetch \/ Semgrep \/ Bandit \/ Sca
  <2>1. /\ stage \in Stages \ {"read", "done", "raised"}
        /\ stage' \in Stages \ {"read", "done", "raised"}
        /\ UNCHANGED pVars /\ UNCHANGED <<host, traits>>
    BY <1>5 DEF Context, MergeNext, Merged, Secrets, Gitleaks, Fetch, Semgrep, Bandit, Sca, RunTool, Go, Stages
  <2>2. QED BY <2>1, WorkIsHidden
<1>6. CASE UNCHANGED cVars
  <2>1. CodeAt' = CodeAt /\ CodeLines' = CodeLines /\ Texts' = Texts /\ Queries' = Queries
    BY <1>6 DEF cVars, pVars, sVars, CodeAt, CodeLines, Kept, Texts, TextsOf, Queries, FindingsOn,
                AddedLines, IsAdded
  <2>2. ShownAt' = ShownAt BY <1>6, <2>1 DEF cVars, pVars, sVars, ShownAt, TextsOf
  <2>3. QED BY <1>6, <2>1, <2>2 DEF cVars, pVars, sVars, Net!nVars, NetState, DepsAt, FoundAt, Whole
<1>7. QED BY <1>1, <1>2, <1>3, <1>4, <1>5, <1>6 DEF CNext

(* The stage implements SafetyNet: of a patch whose lines the parser shows whole           *)
(* ScanPipeline may take a stage that ends to have found every certain finding and nothing  *)
(* off the diff; of one that GitLab's parser tears, of all that it shows as added; or the    *)
(* stage has raised.                                                         *)
THEOREM NetRefinement == CSpec => ImplementsSafetyNet
<1>1. CInit => Net!NInit BY InitRefines
<1>2. CInv /\ CInv' /\ [CNext]_cVars => [Net!NNext]_(Net!nVars) BY StepRefines
<1>3. QED BY <1>1, <1>2, CInvariant, PTL DEF CSpec, Net!NSpec, ImplementsSafetyNet

-----------------------------------------------------------------------------
(* From a line after a marker to the end of the file, all lines are added.          *)
TailIsAdded ==
  \A i \in 1 .. Len(patch) :
    (patch[i].kind = "add" /\ AfterMarker(i)) =>
      \A m \in patch[i].new .. file.new - 1 :
        \E j \in 1 .. Len(patch) : patch[j].kind = "add" /\ patch[j].new = m

(* The hunk with the marker is the end of the file.                             *)
EndsThere == (stage # "read" /\ file.ended # "no") => fileLen = file.new - 1

Contract == TailIsAdded /\ EndsThere /\ ChangedLinesContract

(* A separator is no raw line.                                               *)
LEMMA TearIsNoRead ==
  ASSUME PInv, NEW r \in Raw, Read(r), NEW looks \in Looks, NEW n \in Named, Tear(looks, n)
  PROVE  FALSE
<1>1. Len(patch') = Len(patch) + 1 /\ Len(patch) \in Nat BY ReadKeeps DEF PInv, PTypeOK
<1>2. patch' = patch BY DEF Tear
<1>3. QED BY <1>1, <1>2

(* A raw line keeps that only added lines come after a marker.               *)
LEMMA TailRead ==
  ASSUME PInv, TailIsAdded, PNext, NEW r \in Raw, Read(r)
  PROVE  TailIsAdded'
<1> SUFFICES ASSUME NEW i \in 1 .. Len(patch'), patch'[i].kind = "add", AfterMarker(i)',
                    NEW m \in patch'[i].new .. file'.new - 1
             PROVE  \E j \in 1 .. Len(patch') : patch'[j].kind = "add" /\ patch'[j].new = m
  BY DEF TailIsAdded
<1>1. Read(r) /\ ~ \E looks \in Looks, n \in Named : Tear(looks, n) BY TearIsNoRead
<1>2. /\ Len(patch) \in Nat /\ Len(patch') = Len(patch) + 1
      /\ \A k \in 1 .. Len(patch) : patch'[k] = patch[k]
      /\ patch'[Len(patch')] = r
  BY <1>1, ReadKeeps DEF PInv, PTypeOK
<1>3. CASE r.kind = "eof"
  <2>1. file'.new = file.new
    <3>1. ASSUME NEW gap \in Gaps, Header(gap) PROVE FALSE
      <4>1. patch' = Append(patch, [kind |-> "hunk", old |-> file.old + gap, new |-> file.new + gap, torn |-> FALSE])
        BY <3>1 DEF Header, Read
      <4>2. patch'[Len(patch')].kind = "hunk" BY <1>2, <4>1 DEF PInv, PTypeOK
      <4>3. QED BY <1>2, <1>3, <4>2
    <3>2. ASSUME NEW kind \in LineKinds, Line(kind) PROVE FALSE
      <4>1. patch' = Append(patch, [kind |-> kind, old |-> file.old, new |-> file.new, torn |-> file.torn])
        BY <3>2 DEF Line, Read
      <4>2. patch'[Len(patch')].kind = kind /\ kind # "eof" BY <1>2, <4>1 DEF PInv, PTypeOK, LineKinds
      <4>3. QED BY <1>2, <1>3, <4>2
    <3>3. NoNewline BY <1>1, <3>1, <3>2 DEF PNext
    <3>4. QED BY <3>3 DEF NoNewline
  <2>2. i \in 1 .. Len(patch)
    BY <1>2, <1>3
  <2>3. \E k \in 1 .. i : patch[k].kind = "eof"
    <3>1. PICK k \in 1 .. i : patch'[k].kind = "eof" BY DEF AfterMarker
    <3>2. k \in 1 .. Len(patch) BY <2>2
    <3>3. QED BY <1>2, <3>1, <3>2
  <2>4. PICK j \in 1 .. Len(patch) : patch[j].kind = "add" /\ patch[j].new = m
    BY <1>2, <2>1, <2>2, <2>3 DEF TailIsAdded, AfterMarker
  <2>5. QED BY <1>2, <2>4
<1>4. CASE r.kind # "eof"
  <2>1. HasMarker
    <3>1. HasMarker' BY DEF AfterMarker, HasMarker
    <3>2. QED BY <1>1, <1>4, <3>1, MarkerRead
  <2>2. Line("add") /\ r.kind = "add" /\ r.new = file.new /\ file'.new = file.new + 1
    <3>1. file.ended # "no" BY <2>1 DEF PInv, Counting
    <3>2. ~ NoNewline BY <1>1, <1>2, <1>4 DEF NoNewline, Read
    <3>3. Line("add") BY <1>1, <3>1, <3>2 DEF PNext, Header, Line
    <3>4. patch' = Append(patch, [kind |-> "add", old |-> file.old, new |-> file.new, torn |-> file.torn])
      BY <3>3 DEF Line, Read
    <3>5. QED BY <1>2, <3>3, <3>4 DEF Line, PInv, PTypeOK
  <2>3. CASE m = file.new
    <3>1. Len(patch') \in 1 .. Len(patch') BY <1>2
    <3>2. patch'[Len(patch')].kind = "add" /\ patch'[Len(patch')].new = m BY <1>2, <2>2, <2>3
    <3>3. QED BY <3>1, <3>2
  <2>4. CASE m # file.new
    <3>1. m \in patch'[i].new .. file.new - 1
      BY <2>2, <2>4 DEF PInv, PTypeOK
    <3>2. i # Len(patch')
      BY <1>2, <2>2, <3>1 DEF PInv, PTypeOK
    <3>3. i \in 1 .. Len(patch) BY <1>2, <3>2
    <3>4. AfterMarker(i)
      <4>1. PICK k \in 1 .. i : patch'[k].kind = "eof" BY DEF AfterMarker
      <4>2. k \in 1 .. Len(patch) BY <3>3
      <4>3. QED BY <1>2, <4>1, <4>2 DEF AfterMarker
    <3>5. PICK j \in 1 .. Len(patch) : patch[j].kind = "add" /\ patch[j].new = m
      BY <1>2, <3>1, <3>3, <3>4 DEF TailIsAdded
    <3>6. QED BY <1>2, <3>5
  <2>5. QED BY <2>3, <2>4
<1>5. QED BY <1>3, <1>4

(* Nor does a separator change it.                                           *)
LEMMA TailStep ==
  ASSUME PInv, TailIsAdded, PNext
  PROVE  TailIsAdded'
<1>1. CASE \E r \in Raw : Read(r) BY <1>1, TailRead
<1>2. ASSUME NEW gap \in Gaps, Header(gap) PROVE \E r \in Raw : Read(r)
  <2>1. [kind |-> "hunk", old |-> file.old + gap, new |-> file.new + gap, torn |-> FALSE] \in Raw
    BY ParserAssumption DEF Raw, RawKinds, PInv, PTypeOK
  <2>2. QED BY <1>2, <2>1 DEF Header
<1>3. ASSUME NEW kind \in LineKinds, Line(kind) PROVE \E r \in Raw : Read(r)
  BY <1>3 DEF Line, LineKinds, Raw, RawKinds, PInv, PTypeOK
<1>4. ASSUME NoNewline PROVE \E r \in Raw : Read(r)
  BY <1>4 DEF NoNewline, Raw, RawKinds, PInv, PTypeOK
<1>5. ASSUME NEW looks \in Looks, NEW n \in Named, Tear(looks, n) PROVE TailIsAdded'
  <2>1. patch' = patch /\ file'.new = file.new BY <1>5 DEF Tear, PInv, PTypeOK
  <2>2. QED BY <2>1 DEF TailIsAdded, AfterMarker
<1>6. QED BY <1>1, <1>2, <1>3, <1>4, <1>5 DEF PNext

(* A line of the file that has the number of an added line of the parser is an added   *)
(* line, whether or not it is that one.                                        *)
LEMMA NumberIsAdded ==
  ASSUME CInv, Contract, stage # "read", Whole, NEW n \in 1 .. fileLen, WithNumber(n) # {}
  PROVE  \E i \in 1 .. Len(patch) : IsAdded(i) /\ patch[i].new = n
<1>1. PICK ln \in CodeLines : ln.new = n BY DEF WithNumber
<1>2. host \in Parsers /\ ln \in AddedLines(host)
  BY <1>1 DEF CInv, CTypeOK, CodeLines
<1>3. PICK k \in 1 .. Len(parsed[host].lines) : ln = parsed[host].lines[k] /\ ln.kind = "add"
  BY <1>2 DEF AddedLines
<1> DEFINE i == ln.at[1]
<1>4. IsAdded(i) /\ n = patch[i].new + (IF host = "gitlab" /\ AfterMarker(i) THEN 1 ELSE 0)
  <2>1. ln.at[2] = 0
    <3>1. ln.at \in ShownAt /\ ShownAt \subseteq Texts BY CodeLinesAt
    <3>2. CASE host = "unified" BY <1>2, <1>3, <3>2 DEF CInv, PInv, NumberingIsRight
    <3>3. QED BY <3>1, <3>2, WholeTexts
  <2>2. IsAdded(i) BY <1>1, <1>2, <1>3, <2>1 DEF CInv, PInv, NumberingIsRight
  <2>3. host = "unified" \/ ~ patch[i].torn BY <2>2 DEF Whole, IsAdded, CInv, PInv, Counting
  <2>4. QED BY <1>1, <1>2, <1>3, <2>1, <2>2, <2>3 DEF CInv, PInv, NumberingIsRight
<1> HIDE DEF i
<1>5. i \in 1 .. Len(patch) /\ patch[i].kind = "add" /\ patch[i] \in Raw
  BY <1>4 DEF IsAdded, CInv, PInv, PTypeOK
<1>6. CASE ~ AfterMarker(i)
  BY <1>4, <1>5, <1>6 DEF Raw
<1>7. CASE AfterMarker(i)
  <2>1. file.ended # "no"
    <3>1. HasMarker BY <1>5, <1>7 DEF AfterMarker, HasMarker, CInv, PInv, PTypeOK
    <3>2. QED BY <3>1 DEF CInv, PInv, Counting
  <2>2. fileLen = file.new - 1 BY <2>1 DEF Contract, EndsThere
  <2>3. n \in patch[i].new .. file.new - 1
    BY <1>4, <1>5, <2>2 DEF Raw, CInv, PInv, PTypeOK
  <2>4. PICK j \in 1 .. Len(patch) : patch[j].kind = "add" /\ patch[j].new = n
    BY <1>5, <1>7, <2>3 DEF Contract, TailIsAdded
  <2>5. QED BY <2>4 DEF IsAdded
<1>8. QED BY <1>6, <1>7

(* No step reports a line that was not added.                              *)
LEMMA ContractStep ==
  ASSUME CInv, Contract, [CNext]_cVars
  PROVE  Contract'
<1>1. CASE ReadPatch
  <2>1. TailIsAdded' BY <1>1, TailStep DEF ReadPatch, CInv, Contract
  <2>2. stage' = "read" /\ found' = {}
    BY <1>1 DEF ReadPatch, sVars, CInv, NothingYet, AfterSecrets
  <2>3. QED BY <2>1, <2>2 DEF Contract, EndsThere, ChangedLinesContract
<1>2. CASE \E h \in Parsers, T \in FileTraits, beyond \in Beyond : Filter(h, T, beyond)
  <2>1. TailIsAdded' BY <1>2 DEF Filter, pVars, Contract, TailIsAdded, AfterMarker
  <2>2. EndsThere'
    <3>1. PICK h \in Parsers, T \in FileTraits, beyond \in Beyond : Filter(h, T, beyond) BY <1>2
    <3>2. beyond \in Nat \X Nat BY LinesAssumption
    <3>3. file.ended # "no" => beyond[1] = 0 BY <3>1, <3>2 DEF Filter
    <3>4. QED BY <3>1, <3>3 DEF Filter, pVars, EndsThere, CInv, PInv, PTypeOK
  <2>3. found' = {} BY <1>2 DEF Filter, CInv, NothingYet, AfterSecrets
  <2>4. QED BY <2>1, <2>2, <2>3 DEF Contract, ChangedLinesContract
<1>3. CASE UNCHANGED pVars /\ UNCHANGED <<host, fileLen>> /\ stage # "read" /\ found' \subseteq found
  BY <1>3 DEF pVars, Contract, TailIsAdded, AfterMarker, EndsThere, ChangedLinesContract, IsAdded, Whole
<1>4. ASSUME UNCHANGED pVars, UNCHANGED <<host, fileLen>>, stage # "read",
             \A f \in found' \ found : f.tool \in {"semgrep", "bandit"} =>
               f.line \in 1 .. fileLen /\ WithNumber(f.line) # {}
      PROVE  Contract'
  <2>1. TailIsAdded' /\ EndsThere'
    BY <1>4 DEF pVars, Contract, TailIsAdded, AfterMarker, EndsThere
  <2>2. ASSUME NEW f \in found', f.tool \in {"semgrep", "bandit"}, Whole
        PROVE  \E i \in 1 .. Len(patch) : IsAdded(i) /\ patch[i].new = f.line
    BY <1>4, <2>2, NumberIsAdded DEF Contract, ChangedLinesContract
  <2>3. QED BY <1>4, <2>1, <2>2 DEF Contract, ChangedLinesContract, pVars, IsAdded, Whole
<1>5. CASE Context \/ MergeNext \/ Merged \/ Fetch \/ Persist \/ StageRaises
  BY <1>3, <1>5 DEF Context, MergeNext, Merged, Fetch, Persist, StageRaises, Go
<1>6. CASE Secrets
  BY <1>4, <1>6 DEF Secrets, Go, FindingsOn
<1>7. CASE Gitleaks
  BY <1>4, <1>7 DEF Gitleaks, RunTool, Go, FindingsOn
<1>8. CASE Semgrep \/ Bandit
  <2>1. \A tool : \A f \in OnAddedLines(tool) : f.line \in 1 .. fileLen /\ WithNumber(f.line) # {}
    BY DEF OnAddedLines
  <2>2. QED BY <1>4, <1>8, <2>1 DEF Semgrep, Bandit, RunTool, Go
<1>9. CASE Sca
  <2>1. stage = "sca" BY <1>9 DEF Sca
  <2>2. \A f \in found' \ found : f.tool = "sca" BY <1>9, <2>1, QueriesAt DEF Sca
  <2>3. QED BY <1>4, <1>9, <2>2 DEF Sca, Go
<1>10. CASE UNCHANGED cVars
  BY <1>10 DEF cVars, pVars, sVars, Contract, TailIsAdded, AfterMarker, EndsThere, ChangedLinesContract,
               IsAdded, Whole
<1>11. QED BY <1>1, <1>2, <1>5, <1>6, <1>7, <1>8, <1>9, <1>10 DEF CNext

(* The changed-lines contract, for files and patches of any size: as long as no line has  *)
(* a separator it holds with GitLab too, whose numbers are wrong after a marker, for    *)
(* the lines there are all added.                                            *)
THEOREM ContractHolds == CSpec => []ChangedLinesContract
<1>1. CInit => Contract
  BY DEF CInit, PInit, Contract, TailIsAdded, EndsThere, ChangedLinesContract
<1>2. CInv /\ Contract /\ [CNext]_cVars => Contract' BY ContractStep
<1>3. Contract => ChangedLinesContract BY DEF Contract
<1>4. QED BY <1>1, <1>2, <1>3, CInvariant, PTL DEF CSpec

-----------------------------------------------------------------------------
(* The hunks of the unified parser and the added lines.                       *)

InHunk(h, n) ==
  LET hunk == parsed["unified"].hunks[h]
  IN  n \in hunk.new_start .. hunk.new_start + hunk.new_count - 1

HunksStart == patch # <<>> => parsed["unified"].hunks # <<>>

(* The last hunk of the unified parser ends where its counter is: that is what puts     *)
(* the next added line into it.                                              *)
LastHunkEnds ==
  LET hunks == parsed["unified"].hunks
  IN  patch # <<>> =>
        parsed["unified"].new = hunks[Len(hunks)].new_start + hunks[Len(hunks)].new_count

AddedInHunks ==
  \A i \in 1 .. Len(patch) :
    patch[i].kind = "add" => \E h \in 1 .. Len(parsed["unified"].hunks) : InHunk(h, patch[i].new)

HunksOK == HunksStart /\ LastHunkEnds /\ AddedInHunks

(* A line leaves the hunks before the last one alone, and the last one grows with the     *)
(* counter.                                                                  *)
LEMMA LineHunks ==
  ASSUME NEW p \in Parsers, NEW s \in Parsed, NEW r \in Raw, NEW at, r.kind # "hunk", s.hunks # <<>>,
         NEW up \in {0, 1}, up = (IF p = "unified" /\ r.kind \in {"add", "ctx"} THEN 1 ELSE 0)
  PROVE  /\ Len(ParseLine(p, s, r, at).hunks) = Len(s.hunks)
         /\ \A h \in 1 .. Len(s.hunks) :
              /\ ParseLine(p, s, r, at).hunks[h].new_start = s.hunks[h].new_start
              /\ ParseLine(p, s, r, at).hunks[h].new_count =
                   s.hunks[h].new_count + (IF h = Len(s.hunks) THEN up ELSE 0)
         /\ p = "unified" => ParseLine(p, s, r, at).new = s.new + up
<1> DEFINE hs == [s.hunks EXCEPT ![Len(s.hunks)].new_count = @ + 1]
           m  == Len(s.hunks)
<1>1. s.hunks \in Seq(Hunk) /\ m \in 1 .. m BY DEF Parsed
<1>2. \A h \in 1 .. m : s.hunks[h] \in Hunk BY <1>1
<1>3. ParseLine(p, s, r, at).hunks = IF up = 1 THEN hs ELSE s.hunks
  BY DEF ParseLine, Numbered, Raw, RawKinds
<1>4. p = "unified" => ParseLine(p, s, r, at).new = s.new + up
  BY DEF ParseLine, Numbered, Raw, RawKinds, Parsed
<1>5. /\ Len(hs) = m
      /\ \A h \in 1 .. m : hs[h] = IF h = m THEN [s.hunks[m] EXCEPT !.new_count = @ + 1] ELSE s.hunks[h]
  BY <1>1
<1>6. \A h \in 1 .. m :
        /\ hs[h].new_start = s.hunks[h].new_start
        /\ hs[h].new_count = s.hunks[h].new_count + (IF h = m THEN 1 ELSE 0)
  <2> SUFFICES ASSUME NEW h \in 1 .. m
               PROVE  /\ hs[h].new_start = s.hunks[h].new_start
                      /\ hs[h].new_count = s.hunks[h].new_count + (IF h = m THEN 1 ELSE 0)
    OBVIOUS
  <2> HIDE DEF hs
  <2>1. CASE h = m BY <1>1, <1>2, <1>5, <2>1 DEF Hunk
  <2>2. CASE h # m BY <1>1, <1>2, <1>5, <2>2 DEF Hunk
  <2>3. QED BY <2>1, <2>2
<1>7. \A h \in 1 .. m : s.hunks[h].new_count \in Nat BY <1>2 DEF Hunk
<1> HIDE DEF hs
<1>8. CASE up = 1 BY <1>1, <1>3, <1>4, <1>5, <1>6, <1>7, <1>8
<1>9. CASE up = 0 BY <1>1, <1>3, <1>4, <1>7, <1>9
<1>10. QED BY <1>8, <1>9

(* A header starts a hunk at the line that it names.                               *)
LEMMA HeaderHunks ==
  ASSUME PInv, HunksOK, NEW gap \in Gaps, Header(gap)
  PROVE  HunksOK'
<1> DEFINE r == [kind |-> "hunk", old |-> file.old + gap, new |-> file.new + gap, torn |-> FALSE]
<1>1. r \in Raw /\ Read(r) /\ r.kind = "hunk" /\ r.new \in Nat /\ r.new >= 1
  BY ParserAssumption DEF Header, Raw, RawKinds, PInv, PTypeOK
<1> HIDE DEF r
<1> DEFINE new == [new_start |-> r.new, new_count |-> 0]
<1>2. new \in Hunk /\ new.new_start = r.new /\ new.new_count = 0 BY <1>1 DEF Hunk
<1>3. /\ parsed["unified"].hunks \in Seq(Hunk)
      /\ parsed'["unified"].hunks = Append(parsed["unified"].hunks, new)
      /\ parsed'["unified"].new = r.new
  BY <1>1 DEF Read, Parse, ParseHeader, PInv, PTypeOK, Parsed, Parsers
<1> HIDE DEF new
<1>4. /\ Len(parsed["unified"].hunks) \in Nat
      /\ Len(parsed'["unified"].hunks) = Len(parsed["unified"].hunks) + 1
      /\ parsed'["unified"].hunks[Len(parsed["unified"].hunks) + 1] = new
      /\ \A h \in 1 .. Len(parsed["unified"].hunks) :
           parsed'["unified"].hunks[h] = parsed["unified"].hunks[h]
  <2>1. PICK hs \in Seq(Hunk) : hs = parsed["unified"].hunks BY <1>3
  <2>2. QED BY <1>2, <1>3, <2>1
<1>5. HunksStart'
  <2>1. Len(parsed'["unified"].hunks) # 0 BY <1>4
  <2>2. QED BY <2>1 DEF HunksStart
<1>6. LastHunkEnds'
  <2>1. PICK n \in Nat : n = Len(parsed["unified"].hunks) BY <1>4
  <2>2. Len(parsed'["unified"].hunks) = n + 1 /\ parsed'["unified"].hunks[n + 1] = new BY <1>4, <2>1
  <2>3. parsed'["unified"].new = new.new_start + new.new_count BY <1>1, <1>2, <1>3
  <2>4. QED BY <2>2, <2>3 DEF LastHunkEnds
<1>7. AddedInHunks'
  <2> SUFFICES ASSUME NEW i \in 1 .. Len(patch'), patch'[i].kind = "add"
               PROVE  \E h \in 1 .. Len(parsed'["unified"].hunks) : InHunk(h, patch[i].new)'
    BY DEF AddedInHunks
  <2>1. i \in 1 .. Len(patch) /\ patch'[i] = patch[i]
    <3>1. /\ Len(patch) \in Nat /\ Len(patch') = Len(patch) + 1 /\ patch'[Len(patch) + 1] = r
          /\ \A k \in 1 .. Len(patch) : patch'[k] = patch[k]
      <4>1. patch \in Seq(Raw) BY DEF PInv, PTypeOK
      <4>2. QED BY <1>1, <4>1, ReadKeeps
    <3>2. QED BY <1>1, <3>1
  <2>2. PICK h \in 1 .. Len(parsed["unified"].hunks) : InHunk(h, patch[i].new)
    BY <2>1 DEF HunksOK, AddedInHunks
  <2>3. h \in 1 .. Len(parsed'["unified"].hunks) /\ parsed'["unified"].hunks[h] = parsed["unified"].hunks[h]
    BY <1>4
  <2>4. QED BY <2>1, <2>2, <2>3 DEF InHunk
<1>8. QED BY <1>5, <1>6, <1>7 DEF HunksOK

(* A line of the new file makes the last hunk of the unified parser longer by itself.     *)
LEMMA LineInHunks ==
  ASSUME PInv, HunksOK, NEW r \in Raw, Read(r), r.kind # "hunk", patch # <<>>,
         r.kind = "add" => r.new = file.new /\ file.ended # "both"
  PROVE  HunksOK'
<1>1. PICK up \in {0, 1} : up = (IF r.kind \in {"add", "ctx"} THEN 1 ELSE 0) OBVIOUS
<1> DEFINE s == parsed["unified"]
           at == <<Len(patch) + 1, 0>>
<1>2. /\ s \in Parsed /\ s.hunks # <<>>
      /\ s.hunks \in Seq(Hunk) /\ Len(s.hunks) \in 1 .. Len(s.hunks)
      /\ parsed'["unified"] = ParseLine("unified", s, r, at)
  <2>1. s \in Parsed /\ s.hunks # <<>>
    BY DEF PInv, PTypeOK, HunksOK, HunksStart, Parsers
  <2>2. parsed'["unified"] = ParseLine("unified", s, r, at) BY DEF Read, Parse, Parsers
  <2>3. QED BY <2>1, <2>2 DEF Parsed
<1>3. /\ Len(ParseLine("unified", s, r, at).hunks) = Len(s.hunks)
      /\ \A h \in 1 .. Len(s.hunks) :
           /\ ParseLine("unified", s, r, at).hunks[h].new_start = s.hunks[h].new_start
           /\ ParseLine("unified", s, r, at).hunks[h].new_count =
                s.hunks[h].new_count + (IF h = Len(s.hunks) THEN up ELSE 0)
      /\ ParseLine("unified", s, r, at).new = s.new + up
  <2> DEFINE p == "unified"
  <2>1. up = (IF p = "unified" /\ r.kind \in {"add", "ctx"} THEN 1 ELSE 0) /\ p \in Parsers
    BY <1>1 DEF Parsers
  <2>2. p = "unified" OBVIOUS
  <2> HIDE DEF p, s, at
  <2>3. QED BY <1>2, <2>1, <2>2, LineHunks
<1>4. "unified" \in Parsers BY DEF Parsers
<1>5. PICK m \in Nat : m = Len(parsed["unified"].hunks) BY <1>2
<1>6. /\ \A h \in 1 .. m : /\ parsed'["unified"].hunks[h].new_start = parsed["unified"].hunks[h].new_start
                           /\ parsed'["unified"].hunks[h].new_count =
                                parsed["unified"].hunks[h].new_count + (IF h = m THEN up ELSE 0)
      /\ parsed'["unified"].new = parsed["unified"].new + up
      /\ Len(parsed'["unified"].hunks) = m
  BY <1>2, <1>3, <1>5
<1> HIDE DEF s, at
<1>7. \A h \in 1 .. m : /\ parsed["unified"].hunks[h].new_start \in Nat
                        /\ parsed["unified"].hunks[h].new_count \in Nat
  <2>1. \A h \in 1 .. m : parsed["unified"].hunks[h] \in Hunk BY <1>2, <1>5 DEF s
  <2>2. QED BY <2>1 DEF Hunk
<1>8. m \in 1 .. m /\ Len(parsed'["unified"].hunks) = m /\ parsed["unified"].new \in Nat
  BY <1>2, <1>5, <1>6 DEF Parsed, s
<1>9. HunksStart'
  <2>1. Len(parsed'["unified"].hunks) # 0 BY <1>8
  <2>2. QED BY <2>1 DEF HunksStart
<1>10. parsed["unified"].new = parsed["unified"].hunks[m].new_start + parsed["unified"].hunks[m].new_count
  BY <1>5 DEF HunksOK, LastHunkEnds
<1>11. /\ parsed'["unified"].hunks[m].new_start = parsed["unified"].hunks[m].new_start
      /\ parsed'["unified"].hunks[m].new_count = parsed["unified"].hunks[m].new_count + up
  BY <1>6, <1>8
<1>12. PICK start \in Nat, count \in Nat :
         /\ start = parsed["unified"].hunks[m].new_start /\ count = parsed["unified"].hunks[m].new_count
  BY <1>7, <1>8
<1>13. /\ parsed'["unified"].hunks[m].new_start = start /\ parsed'["unified"].hunks[m].new_count = count + up
       /\ parsed["unified"].new = start + count /\ parsed'["unified"].new = start + count + up
  BY <1>6, <1>10, <1>11, <1>12
<1>14. LastHunkEnds'
  <2>1. parsed'["unified"].new = parsed'["unified"].hunks[m].new_start + parsed'["unified"].hunks[m].new_count
    BY <1>13
  <2>2. QED BY <1>8, <2>1 DEF LastHunkEnds
<1>15. AddedInHunks'
  <2> SUFFICES ASSUME NEW i \in 1 .. Len(patch'), patch'[i].kind = "add"
               PROVE  \E h \in 1 .. Len(parsed'["unified"].hunks) : InHunk(h, patch[i].new)'
    BY DEF AddedInHunks
  <2>1. CASE i \in 1 .. Len(patch)
    <3>1. patch'[i] = patch[i] BY <2>1, ReadKeeps
    <3>2. PICK h \in 1 .. m : InHunk(h, patch[i].new)
      BY <1>5, <2>1, <3>1 DEF HunksOK, AddedInHunks
    <3>3. /\ parsed'["unified"].hunks[h].new_start = parsed["unified"].hunks[h].new_start
          /\ parsed'["unified"].hunks[h].new_count >= parsed["unified"].hunks[h].new_count
          /\ parsed'["unified"].hunks[h].new_count \in Nat
      <4>1. parsed'["unified"].hunks[h].new_start = parsed["unified"].hunks[h].new_start
        BY <1>6
      <4>2. PICK b \in Nat : b = parsed["unified"].hunks[h].new_count BY <1>7
      <4>3. PICK u \in {0, 1} : u = (IF h = m THEN up ELSE 0) OBVIOUS
      <4>4. parsed'["unified"].hunks[h].new_count = b + u BY <1>6, <4>2, <4>3
      <4>5. b + u >= b /\ b + u \in Nat OBVIOUS
      <4>6. QED BY <4>1, <4>2, <4>4, <4>5
    <3>4. PICK a \in Nat, b \in Nat, c \in Nat :
            /\ a = parsed["unified"].hunks[h].new_start /\ b = parsed["unified"].hunks[h].new_count
            /\ c = parsed'["unified"].hunks[h].new_count
      BY <1>7, <3>3
    <3>5. patch'[i].new \in a .. a + c - 1
      <4>1. patch[i].new \in a .. a + b - 1 BY <3>2, <3>4 DEF InHunk
      <4>2. c >= b BY <3>3, <3>4
      <4>3. patch[i].new \in a .. a + c - 1 BY <4>1, <4>2
      <4>4. QED BY <3>1, <4>3
    <3>6. InHunk(h, patch[i].new)' BY <3>3, <3>4, <3>5 DEF InHunk
    <3>7. QED BY <1>8, <3>6
  <2>2. CASE i \notin 1 .. Len(patch)
    <3>1. patch'[i] = r /\ r.kind = "add"
      <4>1. i = Len(patch) + 1 BY <2>2, ReadKeeps DEF PInv, PTypeOK
      <4>2. QED BY <4>1, ReadKeeps
    <3>2. up = 1 BY <1>1, <3>1
    <3>3. r.new = parsed["unified"].new
      BY <1>4, <3>1 DEF PInv, PTypeOK, Counting, Shift, Parsers
    <3>4. patch'[i].new = start + count BY <1>13, <3>1, <3>3
    <3>5. start + count \in start .. start + (count + up) - 1 BY <3>2
    <3>6. InHunk(m, patch[i].new)' BY <1>13, <3>4, <3>5 DEF InHunk
    <3>7. QED BY <1>8, <3>6
  <2>3. QED BY <2>1, <2>2
<1>16. QED BY <1>9, <1>14, <1>15 DEF HunksOK

(* So the hunks are right in every patch.                                      *)
LEMMA HunksStep ==
  ASSUME PInv, HunksOK, [PNext]_pVars
  PROVE  HunksOK'
<1>1. ASSUME NEW gap \in Gaps, Header(gap) PROVE HunksOK' BY <1>1, HeaderHunks
<1>2. ASSUME NEW kind \in LineKinds, Line(kind) PROVE HunksOK'
  <2> DEFINE r == [kind |-> kind, old |-> file.old, new |-> file.new, torn |-> file.torn]
  <2>1. r \in Raw /\ Read(r) /\ r.kind # "hunk" /\ r.new = file.new
    BY <1>2 DEF Line, LineKinds, Raw, RawKinds, PInv, PTypeOK
  <2>2. patch # <<>> /\ file.ended # "both" BY <1>2 DEF Line
  <2> HIDE DEF r
  <2>3. QED BY <2>1, <2>2, LineInHunks
<1>3. ASSUME NoNewline PROVE HunksOK'
  <2> DEFINE r == [kind |-> "eof", old |-> file.old, new |-> file.new, torn |-> file.torn]
  <2>1. r \in Raw /\ Read(r) /\ r.kind \notin {"hunk", "add"}
    BY <1>3 DEF NoNewline, Raw, RawKinds, PInv, PTypeOK
  <2>2. patch # <<>> BY <1>3 DEF NoNewline, LastKind
  <2> HIDE DEF r
  <2>3. QED BY <2>1, <2>2, LineInHunks
<1>4. ASSUME NEW looks \in Looks, NEW n \in Named, Tear(looks, n) PROVE HunksOK'
  <2>1. patch' = patch /\ parsed'["unified"] = parsed["unified"] BY <1>4, TearReads
  <2>2. QED BY <2>1 DEF HunksOK, HunksStart, LastHunkEnds, AddedInHunks, InHunk
<1>5. ASSUME UNCHANGED pVars PROVE HunksOK'
  BY <1>5 DEF pVars, HunksOK, HunksStart, LastHunkEnds, AddedInHunks, InHunk
<1>6. QED BY <1>1, <1>2, <1>3, <1>4, <1>5 DEF PNext

(* The lines after a marker in the middle of a hunk follow each other without a gap,    *)
(* and no line of the file at the head comes after it.                          *)
AddedBefore ==
  /\ \A i \in 1 .. Len(patch) : patch[i].kind = "add" => patch[i].new \in 1 .. file.new - 1
  /\ LastKind = "add" => patch[Len(patch)].new + 1 = file.new
  /\ (LastKind = "add" /\ patch[Len(patch)].torn) => file.torn

Follows(i) ==
  /\ i > 1
  /\ \/ patch[i - 1].kind = "eof"
     \/ /\ patch[i - 1].kind = "add" /\ patch[i].new = patch[i - 1].new + 1
        /\ patch[i - 1].torn => patch[i].torn

TailFollows ==
  \A i \in 1 .. Len(patch) : (patch[i].kind = "add" /\ AfterMarker(i)) => Follows(i)

AddedOK == AddedBefore /\ TailFollows

(* What an earlier line was stays so when another is read.                       *)
LEMMA AddedEarlier ==
  ASSUME PInv, AddedOK, NEW r \in Raw, Read(r), NEW i \in 1 .. Len(patch)
  PROVE  /\ patch'[i] = patch[i]
         /\ (patch'[i].kind = "add" /\ AfterMarker(i)') => Follows(i)'
<1>1. \A k \in 1 .. Len(patch) : patch'[k] = patch[k] BY ReadKeeps
<1>2. ASSUME patch'[i].kind = "add", AfterMarker(i)' PROVE Follows(i)'
  <2>1. AfterMarker(i)
    <3>1. PICK j \in 1 .. i : patch'[j].kind = "eof" BY <1>2 DEF AfterMarker
    <3>2. j \in 1 .. Len(patch) OBVIOUS
    <3>3. QED BY <1>1, <3>1, <3>2 DEF AfterMarker
  <2>2. Follows(i) BY <1>1, <1>2, <2>1 DEF AddedOK, TailFollows
  <2>3. i - 1 \in 1 .. Len(patch) BY <2>2 DEF Follows
  <2>4. QED BY <1>1, <2>2, <2>3 DEF Follows
<1>3. QED BY <1>1, <1>2

(* Any other line than an added one does not touch that.                       *)
LEMMA OtherRead ==
  ASSUME PInv, AddedOK, NEW r \in Raw, Read(r), r.kind # "add", file'.new \in Nat, file'.new >= file.new
  PROVE  AddedOK'
<1>1. /\ Len(patch) \in Nat /\ Len(patch') = Len(patch) + 1
      /\ patch'[Len(patch')] = r /\ patch' # <<>>
  BY ReadKeeps DEF PInv, PTypeOK
<1>2. \A i \in 1 .. Len(patch') : patch'[i].kind = "add" => i \in 1 .. Len(patch)
  BY <1>1
<1>3. AddedBefore'
  <2>1. LastKind' # "add" BY <1>1 DEF LastKind
  <2>2. ASSUME NEW i \in 1 .. Len(patch'), patch'[i].kind = "add"
        PROVE  patch'[i].new \in 1 .. file'.new - 1
    <3>1. i \in 1 .. Len(patch) /\ patch'[i] = patch[i] BY <1>2, <2>2, AddedEarlier
    <3>2. patch[i].new \in 1 .. file.new - 1 BY <2>2, <3>1 DEF AddedOK, AddedBefore
    <3>3. file.new \in Nat BY DEF PInv, PTypeOK
    <3>4. QED BY <3>1, <3>2, <3>3
  <2>3. QED BY <2>1, <2>2 DEF AddedBefore
<1>4. TailFollows' BY <1>2, AddedEarlier DEF TailFollows
<1>5. QED BY <1>3, <1>4 DEF AddedOK

(* An added line has the next number; after a marker it follows it or an added line.       *)
LEMMA AddRead ==
  ASSUME PInv, AddedOK, Line("add")
  PROVE  AddedOK'
<1> DEFINE r == [kind |-> "add", old |-> file.old, new |-> file.new, torn |-> file.torn]
<1>1. /\ r \in Raw /\ Read(r) /\ r.kind = "add" /\ r.new = file.new /\ file'.new = file.new + 1
      /\ r.torn = file.torn /\ file'.torn = file.torn
  BY DEF Line, Raw, RawKinds, PInv, PTypeOK
<1> HIDE DEF r
<1>2. PICK n \in Nat : n = Len(patch) BY DEF PInv, PTypeOK
<1>3. Len(patch') = n + 1 /\ patch'[n + 1] = r /\ patch # <<>> /\ patch' # <<>> /\ n > 0
  BY <1>1, <1>2, ReadKeeps DEF Line, PInv, PTypeOK
<1>4. file.new \in Nat /\ file.new >= 1 BY DEF PInv, PTypeOK
<1>5. AddedBefore'
  <2>1. ASSUME NEW i \in 1 .. Len(patch'), patch'[i].kind = "add"
        PROVE  patch'[i].new \in 1 .. file'.new - 1
    <3>1. CASE i = n + 1 BY <1>1, <1>3, <1>4, <3>1
    <3>2. CASE i # n + 1
      <4>1. i \in 1 .. Len(patch) BY <1>2, <1>3, <3>2
      <4>2. patch'[i] = patch[i] BY <1>1, <4>1, AddedEarlier
      <4>3. patch[i].new \in 1 .. file.new - 1 BY <2>1, <4>1, <4>2 DEF AddedOK, AddedBefore
      <4>4. QED BY <1>1, <1>4, <4>2, <4>3
    <3>3. QED BY <3>1, <3>2
  <2>2. patch'[Len(patch')].new + 1 = file'.new /\ patch'[Len(patch')].torn = file'.torn BY <1>1, <1>3
  <2>3. QED BY <2>1, <2>2 DEF AddedBefore
<1>6. TailFollows'
  <2> SUFFICES ASSUME NEW i \in 1 .. Len(patch'), patch'[i].kind = "add", AfterMarker(i)'
               PROVE  Follows(i)'
    BY DEF TailFollows
  <2>1. CASE i \in 1 .. Len(patch) BY <1>1, <2>1, AddedEarlier
  <2>2. CASE i \notin 1 .. Len(patch)
    <3>1. i = n + 1 BY <1>2, <1>3, <2>2
    <3>2. HasMarker'
      <4>1. PICK j \in 1 .. i : patch'[j].kind = "eof" BY DEF AfterMarker
      <4>2. QED BY <1>3, <3>1, <4>1 DEF HasMarker
    <3>3. HasMarker BY <1>1, <3>2, MarkerRead
    <3>4. file.ended = "old" BY <3>3 DEF PInv, Counting, Line
    <3>5. patch[n].kind \in {"eof", "add"}
      BY <1>2, <1>3, <3>4 DEF PInv, Counting, LastKind
    <3>6. patch'[n] = patch[n] BY <1>1, <1>2, <1>3, AddedEarlier
    <3>7. patch[n].kind = "add" => patch[n].new + 1 = file.new /\ (patch[n].torn => file.torn)
      BY <1>2, <1>3 DEF AddedOK, AddedBefore, LastKind
    <3>8. patch[n].kind = "add" =>
            patch'[n + 1].new = patch[n].new + 1 /\ (patch[n].torn => patch'[n + 1].torn)
      BY <1>1, <1>3, <3>7
    <3>9. i > 1 /\ i - 1 = n BY <1>3, <3>1
    <3>10. QED BY <3>1, <3>5, <3>6, <3>8, <3>9 DEF Follows
  <2>3. QED BY <2>1, <2>2
<1>7. QED BY <1>5, <1>6 DEF AddedOK

(* So the added lines are as described in every patch.                         *)
LEMMA AddedStep ==
  ASSUME PInv, AddedOK, [PNext]_pVars
  PROVE  AddedOK'
<1>1. ASSUME NEW gap \in Gaps, Header(gap) PROVE AddedOK'
  <2> DEFINE r == [kind |-> "hunk", old |-> file.old + gap, new |-> file.new + gap, torn |-> FALSE]
  <2>1. r \in Raw /\ Read(r) /\ r.kind # "add" /\ file'.new = file.new + gap /\ gap \in Nat
    BY <1>1, ParserAssumption DEF Header, Raw, RawKinds, PInv, PTypeOK
  <2> HIDE DEF r
  <2>2. file'.new \in Nat /\ file'.new >= file.new BY <2>1 DEF PInv, PTypeOK
  <2>3. QED BY <2>1, <2>2, OtherRead
<1>2. ASSUME NEW kind \in {"del", "ctx"}, Line(kind) PROVE AddedOK'
  <2> DEFINE r == [kind |-> kind, old |-> file.old, new |-> file.new, torn |-> file.torn]
  <2>1. r \in Raw /\ Read(r) /\ r.kind # "add"
    BY <1>2 DEF Line, LineKinds, Raw, RawKinds, PInv, PTypeOK
  <2> HIDE DEF r
  <2>2. file'.new \in Nat /\ file'.new >= file.new BY <1>2 DEF Line, PInv, PTypeOK
  <2>3. QED BY <2>1, <2>2, OtherRead
<1>3. ASSUME NoNewline PROVE AddedOK'
  <2> DEFINE r == [kind |-> "eof", old |-> file.old, new |-> file.new, torn |-> file.torn]
  <2>1. r \in Raw /\ Read(r) /\ r.kind # "add"
    BY <1>3 DEF NoNewline, Raw, RawKinds, PInv, PTypeOK
  <2> HIDE DEF r
  <2>2. file'.new \in Nat /\ file'.new >= file.new BY <1>3 DEF NoNewline, PInv, PTypeOK
  <2>3. QED BY <2>1, <2>2, OtherRead
<1>4. ASSUME NEW looks \in Looks, NEW n \in Named, Tear(looks, n) PROVE AddedOK'
  <2>1. patch' = patch /\ file'.new = file.new /\ file'.torn BY <1>4 DEF Tear, PInv, PTypeOK
  <2>2. QED BY <2>1 DEF AddedOK, AddedBefore, TailFollows, Follows, AfterMarker, LastKind
<1>5. ASSUME UNCHANGED pVars PROVE AddedOK'
  BY <1>5 DEF pVars, AddedOK, AddedBefore, TailFollows, Follows, AfterMarker, LastKind
<1>6. QED BY <1>1, <1>2, <1>3, <1>4, <1>5, AddRead DEF PNext, LineKinds

-----------------------------------------------------------------------------
(* The windows of the context.                                               *)

In(ws, n) == \E k \in 1 .. Len(ws) : n \in ws[k][1] .. ws[k][2]

Bounded(ws) == \A k \in 1 .. Len(ws) : 1 <= ws[k][1] /\ ws[k][2] <= textLen

Apart(ws) == \A k \in 1 .. Len(ws) - 1 : ws[k][2] + 1 < ws[k + 1][1]

HunksCovered ==
  (stage = "merge" \/ windows # <<>>) =>
    \A h \in (1 .. Len(parsed[host].hunks)) \ todo :
      \A n \in Window(h)[1] .. Window(h)[2] : In(windows, n)

(* The loop walks over sorted intervals: none of the rest starts before the last window.  *)
InOrder ==
  \A h \in todo : windows # <<>> => windows[Len(windows)][1] <= Window(h)[1]

FileIsLong == stage # "read" => fileLen >= file.new - 1 /\ textLen >= fileLen

MInv ==
  /\ HunksOK
  /\ AddedOK
  /\ FileIsLong
  /\ Bounded(windows)
  /\ Apart(windows)
  /\ HunksCovered
  /\ InOrder

(* One turn of the loop, for any windows: they stay in the file and apart, nothing that   *)
(* was covered is lost, and the new interval is covered.                        *)
LEMMA MergeWorks ==
  ASSUME NEW ws \in Seq(Nat \X Int), NEW v \in Nat \X Int, textLen \in Nat,
         Bounded(ws), Apart(ws), 1 <= v[1], v[2] <= textLen,
         ws # <<>> => ws[Len(ws)][1] <= v[1]
  PROVE  /\ Bounded(Merge(ws, v))
         /\ Apart(Merge(ws, v))
         /\ \A n \in Int : In(ws, n) \/ n \in v[1] .. v[2] => In(Merge(ws, v), n)
         /\ Merge(ws, v) # <<>> /\ Merge(ws, v)[Len(Merge(ws, v))][1] <= v[1]
<1>1. Merge(ws, v) \in Seq(Nat \X Int) BY MergeTyped
<1>2. PICK ms \in Seq(Nat \X Int) : ms = Merge(ws, v) BY <1>1, Zenon
<1>3. PICK m \in Nat : m = Len(ws) OBVIOUS
<1>4. \A k \in 1 .. m : ws[k][1] \in Nat /\ ws[k][2] \in Int BY <1>3
<1>5. v[1] \in Nat /\ v[2] \in Int OBVIOUS
<1>6. \A k \in 1 .. m - 1 : ms[k] = ws[k]
  <2>1. \A k \in 1 .. Len(ws) - 1 : Merge(ws, v)[k] = ws[k] BY MergeTyped, Zenon
  <2>2. QED BY <1>2, <1>3, <2>1
<1>7. CASE m > 0 /\ Len(ms) = m
           /\ v[1] <= ws[m][2] + 1 /\ ms[m] = <<ws[m][1], Greater(ws[m][2], v[2])>>
  <2>1. PICK a \in Nat, b \in Int, e \in Int : a = ws[m][1] /\ b = ws[m][2] /\ e = Greater(b, v[2])
    BY <1>4, <1>5, <1>7 DEF Greater
  <2>2. ms[m][1] = a /\ ms[m][2] = e /\ b <= e /\ v[2] <= e /\ (e = b \/ e = v[2])
    <3>1. ms[m] = <<a, e>> BY <1>7, <2>1
    <3>2. PICK d \in Int : d = v[2] BY <1>5
    <3>3. e = Greater(b, d) BY <2>1, <3>2
    <3>4. b <= e /\ d <= e /\ (e = b \/ e = d) BY <3>3 DEF Greater
    <3>5. QED BY <3>1, <3>2, <3>4
  <2>3. 1 <= a /\ b <= textLen /\ a <= v[1] /\ e <= textLen
    <3>1. m \in 1 .. Len(ws) /\ ws # <<>> BY <1>3, <1>7
    <3>2. 1 <= a /\ b <= textLen BY <2>1, <3>1 DEF Bounded
    <3>3. a <= v[1] BY <1>3, <2>1, <3>1
    <3>4. QED BY <2>2, <3>2, <3>3
  <2>4. Bounded(ms)
    <3> SUFFICES ASSUME NEW k \in 1 .. m PROVE 1 <= ms[k][1] /\ ms[k][2] <= textLen
      BY <1>7 DEF Bounded
    <3>1. CASE k = m BY <2>2, <2>3, <3>1
    <3>2. CASE k # m
      <4>1. k \in 1 .. m - 1 BY <3>2
      <4>2. QED BY <1>3, <1>6, <4>1 DEF Bounded
    <3>3. QED BY <3>1, <3>2
  <2>5. Apart(ms)
    <3> SUFFICES ASSUME NEW k \in 1 .. m - 1 PROVE ms[k][2] + 1 < ms[k + 1][1]
      BY <1>7 DEF Apart
    <3>1. ws[k][2] + 1 < ws[k + 1][1] /\ ms[k] = ws[k] BY <1>3, <1>6 DEF Apart
    <3>2. CASE k + 1 = m BY <2>1, <2>2, <3>1, <3>2
    <3>3. CASE k + 1 # m
      <4>1. k + 1 \in 1 .. m - 1 BY <3>3
      <4>2. QED BY <1>6, <3>1, <4>1
    <3>4. QED BY <3>2, <3>3
  <2>6. ASSUME NEW n \in Int, In(ws, n) \/ n \in v[1] .. v[2] PROVE In(ms, n)
    <3>1. CASE n \in a .. e
      <4>1. m \in 1 .. Len(ms) BY <1>7
      <4>2. n \in ms[m][1] .. ms[m][2] BY <2>2, <3>1
      <4>3. QED BY <4>1, <4>2 DEF In
    <3>2. CASE n \notin a .. e
      <4>1. n \notin v[1] .. v[2] BY <1>5, <2>2, <2>3, <3>2
      <4>2. PICK k \in 1 .. m : n \in ws[k][1] .. ws[k][2] BY <1>3, <2>6, <4>1 DEF In
      <4>3. k # m BY <2>1, <2>2, <3>2, <4>2
      <4>4. k \in 1 .. m - 1 BY <4>3
      <4>5. k \in 1 .. Len(ms) /\ n \in ms[k][1] .. ms[k][2] BY <1>6, <1>7, <4>2, <4>4
      <4>6. QED BY <4>5 DEF In
    <3>3. QED BY <3>1, <3>2
  <2>7. ms # <<>> /\ ms[Len(ms)][1] <= v[1] BY <1>7, <2>2, <2>3
  <2>8. QED BY <1>2, <2>4, <2>5, <2>6, <2>7
<1>8. CASE /\ m > 0 => ~ (v[1] <= ws[m][2] + 1) /\ ms[m] = ws[m]
           /\ Len(ms) = m + 1 /\ ms[m + 1] = v
  <2>1. \A k \in 1 .. m : ms[k] = ws[k]
    <3> SUFFICES ASSUME NEW k \in 1 .. m PROVE ms[k] = ws[k] OBVIOUS
    <3>1. CASE k = m BY <1>8, <3>1
    <3>2. CASE k # m
      <4>1. k \in 1 .. m - 1 BY <3>2
      <4>2. QED BY <1>6, <4>1
    <3>3. QED BY <3>1, <3>2
  <2>2. Bounded(ms)
    <3> SUFFICES ASSUME NEW k \in 1 .. m + 1 PROVE 1 <= ms[k][1] /\ ms[k][2] <= textLen
      BY <1>8 DEF Bounded
    <3>1. CASE k = m + 1 BY <1>8, <3>1
    <3>2. CASE k # m + 1
      <4>1. k \in 1 .. m BY <3>2
      <4>2. QED BY <1>3, <2>1, <4>1 DEF Bounded
    <3>3. QED BY <3>1, <3>2
  <2>3. Apart(ms)
    <3> SUFFICES ASSUME NEW k \in 1 .. m PROVE ms[k][2] + 1 < ms[k + 1][1]
      BY <1>8 DEF Apart
    <3>1. ms[k] = ws[k] BY <2>1
    <3>2. CASE k = m
      <4>1. PICK b \in Int : b = ws[m][2] BY <1>4, <3>2
      <4>2. b + 1 < v[1] BY <1>5, <1>8, <3>2, <4>1
      <4>3. QED BY <1>8, <3>1, <3>2, <4>1, <4>2
    <3>3. CASE k # m
      <4>1. k \in 1 .. m - 1 /\ k + 1 \in 1 .. m BY <3>3
      <4>2. ms[k + 1] = ws[k + 1] BY <2>1, <4>1
      <4>3. QED BY <1>3, <3>1, <4>1, <4>2 DEF Apart
    <3>4. QED BY <3>2, <3>3
  <2>4. ASSUME NEW n \in Int, In(ws, n) \/ n \in v[1] .. v[2] PROVE In(ms, n)
    <3>1. CASE n \in v[1] .. v[2]
      <4>1. m + 1 \in 1 .. Len(ms) /\ n \in ms[m + 1][1] .. ms[m + 1][2] BY <1>8, <3>1
      <4>2. QED BY <4>1 DEF In
    <3>2. CASE n \notin v[1] .. v[2]
      <4>1. PICK k \in 1 .. m : n \in ws[k][1] .. ws[k][2] BY <1>3, <2>4, <3>2 DEF In
      <4>2. ms[k] = ws[k] BY <2>1
      <4>3. Len(ms) = m + 1 BY <1>8
      <4>4. k \in 1 .. Len(ms) BY <4>3
      <4>5. QED BY <4>1, <4>2, <4>4 DEF In
    <3>3. QED BY <3>1, <3>2
  <2>5. ms # <<>> /\ ms[Len(ms)][1] <= v[1] BY <1>5, <1>8
  <2>6. QED BY <1>2, <2>2, <2>3, <2>4, <2>5
<1>9. QED
  <2>1. ws # <<>> <=> m > 0 BY <1>3
  <2>2. \/ /\ ws # <<>> /\ Touches(ws[m], v)
           /\ Len(ms) = m /\ ms[m] = <<ws[m][1], Greater(ws[m][2], v[2])>>
        \/ /\ ws = <<>> \/ ~ Touches(ws[m], v)
           /\ Len(ms) = m + 1 /\ ms[m + 1] = v
           /\ ws # <<>> => ms[m] = ws[m]
    <3>1. \/ /\ ws # <<>>
             /\ Touches(ws[Len(ws)], v)
             /\ Len(Merge(ws, v)) = Len(ws)
             /\ Merge(ws, v)[Len(ws)] = <<ws[Len(ws)][1], Greater(ws[Len(ws)][2], v[2])>>
          \/ /\ ws = <<>> \/ ~ Touches(ws[Len(ws)], v)
             /\ Len(Merge(ws, v)) = Len(ws) + 1
             /\ Merge(ws, v)[Len(ws) + 1] = v
             /\ ws # <<>> => Merge(ws, v)[Len(ws)] = ws[Len(ws)]
      BY MergeTyped, Zenon
    <3>2. QED BY <1>2, <1>3, <3>1
  <2>3. Touches(ws[m], v) <=> v[1] <= ws[m][2] + 1 BY DEF Touches
  <2>4. QED BY <1>7, <1>8, <2>1, <2>2, <2>3

(* The turn of the loop that takes a hunk.                                     *)
LEMMA MergeNextKeeps ==
  ASSUME CInv, MInv, MergeNext
  PROVE  MInv'
<1>1. PICK h \in todo : /\ \A g \in todo : ~ Before(Window(g), Window(h))
                       /\ windows' = Merge(windows, Window(h))
                       /\ todo' = todo \ {h}
  BY DEF MergeNext
<1>2. /\ UNCHANGED pVars /\ UNCHANGED <<stage, host, fileLen, textLen>> /\ stage = "merge"
      /\ windows \in Seq(Nat \X Int) /\ textLen \in Nat
      /\ todo \subseteq 1 .. Len(parsed[host].hunks)
  BY DEF MergeNext, CInv, CTypeOK, Pending
<1>3. PICK v \in Nat \X Int : v = Window(h) BY <1>1, <1>2, WindowTyped
<1>4. 1 <= v[1] /\ v[2] <= textLen
  <2>1. parsed[host].hunks[h] \in Hunk BY <1>2 DEF CInv, CTypeOK, PTypeOK, Parsed
  <2>2. PICK a \in Nat, b \in Nat : /\ a = parsed[host].hunks[h].new_start
                                  /\ b = parsed[host].hunks[h].new_count
    BY <2>1 DEF Hunk
  <2>3. v[1] = Greater(1, a - ContextLines) /\ v[2] = Lesser(textLen, a + b + ContextLines - 1)
    BY <1>2, <1>3, <2>2, WindowTyped
  <2>4. QED BY <1>2, <2>3, LinesAssumption DEF Greater, Lesser
<1>5. windows # <<>> => windows[Len(windows)][1] <= v[1] BY <1>3 DEF MInv, InOrder
<1>6. /\ Bounded(Merge(windows, v)) /\ Apart(Merge(windows, v))
      /\ \A n \in Int : In(windows, n) \/ n \in v[1] .. v[2] => In(Merge(windows, v), n)
      /\ Merge(windows, v)[Len(Merge(windows, v))][1] <= v[1]
  BY <1>2, <1>4, <1>5, MergeWorks DEF MInv
<1>7. PICK ms \in Seq(Nat \X Int) : ms = Merge(windows, v) BY <1>2, MergeTyped
<1>8. windows' = ms BY <1>1, <1>3, <1>7
<1>9. \A g \in 1 .. Len(parsed[host].hunks) : Window(g)' = Window(g)
  BY <1>2 DEF Window, pVars
<1>10. Bounded(windows)' /\ Apart(windows)'
  BY <1>2, <1>6, <1>7, <1>8 DEF Bounded, Apart
<1>11. HunksCovered'
  <2> SUFFICES ASSUME NEW g \in (1 .. Len(parsed[host].hunks)) \ (todo \ {h}),
                      NEW n \in Window(g)[1] .. Window(g)[2]
               PROVE  In(ms, n)
    BY <1>1, <1>2, <1>8, <1>9 DEF HunksCovered, pVars, In
  <2>1. PICK w \in Nat \X Int : w = Window(g) BY WindowTyped
  <2>2. n \in Int BY <2>1
  <2>3. CASE g = h BY <1>3, <1>6, <1>7, <2>2, <2>3
  <2>4. CASE g # h
    <3>1. In(windows, n) BY <1>2, <2>4 DEF MInv, HunksCovered
    <3>2. QED BY <1>6, <1>7, <2>2, <3>1
  <2>5. QED BY <2>3, <2>4
<1>12. InOrder'
  <2> SUFFICES ASSUME NEW g \in todo \ {h} PROVE ms[Len(ms)][1] <= Window(g)[1]
    BY <1>1, <1>2, <1>8, <1>9 DEF InOrder
  <2>1. PICK w \in Nat \X Int : w = Window(g) BY <1>2, WindowTyped
  <2>2. ~ Before(w, v) BY <1>1, <1>3, <2>1
  <2>3. v[1] <= w[1] BY <2>2 DEF Before
  <2>4. ms # <<>> /\ ms[Len(ms)][1] \in Nat
    <3>1. ms # <<>> BY <1>2, <1>4, <1>5, <1>7, MergeWorks DEF MInv
    <3>2. Len(ms) \in 1 .. Len(ms) BY <3>1
    <3>3. QED BY <3>1, <3>2
  <2>5. ms[Len(ms)][1] <= v[1] BY <1>6, <1>7
  <2>6. QED BY <2>1, <2>3, <2>4, <2>5
<1>13. HunksOK' /\ AddedOK'
  BY <1>2, HunksStep, AddedStep DEF CInv, MInv
<1>14. FileIsLong' BY <1>2 DEF MInv, FileIsLong, pVars
<1>15. QED BY <1>10, <1>11, <1>12, <1>13, <1>14 DEF MInv

(* What the steps outside the loop leave alone.                                *)
LEMMA WindowsStay ==
  ASSUME CInv, MInv, UNCHANGED pVars, UNCHANGED <<host, fileLen, textLen, windows, todo>>,
         stage' = "merge" => stage = "merge", stage # "read"
  PROVE  MInv'
<1>1. HunksOK' /\ AddedOK' BY HunksStep, AddedStep DEF CInv, MInv
<1>2. \A g \in 1 .. Len(parsed[host].hunks) : Window(g)' = Window(g) BY DEF Window, pVars
<1>3. HunksCovered' BY <1>2 DEF MInv, HunksCovered, pVars, In
<1>4. InOrder' BY <1>2 DEF MInv, InOrder, CInv, Pending
<1>5. FileIsLong' BY DEF MInv, FileIsLong, pVars
<1>6. Bounded(windows)' /\ Apart(windows)' BY DEF MInv, Bounded, Apart
<1>7. QED BY <1>1, <1>3, <1>4, <1>5, <1>6 DEF MInv

(* No window yet: nothing to be said of them.                                  *)
LEMMA NoWindows ==
  ASSUME CInv', HunksOK', AddedOK', FileIsLong', windows' = <<>>,
         stage' = "merge" => todo' = 1 .. Len(parsed'[host'].hunks)
  PROVE  MInv'
<1>1. Bounded(windows)' /\ Apart(windows)' BY DEF Bounded, Apart
<1>2. HunksCovered' /\ InOrder' BY DEF HunksCovered, InOrder
<1>3. QED BY <1>1, <1>2 DEF MInv

(* Every step keeps the windows right.                                        *)
LEMMA MStep ==
  ASSUME CInv, CInv', MInv, [CNext]_cVars
  PROVE  MInv'
<1>1. CASE ReadPatch
  <2>1. HunksOK' /\ AddedOK' BY <1>1, HunksStep, AddedStep DEF CInv, MInv, ReadPatch
  <2>2. stage = "read" /\ stage' = "read" /\ windows' = <<>>
    BY <1>1 DEF ReadPatch, sVars, CInv, Pending
  <2>3. QED BY <2>1, <2>2, NoWindows DEF FileIsLong
<1>2. CASE \E h \in Parsers, T \in FileTraits, beyond \in Beyond : Filter(h, T, beyond)
  <2>1. HunksOK' /\ AddedOK' BY <1>2, HunksStep, AddedStep DEF CInv, MInv, Filter
  <2>2. stage' = "context" /\ windows' = <<>> BY <1>2 DEF Filter, CInv, Pending
  <2>3. FileIsLong'
    <3>1. PICK h \in Parsers, T \in FileTraits, beyond \in Beyond : Filter(h, T, beyond) BY <1>2
    <3>2. beyond \in Nat \X Nat BY LinesAssumption
    <3>3. beyond[1] \in Nat /\ beyond[2] \in Nat BY <3>2
    <3>4. fileLen' = file.new - 1 + beyond[1] /\ textLen' = fileLen' + beyond[2] /\ file' = file
      BY <3>1 DEF Filter, pVars
    <3>5. file.new \in Nat BY DEF CInv, PInv, PTypeOK
    <3>6. QED BY <3>3, <3>4, <3>5 DEF FileIsLong
  <2>4. QED BY <2>1, <2>2, <2>3, NoWindows
<1>3. CASE Context
  <2>1. HunksOK' /\ AddedOK' BY <1>3, HunksStep, AddedStep DEF CInv, MInv, Context
  <2>2. windows' = <<>> /\ FileIsLong' /\ (stage' = "merge" => todo' = 1 .. Len(parsed'[host'].hunks))
    BY <1>3 DEF Context, CInv, Pending, MInv, FileIsLong, pVars
  <2>3. QED BY <2>1, <2>2, NoWindows
<1>4. CASE MergeNext BY <1>4, MergeNextKeeps
<1>5. CASE Merged BY <1>5, WindowsStay DEF Merged
<1>6. CASE Secrets \/ Gitleaks \/ Fetch \/ Semgrep \/ Bandit \/ Sca \/ Persist \/ StageRaises
  BY <1>6, WindowsStay
     DEF Secrets, Gitleaks, Fetch, Semgrep, Bandit, Sca, Persist, StageRaises, RunTool, Go
<1>7. CASE UNCHANGED cVars
  <2>1. UNCHANGED pVars /\ UNCHANGED <<stage, host, fileLen, textLen, windows, todo>> BY <1>7 DEF cVars, sVars
  <2>2. CASE stage # "read" BY <2>1, <2>2, WindowsStay
  <2>3. CASE stage = "read"
    <3>1. HunksOK' /\ AddedOK' BY <2>1, HunksStep, AddedStep DEF CInv, MInv
    <3>2. windows' = <<>> /\ stage' = "read" BY <2>1, <2>3 DEF CInv, Pending
    <3>3. QED BY <3>1, <3>2, NoWindows DEF FileIsLong
  <2>4. QED BY <2>2, <2>3
<1>8. QED BY <1>1, <1>2, <1>3, <1>4, <1>5, <1>6, <1>7 DEF CNext

(* Neither hunks nor windows are there at first.                               *)
LEMMA MInit ==
  ASSUME CInit
  PROVE  MInv
<1>1. HunksOK BY DEF CInit, PInit, HunksOK, HunksStart, LastHunkEnds, AddedInHunks
<1>2. AddedOK BY DEF CInit, PInit, AddedOK, AddedBefore, TailFollows, LastKind
<1>3. FileIsLong /\ Bounded(windows) /\ Apart(windows) /\ HunksCovered /\ InOrder
  BY DEF CInit, FileIsLong, Bounded, Apart, HunksCovered, InOrder
<1>4. QED BY <1>1, <1>2, <1>3 DEF MInv

(* Hence it always holds.                                                     *)
LEMMA MInvariant == CSpec => []MInv
<1>1. CInit => MInv BY MInit
<1>2. CInv /\ CInv' /\ MInv /\ [CNext]_cVars => MInv' BY MStep
<1>3. QED BY <1>1, <1>2, CInvariant, PTL DEF CSpec

(* A merged file's windows cover the start of its hunks, and its added lines.       *)
LEMMA CoverFollows ==
  ASSUME CInv, MInv
  PROVE  ContextCoversHunks
<1> SUFFICES ASSUME windows # <<>>, stage # "merge" PROVE ContextCoversHunks
  BY DEF ContextCoversHunks
<1>1. todo = {} /\ host \in Parsers /\ textLen \in Nat /\ windows \in Seq(Nat \X Int)
  BY DEF CInv, Pending, CTypeOK
<1>2. ContextLines \in Nat BY LinesAssumption
<1>3. \A n : Covered(n) <=> In(windows, n) BY DEF Covered, In
<1>4. ASSUME NEW h \in 1 .. Len(parsed[host].hunks), NEW a \in Nat, NEW b \in Nat, NEW n \in Int,
             a = parsed[host].hunks[h].new_start, b = parsed[host].hunks[h].new_count,
             1 <= n, a <= n, n <= textLen, n <= a + b + ContextLines - 1
      PROVE  Covered(n)
  <2>1. Window(h)[1] = Greater(1, a - ContextLines) /\ Window(h)[2] = Lesser(textLen, a + b + ContextLines - 1)
    BY <1>4, WindowTyped
  <2>2. n \in Window(h)[1] .. Window(h)[2]
    <3>1. Greater(1, a - ContextLines) <= n BY <1>2, <1>4 DEF Greater
    <3>2. n <= Lesser(textLen, a + b + ContextLines - 1) BY <1>2, <1>4 DEF Lesser
    <3>3. /\ Greater(1, a - ContextLines) \in Int
          /\ Lesser(textLen, a + b + ContextLines - 1) \in Int
      <4>1. PICK c \in Nat, f \in Nat : c = ContextLines /\ f = textLen BY <1>2, <1>1
      <4>2. Greater(1, a - c) \in Int BY DEF Greater
      <4>3. Lesser(f, a + b + c - 1) \in Int BY DEF Lesser
      <4>4. QED BY <4>1, <4>2, <4>3
    <3>4. PICK g \in Int, l \in Int : g = Window(h)[1] /\ l = Window(h)[2] /\ g <= n /\ n <= l
      BY <2>1, <3>1, <3>2, <3>3
    <3>5. n \in g .. l BY <3>4
    <3>6. QED BY <3>4, <3>5
  <2>3. QED BY <1>1, <1>3, <2>2 DEF MInv, HunksCovered
<1>5. ASSUME NEW p \in Parsers, NEW h \in 1 .. Len(parsed[p].hunks)
      PROVE  \E a \in Nat, b \in Nat : /\ a = parsed[p].hunks[h].new_start
                                     /\ b = parsed[p].hunks[h].new_count
  <2>1. parsed[p].hunks[h] \in Hunk BY DEF CInv, PInv, PTypeOK, Parsed
  <2>2. QED BY <2>1 DEF Hunk
<1>6. ASSUME NEW h \in 1 .. Len(parsed[host].hunks),
             NEW n \in Greater(1, parsed[host].hunks[h].new_start) ..
                        Lesser(textLen, parsed[host].hunks[h].new_start + ContextLines - 1)
      PROVE  Covered(n)
  <2>1. PICK a \in Nat, b \in Nat : /\ a = parsed[host].hunks[h].new_start
                                  /\ b = parsed[host].hunks[h].new_count
    BY <1>1, <1>5
  <2>2. n \in Greater(1, a) .. Lesser(textLen, a + ContextLines - 1) BY <2>1
  <2>3. n \in Int /\ 1 <= n /\ a <= n /\ n <= textLen /\ n <= a + b + ContextLines - 1
    BY <1>2, <1>1, <2>2 DEF Lesser, Greater
  <2>4. QED BY <1>4, <2>1, <2>3
<1>7. ASSUME host = "unified", NEW i \in 1 .. Len(patch), IsAdded(i)
      PROVE  Covered(patch[i].new)
  <2>1. PICK n \in 1 .. file.new - 1 : n = patch[i].new
    BY <1>7 DEF IsAdded, MInv, AddedOK, AddedBefore
  <2>2. PICK h \in 1 .. Len(parsed[host].hunks) : InHunk(h, n)
    BY <1>7, <2>1 DEF IsAdded, MInv, HunksOK, AddedInHunks
  <2>3. PICK a \in Nat, b \in Nat : /\ a = parsed[host].hunks[h].new_start
                                  /\ b = parsed[host].hunks[h].new_count
    BY <1>1, <1>5
  <2>4. n \in a .. a + b - 1 BY <1>7, <2>2, <2>3 DEF InHunk
  <2>5. n <= textLen
    <3>1. stage # "read" BY DEF CInv, Pending
    <3>2. fileLen >= file.new - 1 /\ textLen >= fileLen BY <3>1 DEF MInv, FileIsLong
    <3>3. QED BY <1>1, <3>2 DEF CInv, CTypeOK, PInv, PTypeOK
  <2>6. n \in Int /\ 1 <= n /\ a <= n /\ n <= a + b + ContextLines - 1
    BY <1>2, <2>4
  <2>7. QED BY <1>4, <2>1, <2>3, <2>5, <2>6
<1>8. /\ \A k \in 1 .. Len(windows) : 1 <= windows[k][1] /\ windows[k][2] <= textLen
      /\ \A k \in 1 .. Len(windows) - 1 : windows[k][2] + 1 < windows[k + 1][1]
  BY DEF MInv, Bounded, Apart
<1>9. QED BY <1>6, <1>7, <1>8 DEF ContextCoversHunks

(* The context shows every changed line once, in whatever order and however close the    *)
(* hunks are: its windows are lines of the file, apart from each other, and hold all    *)
(* added lines (with GitLab the first ContextLines lines of a hunk).               *)
THEOREM ContextIsWhole == CSpec => []ContextCoversHunks
<1>1. CInv /\ MInv => ContextCoversHunks BY CoverFollows
<1>2. QED BY <1>1, CInvariant, MInvariant, PTL

-----------------------------------------------------------------------------
(* What each tool has found once it has run.                                  *)

AfterBandit == {"sca", "persist", "done"}
AfterSemgrep == {"bandit"} \cup AfterBandit
AfterFetch == {"semgrep"} \cup AfterSemgrep
AfterGitleaks == {"fetch"} \cup AfterFetch

Noted(tool) == tool \in degraded \cup mute

AllFound(tool) ==
  \A n \in 1 .. fileLen : WithNumber(n) # {} => \E f \in found : f.tool = tool /\ f.line = n

GitleaksRan ==
  stage \in AfterGitleaks =>
    Noted("gitleaks") \/ \A x \in ShownAt : \E f \in found : f.tool = "gitleaks" /\ f.at = x

Fetched == (stage \in AfterFetch /\ Kept) => text \/ "fetch" \in mute

SemgrepRan == (stage \in AfterSemgrep /\ text) => Noted("semgrep") \/ AllFound("semgrep")

BanditRan ==
  (stage \in AfterBandit /\ text /\ "python" \in traits) => Noted("bandit") \/ AllFound("bandit")

ToolsRan == GitleaksRan /\ Fetched /\ SemgrepRan /\ BanditRan

(* A parser gives finitely many lines.                                        *)
LEMMA AddedLinesFinite ==
  ASSUME PInv, NEW p \in Parsers
  PROVE  IsFiniteSet(AddedLines(p))
<1>1. PICK lines \in Seq(DiffLine) : lines = parsed[p].lines BY DEF PInv, PTypeOK, Parsed
<1>2. PICK n \in Nat : n = Len(lines) BY <1>1
<1> DEFINE T == {lines[k] : k \in 1 .. n}
<1>3. lines \in Surjection(1 .. n, T)
  <2>1. lines \in [1 .. n -> T] BY <1>1, <1>2
  <2>2. \A t \in T : \E k \in 1 .. n : lines[k] = t OBVIOUS
  <2> HIDE DEF T
  <2>3. QED BY <2>1, <2>2 DEF Surjection
<1>4. IsFiniteSet(1 .. n) BY FS_Interval
<1>5. AddedLines(p) \in SUBSET T BY <1>1, <1>2 DEF AddedLines
<1> HIDE DEF T
<1>6. IsFiniteSet(T) BY <1>3, <1>4, FS_Surjection
<1>7. QED BY <1>5, <1>6, FS_Subset

(* Every added line is a line of the temporary file that Gitleaks reads.            *)
LEMMA TempLineIn ==
  ASSUME CInv, NEW m \in CodeLines
  PROVE  TempLine(m) \in 1 .. Cardinality(CodeLines)
<1> DEFINE B == {x \in CodeLines : x.pos <= m.pos}
<1>1. IsFiniteSet(CodeLines)
  <2>1. host \in Parsers BY DEF CInv, CTypeOK
  <2>2. QED BY <2>1, AddedLinesFinite, FS_EmptySet DEF CInv, CodeLines
<1>2. m.pos \in Nat BY CodeLinesAt DEF DiffLine
<1>3. m \in B /\ B \in SUBSET CodeLines BY <1>2
<1>4. TempLine(m) = Cardinality(B) BY DEF TempLine
<1> HIDE DEF B
<1>5. IsFiniteSet(B) /\ Cardinality(B) <= Cardinality(CodeLines) BY <1>1, <1>3, FS_Subset
<1>6. Cardinality(B) \in Nat /\ Cardinality(CodeLines) \in Nat BY <1>1, <1>5, FS_CardinalityType
<1>7. Cardinality(B) # 0 BY <1>3, <1>5, FS_EmptySet
<1>8. QED BY <1>4, <1>5, <1>6, <1>7

(* What the tools have found stays found when the scan goes on.                    *)
LEMMA RanStays ==
  ASSUME ToolsRan, UNCHANGED pVars, UNCHANGED <<host, traits, fileLen>>,
         stage # "read", stage' # "read",
         found \subseteq found', degraded \subseteq degraded', mute \subseteq mute'
  PROVE  /\ stage \in AfterGitleaks => GitleaksRan'
         /\ (stage \in AfterFetch /\ text' = text) => Fetched'
         /\ (stage \in AfterSemgrep /\ text' = text) => SemgrepRan'
         /\ (stage \in AfterBandit /\ text' = text) => BanditRan'
<1>1. ShownAt' = ShownAt /\ (Kept' <=> Kept) /\ \A n : WithNumber(n)' = WithNumber(n)
  BY SameLines
<1>2. stage \in AfterGitleaks => GitleaksRan'
  BY <1>1 DEF ToolsRan, GitleaksRan, Noted
<1>3. (stage \in AfterFetch /\ text' = text) => Fetched'
  BY <1>1 DEF ToolsRan, Fetched
<1>4. (stage \in AfterSemgrep /\ text' = text) => SemgrepRan'
  BY <1>1 DEF ToolsRan, SemgrepRan, Noted, AllFound
<1>5. (stage \in AfterBandit /\ text' = text) => BanditRan'
  BY <1>1 DEF ToolsRan, BanditRan, Noted, AllFound
<1>6. QED BY <1>2, <1>3, <1>4, <1>5

(* Gitleaks finds what is in its file, unless it is noted or mute.                *)
LEMMA GitleaksRuns ==
  ASSUME CInv, ToolsRan, Gitleaks
  PROVE  ToolsRan'
<1> DEFINE M == {m \in CodeLines : TempLine(m) \in 1 .. Cardinality(CodeLines)}
           R == UNION {FindingsOn("gitleaks", ln) : ln \in M}
<1>1. RunTool("gitleaks", CodeLines # {}, R, "fetch") BY DEF Gitleaks
<1>2. \A x \in ShownAt : CodeLines # {} /\ \E f \in R : f.tool = "gitleaks" /\ f.at = x
  <2> SUFFICES ASSUME NEW x \in ShownAt
               PROVE  CodeLines # {} /\ \E f \in R : f.tool = "gitleaks" /\ f.at = x
    OBVIOUS
  <2>1. PICK ln \in CodeLines : \E f \in FindingsOn("gitleaks", ln) : f.tool = "gitleaks" /\ f.at = x
    BY FindingsOnAt DEF CodeTools
  <2>2. ln \in M BY TempLineIn
  <2> HIDE DEF M
  <2>3. QED BY <2>1, <2>2
<1> HIDE DEF R
<1>3. /\ stage = "gitleaks" /\ stage' = "fetch" /\ UNCHANGED pVars /\ UNCHANGED <<host, traits, fileLen>>
  BY <1>1 DEF RunTool, Go
<1>4. ShownAt' = ShownAt BY <1>3, SameLines
<1>5. GitleaksRan'
  <2>1. CASE found' = found \cup (IF CodeLines # {} THEN R ELSE {})
    BY <1>2, <1>4, <2>1 DEF GitleaksRan
  <2>2. CASE "gitleaks" \in degraded' \cup mute' BY <2>2 DEF GitleaksRan, Noted
  <2>3. QED BY <1>1, <2>1, <2>2 DEF RunTool
<1>6. Fetched' /\ SemgrepRan' /\ BanditRan'
  BY <1>3 DEF Fetched, SemgrepRan, BanditRan, AfterFetch, AfterSemgrep, AfterBandit
<1>7. QED BY <1>5, <1>6 DEF ToolsRan

(* Semgrep and Bandit find what stands on an added line, unless noted or mute.       *)
LEMMA ReporterRuns ==
  ASSUME CInv, NEW tool \in {"semgrep", "bandit"}, NEW next \in {"bandit", "sca"},
         RunTool(tool, TRUE, OnAddedLines(tool), next)
  PROVE  (Noted(tool) \/ AllFound(tool))'
<1>1. \A n \in 1 .. fileLen : WithNumber(n) # {} =>
        \E f \in OnAddedLines(tool) : f.tool = tool /\ f.line = n
  <2> SUFFICES ASSUME NEW n \in 1 .. fileLen, WithNumber(n) # {}
               PROVE  \E f \in OnAddedLines(tool) : f.tool = tool /\ f.line = n
    OBVIOUS
  <2> DEFINE f == [ tool |-> tool, file |-> "code", line |-> n,
                    at |-> FirstWithNumber(n).at ]
  <2>1. f \in OnAddedLines(tool) BY DEF OnAddedLines
  <2>2. f.tool = tool /\ f.line = n OBVIOUS
  <2> HIDE DEF f
  <2>3. QED BY <2>1, <2>2
<1>2. fileLen' = fileLen /\ \A n : WithNumber(n)' = WithNumber(n)
  <2>1. UNCHANGED pVars /\ UNCHANGED <<host, traits, fileLen>> /\ stage # "read" /\ stage' # "read"
    BY DEF RunTool, Go
  <2>2. QED BY <2>1, SameLines
<1>3. CASE found' = found \cup OnAddedLines(tool) BY <1>1, <1>2, <1>3 DEF AllFound
<1>4. CASE tool \in degraded' \cup mute' BY <1>4 DEF Noted
<1>5. QED BY <1>3, <1>4 DEF RunTool

(* Every step keeps it.                                                       *)
LEMMA ToolsStep ==
  ASSUME CInv, ToolsRan, [CNext]_cVars
  PROVE  ToolsRan'
<1>1. CASE /\ stage' \notin AfterGitleaks
  BY <1>1 DEF ToolsRan, GitleaksRan, Fetched, SemgrepRan, BanditRan,
              AfterGitleaks, AfterFetch, AfterSemgrep, AfterBandit
<1>2. CASE ReadPatch \/ Context \/ MergeNext \/ Merged \/ Secrets
  BY <1>1, <1>2 DEF ReadPatch, sVars, Context, MergeNext, Merged, Secrets, Go,
                    AfterGitleaks, AfterFetch, AfterSemgrep, AfterBandit
<1>3. CASE \E h \in Parsers, T \in FileTraits, beyond \in Beyond : Filter(h, T, beyond)
  BY <1>1, <1>3 DEF Filter, AfterGitleaks, AfterFetch, AfterSemgrep, AfterBandit
<1>4. CASE Gitleaks BY <1>4, GitleaksRuns
<1>5. CASE Fetch
  <2>1. /\ stage = "fetch" /\ stage' = "semgrep" /\ UNCHANGED pVars
        /\ UNCHANGED <<host, traits, fileLen, found, degraded>> /\ mute \subseteq mute'
    BY <1>5 DEF Fetch, Go
  <2>2. GitleaksRan' BY <2>1, RanStays DEF AfterGitleaks
  <2>3. Fetched'
    <3>1. Kept' <=> Kept BY <2>1 DEF Kept
    <3>2. (text' <=> Kept) \/ "fetch" \in mute' BY <1>5 DEF Fetch
    <3>3. QED BY <3>1, <3>2 DEF Fetched
  <2>4. SemgrepRan' /\ BanditRan' BY <2>1 DEF SemgrepRan, BanditRan, AfterSemgrep, AfterBandit
  <2>5. QED BY <2>2, <2>3, <2>4 DEF ToolsRan
<1>6. CASE Semgrep
  <2>1. /\ stage = "semgrep" /\ stage' = "bandit" /\ UNCHANGED pVars
        /\ UNCHANGED <<host, traits, fileLen, text>>
        /\ found \subseteq found' /\ degraded \subseteq degraded' /\ mute \subseteq mute'
    BY <1>6 DEF Semgrep, RunTool, Go
  <2>2. GitleaksRan' /\ Fetched' BY <2>1, RanStays DEF AfterGitleaks, AfterFetch
  <2>3. SemgrepRan'
    <3>1. CASE text
      <4>1. RunTool("semgrep", TRUE, OnAddedLines("semgrep"), "bandit")
        BY <1>6, <3>1 DEF Semgrep, RunTool
      <4>2. QED BY <4>1, ReporterRuns DEF SemgrepRan
    <3>2. CASE ~ text BY <2>1, <3>2 DEF SemgrepRan
    <3>3. QED BY <3>1, <3>2
  <2>4. BanditRan' BY <2>1 DEF BanditRan, AfterBandit
  <2>5. QED BY <2>2, <2>3, <2>4 DEF ToolsRan
<1>7. CASE Bandit
  <2>1. /\ stage = "bandit" /\ stage' = "sca" /\ UNCHANGED pVars
        /\ UNCHANGED <<host, traits, fileLen, text>>
        /\ found \subseteq found' /\ degraded \subseteq degraded' /\ mute \subseteq mute'
    BY <1>7 DEF Bandit, RunTool, Go
  <2>2. GitleaksRan' /\ Fetched' /\ SemgrepRan'
    BY <2>1, RanStays DEF AfterGitleaks, AfterFetch, AfterSemgrep
  <2>3. BanditRan'
    <3>1. CASE text /\ "python" \in traits
      <4>1. RunTool("bandit", TRUE, OnAddedLines("bandit"), "sca")
        BY <1>7, <3>1 DEF Bandit, RunTool
      <4>2. QED BY <4>1, ReporterRuns DEF BanditRan
    <3>2. CASE ~ (text /\ "python" \in traits) BY <2>1, <3>2 DEF BanditRan
    <3>3. QED BY <3>1, <3>2
  <2>4. QED BY <2>2, <2>3 DEF ToolsRan
<1>8. CASE Sca \/ Persist
  <2>1. /\ stage \in {"sca", "persist"} /\ stage' \in {"persist", "done"} /\ UNCHANGED pVars
        /\ UNCHANGED <<host, traits, fileLen, text, degraded, mute>> /\ found \subseteq found'
    BY <1>8 DEF Sca, Persist, Go
  <2>2. QED BY <2>1, RanStays DEF AfterGitleaks, AfterFetch, AfterSemgrep, AfterBandit, ToolsRan
<1>9. CASE StageRaises
  BY <1>1, <1>9 DEF StageRaises, Go, AfterGitleaks, AfterFetch, AfterSemgrep, AfterBandit
<1>10. CASE UNCHANGED cVars
  BY <1>10 DEF cVars, sVars, pVars, ToolsRan, GitleaksRan, Fetched, SemgrepRan, BanditRan, Noted, AllFound,
               ShownAt, TextsOf, Texts, Kept, WithNumber, CodeLines, AddedLines
<1>11. QED BY <1>2, <1>3, <1>4, <1>5, <1>6, <1>7, <1>8, <1>9, <1>10 DEF CNext

(* No tool has run at first.                                                  *)
LEMMA ToolsInvariant == CSpec => []ToolsRan
<1>1. CInit => ToolsRan
  BY DEF CInit, ToolsRan, GitleaksRan, Fetched, SemgrepRan, BanditRan,
         AfterGitleaks, AfterFetch, AfterSemgrep, AfterBandit
<1>2. CInv /\ ToolsRan /\ [CNext]_cVars => ToolsRan' BY ToolsStep
<1>3. QED BY <1>1, <1>2, CInvariant, PTL DEF CSpec

(* An added line has its number in the parser's eyes, or that of the line before it,   *)
(* unless it follows a separator.                                              *)
LEMMA NumberFound ==
  ASSUME CInv, MInv, Kept, NEW i \in 1 .. Len(patch), IsAdded(i),
         ~ (host = "gitlab" /\ (patch[i].torn \/ patch[i - 1].kind = "eof"))
  PROVE  patch[i].new \in 1 .. fileLen /\ WithNumber(patch[i].new) # {}
<1>1. i \in 1 .. Len(patch) /\ patch[i].kind = "add" /\ stage # "read" BY DEF IsAdded, Kept
<1>2. PICK n \in 1 .. file.new - 1 : n = patch[i].new BY <1>1 DEF MInv, AddedOK, AddedBefore
<1>3. n \in 1 .. fileLen
  <2>1. fileLen >= file.new - 1 BY <1>1 DEF MInv, FileIsLong
  <2>2. QED BY <1>2, <2>1 DEF CInv, CTypeOK, PInv, PTypeOK
<1>4. ASSUME NEW j \in 1 .. Len(patch), patch[j].kind = "add", host = "unified" \/ ~ patch[j].torn
      PROVE  \E ln \in CodeLines :
               ln.new = patch[j].new + (IF host = "gitlab" /\ AfterMarker(j) THEN 1 ELSE 0)
  <2> DEFINE y == <<j, 0>>
  <2>1. host \in Parsers BY DEF CInv, CTypeOK
  <2>2. y \in Texts /\ AddsFor(host, y) BY <1>4 DEF Texts, AddsFor
  <2>3. PICK ln \in AddedLines(host) : ln.at = y BY <2>1, <2>2, PlacesOfLines DEF CInv
  <2>4. PICK k \in 1 .. Len(parsed[host].lines) : ln = parsed[host].lines[k] /\ ln.kind = "add"
    BY <2>3 DEF AddedLines
  <2>5. ln.at[1] = j /\ ln.at[2] = 0 BY <2>3
  <2>6. ln.new = patch[j].new + (IF host = "gitlab" /\ AfterMarker(j) THEN 1 ELSE 0)
    BY <1>4, <2>1, <2>4, <2>5 DEF CInv, PInv, NumberingIsRight
  <2>7. QED BY <2>3, <2>6 DEF CodeLines
<1>5. CASE ~ (host = "gitlab" /\ AfterMarker(i))
  <2>1. host = "unified" \/ ~ patch[i].torn BY DEF CInv, CTypeOK, Parsers
  <2>2. PICK ln \in CodeLines : ln.new = patch[i].new + 0 BY <1>1, <1>4, <1>5, <2>1
  <2>3. ln.new = n BY <1>2, <2>2
  <2>4. QED BY <1>2, <1>3, <2>3 DEF WithNumber
<1>6. CASE host = "gitlab" /\ AfterMarker(i)
  <2>1. /\ i > 1 /\ patch[i - 1].kind = "add" /\ patch[i].new = patch[i - 1].new + 1
        /\ patch[i - 1].torn => patch[i].torn
    BY <1>1, <1>6 DEF MInv, AddedOK, TailFollows, Follows
  <2>2. PICK j \in 1 .. Len(patch) : j = i - 1 BY <1>1, <2>1
  <2>3. AfterMarker(j)
    <3>1. PICK k \in 1 .. i : patch[k].kind = "eof" BY <1>6 DEF AfterMarker
    <3>2. k # i BY <1>1, <3>1
    <3>3. k \in 1 .. j
      <4>1. PICK a \in Nat : a = i BY <1>1
      <4>2. k \in 1 .. a /\ k # a /\ j = a - 1 BY <2>2, <3>2, <4>1
      <4>3. QED BY <4>2
    <3>4. QED BY <3>1, <3>3 DEF AfterMarker
  <2>4. patch[j].kind = "add" /\ ~ patch[j].torn BY <1>6, <2>1, <2>2
  <2>5. PICK ln \in CodeLines : ln.new = patch[j].new + 1 BY <1>4, <1>6, <2>3, <2>4
  <2>6. ln.new = n BY <1>2, <2>1, <2>2, <2>5
  <2>7. QED BY <1>2, <1>3, <2>6 DEF WithNumber
<1>7. QED BY <1>5, <1>6

(* So a missing finding has a reason.                                         *)
LEMMA LossFollows ==
  ASSUME CInv, MInv, ToolsRan
  PROVE  LossIsExplained
<1> SUFFICES ASSUME stage = "done", Kept, NEW x \in Texts, IsAdded(x[1])
             PROVE  /\ Torn(x) \/ \E f \in found : f.tool = "secrets" /\ f.at = x
                    /\ \/ Torn(x) \/ \E f \in found : f.tool = "gitleaks" /\ f.at = x
                       \/ "gitleaks" \in degraded \cup mute
                    /\ \A tool \in {"semgrep"} \cup (IF "python" \in traits THEN {"bandit"} ELSE {}) :
                         \/ \E f \in found : f.tool = tool /\ f.line = patch[x[1]].new
                         \/ tool \in degraded \cup mute
                         \/ "fetch" \in mute
                         \/ host = "gitlab" /\ (patch[x[1]].torn \/ patch[x[1] - 1].kind = "eof")
  BY DEF LossIsExplained
<1> DEFINE i == x[1]
<1>1. Torn(x) \/ x \in ShownAt
  <2>1. x \in CodeAt BY DEF CodeAt
  <2>2. QED BY <2>1, ShownUnlessTorn
<1>2. Torn(x) \/ \E f \in found : f.tool = "secrets" /\ f.at = x
  BY <1>1 DEF CInv, SecretsAreIn, AfterSecrets
<1>3. \/ Torn(x) \/ \E f \in found : f.tool = "gitleaks" /\ f.at = x
      \/ "gitleaks" \in degraded \cup mute
  BY <1>1 DEF ToolsRan, GitleaksRan, Noted, AfterGitleaks, AfterFetch, AfterSemgrep, AfterBandit
<1>4. ASSUME NEW tool \in {"semgrep"} \cup (IF "python" \in traits THEN {"bandit"} ELSE {}),
             tool \notin degraded \cup mute, "fetch" \notin mute,
             ~ (host = "gitlab" /\ (patch[i].torn \/ patch[i - 1].kind = "eof"))
      PROVE  \E f \in found : f.tool = tool /\ f.line = patch[i].new
  <2>1. text BY <1>4 DEF ToolsRan, Fetched, AfterFetch, AfterSemgrep, AfterBandit
  <2>2. AllFound(tool)
    BY <1>4, <2>1 DEF ToolsRan, SemgrepRan, BanditRan, Noted, AfterSemgrep, AfterBandit
  <2>3. i \in 1 .. Len(patch) BY DEF IsAdded
  <2>4. patch[i].new \in 1 .. fileLen /\ WithNumber(patch[i].new) # {}
    BY <1>4, <2>3, NumberFound
  <2>5. QED BY <2>2, <2>4 DEF AllFound
<1>5. QED BY <1>2, <1>3, <1>4

(* No finding on an added line is lost without a reason, for patches and files of any size.  *)
THEOREM LossExplained == CSpec => []LossIsExplained
<1>1. CInv /\ MInv /\ ToolsRan => LossIsExplained BY LossFollows
<1>2. QED BY <1>1, CInvariant, MInvariant, ToolsInvariant, PTL
=============================================================================
