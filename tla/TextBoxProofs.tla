--------------------------- MODULE TextBoxProofs ---------------------------
(***************************************************************************)
(* Proofs about build_lines, for every text, box width, scale and size of  *)
(* the buffers.  The widths of words and lines are compared in one place   *)
(* each and the characters copied in another: what the comparison has      *)
(* found is kept in the invariant until the copy, and one word is all that *)
(* can break it: too long for a box that is as wide as a buffer.  That no  *)
(* character is lost rests on a bound that moves through the text: all     *)
(* characters before it have been placed, in order, and none from there on. *)
(***************************************************************************)
EXTENDS TextBox, SequenceTheorems, TLAPS

USE DEF input

Fits(line) == Len(line) < OVL_MAX_LINE_LEN /\ (max_chars > 0 => Len(line) <= max_chars)

LinesOK == pc # "overrun" => Fits(cur) /\ \A n \in 1 .. Len(out) : Fits(out[n])

(* There is room for one more line from when a word begins until it has     *)
(* been placed; a long word is broken only at a width, and a short one is   *)
(* not too long for it.  What overruns a buffer is a long word in a box as  *)
(* wide as that.                                                           *)
PlaceOK ==
  /\ Len(out) <= OVL_MAX_LINES
  /\ pc \in {"scan", "word"} => HasLines
  /\ pc \in {"long", "overrun"} => TooLong
  /\ pc = "word" => ~TooLong
  /\ pc = "overrun" => max_chars >= OVL_MAX_LINE_LEN

IInv == TextBoxTypeOK /\ PlaceOK /\ LinesOK

(* The width in characters. *)
LEMMA WidthIs == ASSUME TextBoxTypeOK PROVE max_chars \in Nat
<1>1. box_w \in Nat /\ scale \in Nat \ {0} BY TextBoxAssumption DEF TextBoxTypeOK
<1> DEFINE d == 8 * scale
<1>2. d \in Nat \ {0} BY <1>1
<1>3. ASSUME NEW w \in Nat, NEW m \in Nat \ {0} PROVE w \div m \in Nat OBVIOUS
<1>4. box_w \div d \in Nat BY <1>1, <1>2, <1>3
<1>5. max_chars \in {1, box_w \div d} BY DEF max_chars, CharsIn
<1> HIDE DEF d
<1> QED BY <1>4, <1>5

(* Lines fit as long as the box is the same. *)
LEMMA SameFits ==
  ASSUME UNCHANGED input, pc' # "overrun"
  PROVE  LinesOK' <=> Fits(cur') /\ \A n \in 1 .. Len(out') : Fits(out'[n])
BY DEF LinesOK, Fits, max_chars

(* A line that is added is one that fits. *)
LEMMA AddedLine ==
  ASSUME IInv, pc # "overrun", HasLines, out' = Append(out, cur), UNCHANGED input
  PROVE  /\ out' \in Seq(Seq(0 .. Len(text))) /\ Len(out') <= OVL_MAX_LINES
         /\ \A n \in 1 .. Len(out') : Fits(out'[n])
<1>1. out \in Seq(Seq(0 .. Len(text))) /\ cur \in Seq(0 .. Len(text))
      BY DEF IInv, TextBoxTypeOK
<1>2. /\ out' \in Seq(Seq(0 .. Len(text))) /\ Len(out') = Len(out) + 1
      /\ \A n \in 1 .. Len(out') : out'[n] = IF n = Len(out) + 1 THEN cur ELSE out[n]
      BY <1>1
<1>3. Len(out') <= OVL_MAX_LINES BY <1>1, <1>2, TextBoxAssumption DEF HasLines
<1>4. Fits(cur) /\ \A n \in 1 .. Len(out) : Fits(out[n]) BY DEF IInv, LinesOK
<1>5. Len(out) \in Nat BY <1>1
<1>6. ASSUME NEW n \in 1 .. Len(out') PROVE Fits(out'[n])
  <2>1. CASE n = Len(out) + 1 BY <1>2, <1>4, <2>1
  <2>2. CASE n # Len(out) + 1
    <3>1. n \in 1 .. Len(out) BY <1>2, <1>5, <2>2
    <3> QED BY <1>2, <1>4, <2>2, <3>1
  <2> QED BY <2>1, <2>2
<1> QED BY <1>2, <1>3, <1>6

LEMMA InitIInv == Init => IInv
<1> SUFFICES ASSUME Init PROVE IInv OBVIOUS
<1>1. Len(text) \in Nat /\ Len(text) > 0 BY TextBoxAssumption DEF Init
<1>2. TextBoxTypeOK BY <1>1 DEF Init, TextBoxTypeOK
<1>3. PlaceOK BY TextBoxAssumption DEF Init, PlaceOK
<1>4. LinesOK
  <2>1. max_chars \in Nat BY <1>2, WidthIs
  <2> QED BY <2>1, TextBoxAssumption DEF Init, LinesOK, Fits
<1> QED BY <1>2, <1>3, <1>4 DEF IInv

(* Characters copied from the text, n of them from one on. *)
LEMMA CopiedIs ==
  ASSUME NEW from \in Nat \ {0}, NEW n \in Nat, NEW T \in Nat, from + n <= T + 1
  PROVE  Copied(from, n) \in Seq(0 .. T) /\ Len(Copied(from, n)) = n
<1>1. \A k \in 1 .. n : from + k - 1 \in 0 .. T OBVIOUS
<1> QED BY <1>1 DEF Copied

(* Moving on without a line being touched. *)
LEMMA MoveStep ==
  ASSUME IInv, pc # "overrun", UNCHANGED <<input, cur, out>>,
         p' \in 1 .. Len(text) + 1, wlen' \in Nat, i' \in Nat,
         pc' \in {"next", "scan", "long", "word", "skip"},
         pc' \in {"scan", "long", "word"} => p' + wlen' <= Len(text) + 1,
         pc' = "long" => i' <= wlen', PlaceOK'
  PROVE  IInv'
<1>1. TextBoxTypeOK' BY DEF IInv, TextBoxTypeOK
<1>2. LinesOK' BY DEF IInv, LinesOK, Fits, max_chars
<1> QED BY <1>1, <1>2 DEF IInv

(* A line is added, or none, and the next one is filled with what fits. *)
LEMMA FillStep ==
  ASSUME IInv, pc # "overrun", UNCHANGED input, HasLines,
         out' = out \/ out' = Append(out, cur),
         cur' \in Seq(0 .. Len(text)), Fits(cur'),
         p' \in 1 .. Len(text) + 1, wlen' = wlen, i' \in Nat,
         pc' \in {"next", "skip"} \/ (pc = "long" /\ pc' = "long" /\ p' = p /\ i' <= wlen)
  PROVE  IInv'
<1>1. /\ out' \in Seq(Seq(0 .. Len(text))) /\ Len(out') <= OVL_MAX_LINES
      /\ \A n \in 1 .. Len(out') : Fits(out'[n])
  <2>1. CASE out' = Append(out, cur) BY <2>1, AddedLine
  <2>2. CASE out' = out BY <2>2 DEF IInv, TextBoxTypeOK, PlaceOK, LinesOK
  <2> QED BY <2>1, <2>2
<1>2. TextBoxTypeOK' BY <1>1 DEF IInv, TextBoxTypeOK
<1>3. PlaceOK' BY <1>1 DEF IInv, PlaceOK, TooLong, max_chars
<1>4. LinesOK' BY <1>1, SameFits DEF LinesOK
<1> QED BY <1>2, <1>3, <1>4 DEF IInv

LEMMA NewlineStep == ASSUME IInv, Newline PROVE IInv'
<1>1. Fits(<<>>) BY WidthIs, TextBoxAssumption DEF Fits, IInv
<1>2. p' \in 1 .. Len(text) + 1 /\ wlen \in Nat /\ i \in Nat
      BY TextBoxAssumption DEF Newline, InText, IInv, TextBoxTypeOK
<1> QED BY <1>1, <1>2, FillStep DEF Newline, InText, EndsLine

LEMMA BreakWordStep == ASSUME IInv, BreakWord PROVE IInv'
<1> DEFINE full == Len(cur) >= max_chars
           line == IF full THEN <<>> ELSE cur
           n    == Least(wlen - i, max_chars - Len(line))
<1>1. /\ pc = "long" /\ i < wlen /\ HasLines
      /\ out' = (IF full THEN Append(out, cur) ELSE out)
      /\ cur' = line \o Copied(p + i, n) /\ i' = i + n
      /\ pc' = (IF Overruns(cur') THEN "overrun" ELSE pc)
      /\ UNCHANGED <<input, p, wlen>>
      BY DEF BreakWord
<1>2. /\ p \in 1 .. Len(text) + 1 /\ wlen \in Nat /\ i \in Nat /\ Len(text) \in Nat
      /\ p + wlen <= Len(text) + 1 /\ cur \in Seq(0 .. Len(text))
      BY <1>1, TextBoxAssumption DEF IInv, TextBoxTypeOK
<1>3. max_chars \in Nat \ {0} /\ OVL_MAX_LINE_LEN \in Nat /\ OVL_MAX_LINE_LEN > 1
      BY <1>1, WidthIs, TextBoxAssumption DEF IInv, PlaceOK, TooLong
<1>4. line \in Seq(0 .. Len(text)) /\ Len(line) < max_chars /\ Len(line) \in Nat
  <2>1. CASE full BY <1>3, <2>1
  <2>2. CASE ~full BY <1>2, <1>3, <2>2
  <2> QED BY <2>1, <2>2
<1> HIDE DEF full, line
<1>5. n \in Nat /\ n <= wlen - i /\ Len(line) + n <= max_chars
  <2>1. wlen - i \in Nat /\ max_chars - Len(line) \in Nat BY <1>1, <1>2, <1>3, <1>4
  <2> QED BY <1>2, <1>3, <1>4, <2>1 DEF Least
<1> HIDE DEF n
<1>6. Copied(p + i, n) \in Seq(0 .. Len(text)) /\ Len(Copied(p + i, n)) = n
  <2>1. p + i \in Nat \ {0} /\ p + i + n <= Len(text) + 1 BY <1>2, <1>5
  <2> QED BY <1>2, <1>5, <2>1, CopiedIs
<1>7. cur' \in Seq(0 .. Len(text)) /\ Len(cur') = Len(line) + n
      BY <1>1, <1>4, <1>6, ConcatProperties
<1>8. Len(cur') \in Nat /\ Len(cur') <= max_chars /\ max_chars' = max_chars
      BY <1>1, <1>3, <1>4, <1>5, <1>7 DEF max_chars
<1>9. i' \in Nat /\ i' <= wlen BY <1>1, <1>2, <1>5
<1>10. p' \in 1 .. Len(text) + 1 /\ wlen' = wlen /\ p' = p BY <1>1, <1>2
<1>11. out' = out \/ out' = Append(out, cur) BY <1>1
<1>12. CASE ~Overruns(cur')
  <2>1. Fits(cur') BY <1>3, <1>8, <1>12 DEF Fits, Overruns
  <2>2. pc' = "long" BY <1>1, <1>12
  <2> QED BY <1>1, <1>7, <1>9, <1>10, <1>11, <2>1, <2>2, FillStep
<1>13. CASE Overruns(cur')
  <2>1. pc' = "overrun" BY <1>1, <1>13
  <2>2. out' \in Seq(Seq(0 .. Len(text))) /\ Len(out') <= OVL_MAX_LINES
    <3>1. CASE out' = out BY <3>1 DEF IInv, TextBoxTypeOK, PlaceOK
    <3>2. CASE out' = Append(out, cur) BY <1>1, <3>2, AddedLine
    <3> QED BY <1>11, <3>1, <3>2
  <2>3. TextBoxTypeOK' BY <1>1, <1>2, <1>7, <1>9, <1>10, <2>1, <2>2 DEF IInv, TextBoxTypeOK
  <2>4. TooLong' BY <1>1, <1>8 DEF IInv, PlaceOK, TooLong
  <2>5. max_chars >= OVL_MAX_LINE_LEN BY <1>3, <1>8, <1>13 DEF Overruns
  <2>6. PlaceOK' BY <1>8, <2>1, <2>2, <2>4, <2>5 DEF PlaceOK
  <2>7. LinesOK' BY <2>1 DEF LinesOK
  <2> QED BY <2>3, <2>6, <2>7 DEF IInv
<1> QED BY <1>12, <1>13

LEMMA AddWordStep == ASSUME IInv, AddWord PROVE IInv'
<1> DEFINE full  == max_chars > 0 /\ cur # <<>> /\ Len(cur) + Needs > max_chars
           line  == IF full THEN <<>> ELSE cur
           start == IF line # <<>> /\ Len(line) < OVL_MAX_LINE_LEN - 1
                    THEN Append(line, 0) ELSE line
           n     == Least(wlen, OVL_MAX_LINE_LEN - 1 - Len(start))
<1>1. /\ pc = "word" /\ out' = (IF full THEN Append(out, cur) ELSE out)
      /\ cur' = start \o Copied(p, n) /\ pc' = "skip" /\ p' = p + wlen
      /\ UNCHANGED <<input, wlen, i>>
      BY DEF AddWord
<1>2. /\ p \in 1 .. Len(text) + 1 /\ wlen \in Nat /\ i \in Nat /\ Len(text) \in Nat
      /\ p + wlen <= Len(text) + 1 /\ cur \in Seq(0 .. Len(text))
      BY <1>1, TextBoxAssumption DEF IInv, TextBoxTypeOK
<1>3. /\ HasLines /\ (max_chars > 0 => wlen <= max_chars) /\ max_chars \in Nat
      /\ OVL_MAX_LINE_LEN \in Nat /\ OVL_MAX_LINE_LEN > 1
      /\ Len(cur) < OVL_MAX_LINE_LEN
      BY <1>1, <1>2, WidthIs, TextBoxAssumption DEF IInv, PlaceOK, TooLong, LinesOK, Fits
<1>4. /\ line \in Seq(0 .. Len(text)) /\ Len(line) < OVL_MAX_LINE_LEN
      /\ max_chars > 0 /\ line # <<>> => Len(line) + 1 + wlen <= max_chars
  <2>1. CASE full
    <3>1. line = <<>> BY <2>1
    <3> HIDE DEF full, line
    <3>2. line \in Seq(0 .. Len(text)) /\ Len(line) = 0 BY <3>1
    <3> QED BY <1>3, <3>1, <3>2
  <2>2. CASE ~full
    <3>1. line = cur BY <2>2
    <3>2. ASSUME max_chars > 0, cur # <<>> PROVE Len(cur) + 1 + wlen <= max_chars
      <4>1. Needs = 1 + wlen BY <3>2 DEF Needs
      <4>2. ~(Len(cur) + Needs > max_chars) BY <2>2, <3>2
      <4> QED BY <1>2, <1>3, <4>1, <4>2
    <3> QED BY <1>2, <1>3, <3>1, <3>2
  <2> QED BY <2>1, <2>2
<1> HIDE DEF full, line
<1>5. /\ start \in Seq(0 .. Len(text)) /\ Len(start) <= OVL_MAX_LINE_LEN - 1
      /\ max_chars > 0 => Len(start) + wlen <= max_chars
  <2>1. CASE line # <<>> /\ Len(line) < OVL_MAX_LINE_LEN - 1
    <3>1. start = Append(line, 0) /\ 0 \in 0 .. Len(text) BY <1>2, <2>1
    <3>2. line \in Seq(0 .. Len(text)) BY <1>4
    <3>3. start \in Seq(0 .. Len(text)) /\ Len(start) = Len(line) + 1
          BY <3>1, <3>2, AppendProperties
    <3>4. Len(line) \in Nat BY <3>2
    <3> QED BY <1>2, <1>3, <1>4, <2>1, <3>3, <3>4
  <2>2. CASE ~(line # <<>> /\ Len(line) < OVL_MAX_LINE_LEN - 1)
    <3>1. start = line BY <2>2
    <3>2. Len(line) \in Nat /\ (line = <<>> => Len(line) = 0) BY <1>4
    <3> QED BY <1>2, <1>3, <1>4, <3>1, <3>2
  <2> QED BY <2>1, <2>2
<1> HIDE DEF start
<1>6. n \in Nat /\ n <= wlen /\ Len(start) + n < OVL_MAX_LINE_LEN
  <2>1. OVL_MAX_LINE_LEN - 1 - Len(start) \in Nat BY <1>3, <1>5
  <2> QED BY <1>2, <1>3, <1>5, <2>1 DEF Least
<1> HIDE DEF n
<1>7. Copied(p, n) \in Seq(0 .. Len(text)) /\ Len(Copied(p, n)) = n
  <2>1. p \in Nat \ {0} /\ p + n <= Len(text) + 1 BY <1>2, <1>6
  <2> QED BY <1>2, <1>6, <2>1, CopiedIs
<1>8. cur' \in Seq(0 .. Len(text)) /\ Len(cur') = Len(start) + n
      BY <1>1, <1>5, <1>7, ConcatProperties
<1>9. Len(start) \in Nat BY <1>5
<1>10. Fits(cur') BY <1>2, <1>3, <1>5, <1>6, <1>8, <1>9 DEF Fits
<1>11. p' \in 1 .. Len(text) + 1 BY <1>1, <1>2
<1>12. out' = out \/ out' = Append(out, cur) BY <1>1
<1> QED BY <1>1, <1>2, <1>3, <1>8, <1>10, <1>11, <1>12, FillStep

LEMMA NextStep == IInv /\ [Next]_vars => IInv'
<1> SUFFICES ASSUME IInv, [Next]_vars PROVE IInv' OBVIOUS
<1>1. Len(text) \in Nat BY TextBoxAssumption DEF IInv, TextBoxTypeOK
<1>2. CASE Finish
  <2>0. pc = "next" BY <1>2 DEF Finish
  <2>1. out' = out \/ (HasLines /\ out' = Append(out, cur)) BY <1>2 DEF Finish, LastLine
  <2>2. UNCHANGED <<input, p, wlen, i, cur>> /\ pc' = "done" BY <1>2 DEF Finish
  <2>3. CASE out' = out
    BY <2>0, <2>2, <2>3 DEF IInv, TextBoxTypeOK, PlaceOK, LinesOK, Fits, max_chars
  <2>4. CASE HasLines /\ out' = Append(out, cur)
    <3>1. TextBoxTypeOK' BY <2>0, <2>2, <2>4, AddedLine DEF IInv, TextBoxTypeOK
    <3>2. PlaceOK' BY <2>0, <2>2, <2>4, AddedLine DEF PlaceOK
    <3>3. LinesOK' BY <2>0, <2>2, <2>4, AddedLine, SameFits DEF IInv, LinesOK
    <3> QED BY <3>1, <3>2, <3>3 DEF IInv
  <2> QED BY <2>1, <2>3, <2>4
<1>3. CASE Newline BY <1>3, NewlineStep
<1>4. CASE WordBegins
  <2>1. PlaceOK' BY <1>4 DEF WordBegins, InText, IInv, PlaceOK, HasLines
  <2> QED BY <1>1, <1>4, <2>1, MoveStep DEF WordBegins, InText, IInv, TextBoxTypeOK
<1>5. CASE Scan
  <2>1. PlaceOK' BY <1>5 DEF Scan, IInv, PlaceOK, HasLines
  <2> QED BY <1>1, <1>5, <2>1, MoveStep DEF Scan, InWord, IInv, TextBoxTypeOK
<1>6. CASE WordEnds
  <2>1. PlaceOK' BY <1>6 DEF WordEnds, IInv, PlaceOK, HasLines, TooLong, max_chars
  <2> QED BY <1>1, <1>6, <2>1, MoveStep DEF WordEnds, IInv, TextBoxTypeOK
<1>7. CASE BreakWord BY <1>7, BreakWordStep
<1>8. CASE BreakEnds
  <2>1. PlaceOK' BY <1>8 DEF BreakEnds, IInv, PlaceOK
  <2>2. p' \in 1 .. Len(text) + 1 BY <1>1, <1>8 DEF BreakEnds, IInv, TextBoxTypeOK
  <2> QED BY <1>8, <2>1, <2>2, MoveStep DEF BreakEnds, IInv, TextBoxTypeOK
<1>9. CASE AddWord BY <1>9, AddWordStep
<1>10. CASE SkipSpace
  <2>1. PlaceOK' BY <1>10 DEF SkipSpace, IInv, PlaceOK
  <2>2. p' \in 1 .. Len(text) + 1
        BY <1>1, <1>10 DEF SkipSpace, AfterSpace, IInv, TextBoxTypeOK
  <2> QED BY <1>10, <2>1, <2>2, MoveStep DEF SkipSpace, IInv, TextBoxTypeOK
<1>11. CASE Drawn \/ UNCHANGED vars
  BY <1>11 DEF Drawn, vars, IInv, TextBoxTypeOK, PlaceOK, LinesOK, Fits, max_chars,
     HasLines, TooLong
<1> QED BY <1>2, <1>3, <1>4, <1>5, <1>6, <1>7, <1>8, <1>9, <1>10, <1>11 DEF Next

LEMMA Invariant == Spec => []IInv
BY InitIInv, NextStep, PTL DEF Spec

-----------------------------------------------------------------------------
(* What the lines show. *)

(* Every character before Bound has been placed, in order, unless a line or *)
(* the lines have come to their end; and a word is made of characters.      *)
Bound == IF pc = "long" THEN p + i ELSE p

WordOK ==
  pc \in {"scan", "long", "word", "overrun"} => \A k \in p .. p + wlen - 1 : text[k] = "char"

OutInOrder ==
  \A n \in 1 .. Len(out) :
    Rising(out[n]) /\ \A m \in 1 .. n - 1 : RisesInto(Characters(out[m]), out[n])

CurInOrder == Rising(cur) /\ RisesInto(Shown, cur)

FromText ==
  /\ Shown \cup Characters(cur) \subseteq Given
  /\ \A x \in Shown \cup Characters(cur) : x < Bound

Cut ==
  \/ Len(out) = OVL_MAX_LINES \/ Len(cur) = OVL_MAX_LINE_LEN - 1
  \/ \E n \in 1 .. Len(out) : Len(out[n]) = OVL_MAX_LINE_LEN - 1

AllPlaced == \A k \in Given : k < Bound => k \in Shown \cup Characters(cur)

KeptOK ==
  /\ pc = "done" => TextIsKept
  /\ pc \notin {"done", "overrun"} => OutInOrder /\ CurInOrder /\ FromText /\ (Cut \/ AllPlaced)

LEMMA NothingShown == Characters(<<>>) = {} /\ Rising(<<>>) /\ \A places : RisesInto(places, <<>>)
BY DEF Characters, Rising, RisesInto

(* A line that is added goes on where the lines before it end. *)
LEMMA LineEnds ==
  ASSUME IInv, OutInOrder, CurInOrder, out' = Append(out, cur)
  PROVE  /\ OutInOrder' /\ Shown' = Shown \cup Characters(cur) /\ Len(out') = Len(out) + 1
         /\ (\E n \in 1 .. Len(out') : Len(out'[n]) = OVL_MAX_LINE_LEN - 1) <=>
              \/ Len(cur) = OVL_MAX_LINE_LEN - 1
              \/ \E n \in 1 .. Len(out) : Len(out[n]) = OVL_MAX_LINE_LEN - 1
<1>1. out \in Seq(Seq(0 .. Len(text))) /\ Len(out) \in Nat BY DEF IInv, TextBoxTypeOK
<1>2. PICK last \in Nat : last = Len(out) + 1 BY <1>1
<1>3. /\ Len(out') = last /\ out'[last] = cur
      /\ \A n \in 1 .. Len(out) : out'[n] = out[n] /\ n \in 1 .. last
      /\ \A n \in 1 .. last : n \in 1 .. Len(out) \/ n = last
      /\ last \in 1 .. last /\ \A n \in 1 .. last - 1 : n \in 1 .. Len(out)
      BY <1>1, <1>2
<1>4. Shown' = Shown \cup Characters(cur)
  <2>1. ASSUME NEW x \in Shown' PROVE x \in Shown \cup Characters(cur)
    <3>1. PICK n \in 1 .. last : x \in Characters(out'[n]) BY <1>3, <2>1 DEF Shown
    <3> QED BY <1>3, <3>1 DEF Shown
  <2>2. ASSUME NEW x \in Shown PROVE x \in Shown'
    <3>1. PICK n \in 1 .. Len(out) : x \in Characters(out[n]) BY <2>2 DEF Shown
    <3> QED BY <1>3, <3>1 DEF Shown
  <2>3. ASSUME NEW x \in Characters(cur) PROVE x \in Shown' BY <1>3, <2>3 DEF Shown
  <2> QED BY <2>1, <2>2, <2>3
<1>5. ASSUME NEW n \in 1 .. last
      PROVE  Rising(out'[n]) /\ \A m \in 1 .. n - 1 : RisesInto(Characters(out'[m]), out'[n])
  <2>1. CASE n \in 1 .. Len(out)
    <3>1. \A m \in 1 .. n - 1 : m \in 1 .. Len(out) BY <1>1, <2>1
    <3> QED BY <1>3, <2>1, <3>1 DEF OutInOrder
  <2>2. CASE n = last
    <3>1. \A m \in 1 .. Len(out) : Characters(out[m]) \subseteq Shown BY DEF Shown
    <3>2. \A m \in 1 .. Len(out) : RisesInto(Characters(out[m]), cur)
          BY <3>1 DEF CurInOrder, RisesInto
    <3> QED BY <1>3, <2>2, <3>2 DEF CurInOrder
  <2> QED BY <1>3, <2>1, <2>2
<1>6. OutInOrder' BY <1>3, <1>5 DEF OutInOrder
<1>7. (\E n \in 1 .. last : Len(out'[n]) = OVL_MAX_LINE_LEN - 1) <=>
        \/ Len(cur) = OVL_MAX_LINE_LEN - 1
        \/ \E n \in 1 .. Len(out) : Len(out[n]) = OVL_MAX_LINE_LEN - 1
      BY <1>3
<1> QED BY <1>2, <1>3, <1>4, <1>6, <1>7

(* A space shows nothing, and a copy shows what it is a copy of. *)
LEMMA SpaceRises ==
  ASSUME NEW T \in Nat, NEW line \in Seq(0 .. T), Rising(line)
  PROVE  Rising(Append(line, 0)) /\ Characters(Append(line, 0)) = Characters(line)
<1> DEFINE new == Append(line, 0)
<1>1. /\ Len(line) \in Nat /\ Len(new) = Len(line) + 1 /\ new[Len(line) + 1] = 0
      /\ \A k \in 1 .. Len(line) : new[k] = line[k] /\ k \in 1 .. Len(new)
      BY AppendProperties, LenProperties
<1> HIDE DEF new
<1>2. \A k \in 1 .. Len(new) : k \in 1 .. Len(line) \/ k = Len(line) + 1 BY <1>1
<1>3. Characters(new) = Characters(line) BY <1>1, <1>2 DEF Characters
<1>4. Rising(new)
  <2> SUFFICES ASSUME NEW l \in 1 .. Len(new), NEW k \in 1 .. l - 1, new[k] > 0, new[l] > 0
               PROVE  new[k] < new[l]
      BY DEF Rising
  <2>1. l \in 1 .. Len(line) BY <1>1, <1>2
  <2>2. k \in 1 .. Len(line) BY <1>1, <2>1
  <2> QED BY <1>1, <2>1, <2>2 DEF Rising
<1> QED BY <1>3, <1>4 DEF new

LEMMA CopyRises ==
  ASSUME NEW T \in Nat, NEW line \in Seq(0 .. T), Rising(line),
         NEW from \in Nat \ {0}, NEW n \in Nat, from + n <= T + 1,
         \A x \in Characters(line) : x < from
  PROVE  /\ Rising(line \o Copied(from, n))
         /\ Characters(line \o Copied(from, n)) = Characters(line) \cup (from .. from + n - 1)
<1> DEFINE new == line \o Copied(from, n)
<1>1. /\ Copied(from, n) \in Seq(0 .. T) /\ Len(Copied(from, n)) = n
      /\ \A k \in 1 .. n : Copied(from, n)[k] = from + k - 1
      BY CopiedIs DEF Copied
<1>2. /\ Len(line) \in Nat /\ Len(new) = Len(line) + n
      /\ \A k \in 1 .. Len(line) + n :
           new[k] = IF k <= Len(line) THEN line[k] ELSE Copied(from, n)[k - Len(line)]
      BY <1>1, ConcatProperties, LenProperties
<1> HIDE DEF new
<1>3. \A k \in 1 .. Len(line) : new[k] = line[k] /\ k \in 1 .. Len(new) BY <1>2
<1>4. \A k \in 1 .. Len(new) : k \in 1 .. Len(line) \/ (k > Len(line) /\ k - Len(line) \in 1 .. n)
      BY <1>2
<1>5. \A k \in 1 .. Len(new) : k > Len(line) => new[k] = from + (k - Len(line)) - 1
  <2> SUFFICES ASSUME NEW k \in 1 .. Len(new), k > Len(line)
               PROVE  new[k] = from + (k - Len(line)) - 1
      OBVIOUS
  <2>1. k \in 1 .. Len(line) + n /\ ~(k <= Len(line)) /\ k - Len(line) \in 1 .. n BY <1>2
  <2> QED BY <1>1, <1>2, <2>1
<1>6. Characters(new) = Characters(line) \cup (from .. from + n - 1)
  <2>1. ASSUME NEW x \in Characters(new) PROVE x \in Characters(line) \cup (from .. from + n - 1)
    <3>1. PICK k \in 1 .. Len(new) : x = new[k] /\ x # 0 BY <2>1 DEF Characters
    <3>2. CASE k \in 1 .. Len(line) BY <1>3, <3>1, <3>2 DEF Characters
    <3>3. CASE k > Len(line) /\ k - Len(line) \in 1 .. n BY <1>2, <1>5, <3>1, <3>3
    <3> QED BY <1>4, <3>2, <3>3
  <2>2. ASSUME NEW x \in Characters(line) PROVE x \in Characters(new)
        BY <1>3, <2>2 DEF Characters
  <2>3. ASSUME NEW x \in from .. from + n - 1 PROVE x \in Characters(new)
    <3>0. x - from + 1 \in 1 .. n BY <2>3
    <3>1. PICK k \in 1 .. Len(new) : k = Len(line) + (x - from + 1)
      <4>1. Len(line) + (x - from + 1) \in 1 .. Len(line) + n BY <1>2, <3>0
      <4> QED BY <1>2, <4>1
    <3>2. k > Len(line) /\ from + (k - Len(line)) - 1 = x /\ x # 0 BY <1>2, <2>3, <3>1
    <3>3. new[k] = x BY <1>5, <3>2
    <3> QED BY <3>2, <3>3 DEF Characters
  <2> QED BY <2>1, <2>2, <2>3
<1>7. Rising(new)
  <2> SUFFICES ASSUME NEW l \in 1 .. Len(new), NEW k \in 1 .. l - 1, new[k] > 0, new[l] > 0
               PROVE  new[k] < new[l]
      BY DEF Rising
  <2>0. k \in 1 .. Len(new) /\ k < l /\ l \in Nat /\ k \in Nat BY <1>2
  <2>1. CASE l \in 1 .. Len(line)
    <3>1. k \in 1 .. Len(line) BY <1>2, <2>0, <2>1
    <3> QED BY <1>3, <2>1, <3>1 DEF Rising
  <2>2. CASE l > Len(line) /\ k \in 1 .. Len(line)
    <3>1. new[k] \in Characters(line) BY <1>3, <2>2 DEF Characters
    <3>2. new[k] < from /\ new[k] \in 0 .. T BY <1>3, <2>2, <3>1
    <3>3. new[l] = from + (l - Len(line)) - 1 BY <1>5, <2>2
    <3> QED BY <1>2, <2>0, <2>2, <3>2, <3>3
  <2>3. CASE l > Len(line) /\ k > Len(line)
    <3>1. new[l] = from + (l - Len(line)) - 1 /\ new[k] = from + (k - Len(line)) - 1
          BY <1>5, <2>0, <2>3
    <3> QED BY <1>2, <2>0, <3>1
  <2> QED BY <1>4, <2>0, <2>1, <2>2, <2>3
<1> QED BY <1>6, <1>7 DEF new

(* The line is filled with the characters from Bound on, n of them. *)
LEMMA FillKeeps ==
  ASSUME IInv, OutInOrder, CurInOrder, FromText, Cut \/ AllPlaced, UNCHANGED text,
         NEW from \in Nat, NEW n \in Nat, NEW to \in Nat, from = Bound, to = Bound', from + n <= to,
         NEW chars,
         \/ out' = out /\ chars = Characters(cur)
            /\ (Len(cur) = OVL_MAX_LINE_LEN - 1 => Len(cur') = OVL_MAX_LINE_LEN - 1)
         \/ HasLines /\ out' = Append(out, cur) /\ chars = {},
         Rising(cur'), Characters(cur') = chars \cup (from .. from + n - 1),
         from .. from + n - 1 \subseteq Given, Cut' \/ \A k \in Given : k < to => k < from + n
  PROVE  OutInOrder' /\ CurInOrder' /\ FromText' /\ (Cut' \/ AllPlaced')
<1>0. Len(text) \in Nat /\ Given \subseteq Nat BY TextBoxAssumption DEF IInv, TextBoxTypeOK, Given
<1>1. /\ OutInOrder' /\ Shown' \cup chars = Shown \cup Characters(cur)
      /\ \A x \in Shown' : \A y \in chars : x < y
      /\ Cut => Cut'
  <2>1. CASE /\ out' = out /\ chars = Characters(cur)
             /\ Len(cur) = OVL_MAX_LINE_LEN - 1 => Len(cur') = OVL_MAX_LINE_LEN - 1
    <3>1. OutInOrder' BY <2>1 DEF OutInOrder
    <3>2. Shown' = Shown BY <2>1 DEF Shown
    <3>3. \A x \in Shown : \A y \in chars : x < y BY <2>1 DEF CurInOrder, RisesInto
    <3>4. Cut => Cut' BY <2>1 DEF Cut
    <3> QED BY <2>1, <3>1, <3>2, <3>3, <3>4
  <2>2. CASE HasLines /\ out' = Append(out, cur) /\ chars = {}
    <3>1. Len(out) # OVL_MAX_LINES BY <2>2, TextBoxAssumption DEF HasLines
    <3>2. Cut => Cut' BY <2>2, <3>1, LineEnds DEF Cut
    <3> QED BY <2>2, <3>2, LineEnds
  <2> QED BY <2>1, <2>2
<1>2. Given' = Given BY DEF Given
<1>3. \A x \in Shown \cup Characters(cur) : x \in Given /\ x < from BY DEF FromText
<1>4. \A x \in Shown' : x \in Given /\ x < from BY <1>1, <1>3
<1>5. CurInOrder'
  <2>1. ASSUME NEW x \in Shown', NEW y \in Characters(cur') PROVE x < y
    <3>1. CASE y \in chars BY <1>1, <3>1
    <3>2. CASE y \in from .. from + n - 1
      <4>1. x \in Nat /\ x < from BY <1>0, <1>4
      <4>2. y \in Int /\ from <= y BY <3>2
      <4> QED BY <4>1, <4>2
    <3> QED BY <3>1, <3>2
  <2> QED BY <2>1 DEF CurInOrder, RisesInto
<1>6. FromText'
  <2>1. ASSUME NEW x \in Shown' \cup Characters(cur') PROVE x \in Given /\ x < to
    <3>1. CASE x \in Shown \cup Characters(cur)
      <4>1. x \in Given /\ x \in Nat /\ x < from BY <1>0, <1>3, <3>1
      <4>2. from <= to OBVIOUS
      <4> QED BY <4>1, <4>2
    <3>2. CASE x \in from .. from + n - 1 BY <3>2
    <3> QED BY <1>1, <3>1, <3>2
  <2> QED BY <1>2, <2>1 DEF FromText
<1>7. Cut' \/ AllPlaced'
  <2> SUFFICES ASSUME ~Cut' PROVE AllPlaced' OBVIOUS
  <2>1. AllPlaced BY <1>1
  <2>2. ASSUME NEW k \in Given, k < to PROVE k \in Shown' \cup Characters(cur')
    <3>1. k < from + n /\ k \in Nat BY <1>0, <2>2
    <3>2. CASE k < from BY <1>1, <2>1, <3>2 DEF AllPlaced
    <3>3. CASE k \in from .. from + n - 1 BY <3>3
    <3> QED BY <3>1, <3>2, <3>3
  <2> QED BY <1>2, <2>2 DEF AllPlaced
<1> QED BY <1>1, <1>5, <1>6, <1>7

KInv == IInv /\ WordOK /\ KeptOK

(* The parts of a word that has been found. *)
LEMMA WordIs ==
  ASSUME KInv, pc \in {"long", "word"}
  PROVE  /\ p \in Nat \ {0} /\ wlen \in Nat /\ i \in Nat /\ Len(text) \in Nat
         /\ p + wlen <= Len(text) + 1 /\ p .. p + wlen - 1 \subseteq Given
         /\ cur \in Seq(0 .. Len(text)) /\ (pc = "long" => i <= wlen)
         /\ OutInOrder /\ CurInOrder /\ FromText /\ (Cut \/ AllPlaced)
<1>1. /\ p \in Nat \ {0} /\ wlen \in Nat /\ i \in Nat /\ Len(text) \in Nat
      /\ p + wlen <= Len(text) + 1 /\ cur \in Seq(0 .. Len(text)) /\ (pc = "long" => i <= wlen)
      BY TextBoxAssumption DEF KInv, IInv, TextBoxTypeOK
<1>2. p .. p + wlen - 1 \subseteq Given BY <1>1 DEF KInv, WordOK, Given
<1> QED BY <1>1, <1>2 DEF KInv, KeptOK

LEMMA BreakWordShows == ASSUME KInv, BreakWord PROVE KeptOK'
<1>0. CASE pc' = "overrun" BY <1>0 DEF KeptOK
<1> SUFFICES ASSUME pc' # "overrun" PROVE KeptOK' BY <1>0
<1> DEFINE full == Len(cur) >= max_chars
           line == IF full THEN <<>> ELSE cur
           n    == Least(wlen - i, max_chars - Len(line))
<1>1. /\ pc = "long" /\ i < wlen /\ HasLines
      /\ out' = (IF full THEN Append(out, cur) ELSE out)
      /\ cur' = line \o Copied(p + i, n) /\ i' = i + n
      /\ pc' = (IF Overruns(cur') THEN "overrun" ELSE pc)
      /\ UNCHANGED <<input, p, wlen>>
      BY DEF BreakWord
<1>2. /\ p \in Nat \ {0} /\ wlen \in Nat /\ i \in Nat /\ Len(text) \in Nat
      /\ p + wlen <= Len(text) + 1 /\ p .. p + wlen - 1 \subseteq Given
      /\ cur \in Seq(0 .. Len(text))
      /\ OutInOrder /\ CurInOrder /\ FromText /\ (Cut \/ AllPlaced)
      BY <1>1, WordIs
<1>3. max_chars \in Nat \ {0} /\ OVL_MAX_LINE_LEN \in Nat /\ OVL_MAX_LINE_LEN > 1
      BY <1>1, WidthIs, TextBoxAssumption DEF KInv, IInv, PlaceOK, TooLong
<1>4. /\ line \in Seq(0 .. Len(text)) /\ Len(line) < max_chars /\ Len(line) \in Nat
      /\ Rising(line) /\ Characters(line) \subseteq Characters(cur)
      /\ \/ ~full /\ line = cur /\ out' = out
         \/ full /\ line = <<>> /\ out' = Append(out, cur)
  <2>1. CASE full BY <1>1, <1>3, <2>1, NothingShown
  <2>2. CASE ~full BY <1>1, <1>2, <1>3, <2>2 DEF CurInOrder
  <2> QED BY <2>1, <2>2
<1> HIDE DEF full, line
<1>5. n \in Nat /\ n <= wlen - i /\ n >= 1
  <2>1. wlen - i \in Nat \ {0} /\ max_chars - Len(line) \in Nat \ {0} BY <1>1, <1>2, <1>3, <1>4
  <2> QED BY <1>2, <1>3, <1>4, <2>1 DEF Least
<1> HIDE DEF n
<1>6. PICK from \in Nat \ {0}, size \in Nat, T \in Nat : from = p + i /\ size = n /\ T = Len(text)
  <2>1. p + i \in Nat \ {0} BY <1>2
  <2> QED BY <1>2, <1>5, <2>1
<1>7. from = Bound /\ from + size = Bound' /\ from + size <= T + 1
      /\ from .. from + size - 1 \subseteq p .. p + wlen - 1
      BY <1>1, <1>2, <1>5, <1>6 DEF Bound
<1>8. \A x \in Characters(line) : x < from BY <1>2, <1>4, <1>7 DEF FromText
<1>9. /\ Rising(line \o Copied(from, size))
      /\ Characters(line \o Copied(from, size)) = Characters(line) \cup (from .. from + size - 1)
      BY <1>4, <1>6, <1>7, <1>8, CopyRises
<1>10. Rising(cur') /\ Characters(cur') = Characters(line) \cup (from .. from + size - 1)
      BY <1>1, <1>6, <1>9
<1>11. PICK chars : chars = Characters(line) OBVIOUS
<1>18. line = cur => Len(cur) # OVL_MAX_LINE_LEN - 1
  <2>1. Len(cur') = Len(line) + size
    <3>1. Copied(from, size) \in Seq(0 .. T) /\ Len(Copied(from, size)) = size
          BY <1>7, CopiedIs
    <3>2. line \in Seq(0 .. T) BY <1>4, <1>6
    <3>3. Len(line \o Copied(from, size)) = Len(line) + Len(Copied(from, size))
          BY <3>1, <3>2, ConcatProperties
    <3> QED BY <1>1, <1>6, <3>1, <3>3
  <2>2. ~(Len(cur') >= OVL_MAX_LINE_LEN) BY <1>1 DEF Overruns
  <2> QED BY <1>3, <1>4, <1>5, <1>6, <2>1, <2>2
<1>12. \/ out' = out /\ chars = Characters(cur)
          /\ (Len(cur) = OVL_MAX_LINE_LEN - 1 => Len(cur') = OVL_MAX_LINE_LEN - 1)
       \/ HasLines /\ out' = Append(out, cur) /\ chars = {}
      BY <1>1, <1>4, <1>11, <1>18, NothingShown
<1>13. from .. from + size - 1 \subseteq Given BY <1>2, <1>7
<1>14. PICK to \in Nat : to = from + size OBVIOUS
<1>16. to = Bound' /\ from + size <= to /\ \A k \in Given : k < to => k < from + size
      BY <1>7, <1>14
<1>17. Characters(cur') = chars \cup (from .. from + size - 1) BY <1>10, <1>11
<1>15. OutInOrder' /\ CurInOrder' /\ FromText' /\ (Cut' \/ AllPlaced')
      BY <1>1, <1>2, <1>7, <1>10, <1>12, <1>13, <1>16, <1>17, FillKeeps DEF KInv
<1> QED BY <1>1, <1>15 DEF KeptOK

LEMMA AddWordShows == ASSUME KInv, AddWord PROVE KeptOK'
<1> DEFINE full  == max_chars > 0 /\ cur # <<>> /\ Len(cur) + Needs > max_chars
           line  == IF full THEN <<>> ELSE cur
           start == IF line # <<>> /\ Len(line) < OVL_MAX_LINE_LEN - 1 THEN Append(line, 0) ELSE line
           n     == Least(wlen, OVL_MAX_LINE_LEN - 1 - Len(start))
<1>1. /\ pc = "word"
      /\ out' = (IF full THEN Append(out, cur) ELSE out)
      /\ cur' = start \o Copied(p, n) /\ pc' = "skip" /\ p' = p + wlen
      /\ UNCHANGED <<input, wlen, i>>
      BY DEF AddWord
<1>2. /\ p \in Nat \ {0} /\ wlen \in Nat /\ Len(text) \in Nat
      /\ p + wlen <= Len(text) + 1 /\ p .. p + wlen - 1 \subseteq Given
      /\ cur \in Seq(0 .. Len(text))
      /\ OutInOrder /\ CurInOrder /\ FromText /\ (Cut \/ AllPlaced)
      BY <1>1, WordIs
<1>3. OVL_MAX_LINE_LEN \in Nat /\ OVL_MAX_LINE_LEN > 1 /\ HasLines
      /\ Len(cur) < OVL_MAX_LINE_LEN
      BY <1>1, TextBoxAssumption DEF KInv, IInv, PlaceOK, LinesOK, Fits
<1>4. /\ line \in Seq(0 .. Len(text)) /\ Len(line) <= OVL_MAX_LINE_LEN - 1 /\ Len(line) \in Nat
      /\ Rising(line) /\ Characters(line) \subseteq Characters(cur)
      /\ \/ line = cur /\ out' = out
         \/ line = <<>> /\ out' = Append(out, cur)
  <2>1. CASE full BY <1>1, <1>3, <2>1, NothingShown
  <2>2. CASE ~full BY <1>1, <1>2, <1>3, <2>2 DEF CurInOrder
  <2> QED BY <2>1, <2>2
<1> HIDE DEF full, line
<1>5. PICK T \in Nat : T = Len(text) BY <1>2
<1>6. /\ start \in Seq(0 .. T) /\ Len(start) <= OVL_MAX_LINE_LEN - 1 /\ Len(start) \in Nat
      /\ Rising(start) /\ Characters(start) = Characters(line)
      /\ Len(line) = OVL_MAX_LINE_LEN - 1 => Len(start) = OVL_MAX_LINE_LEN - 1
  <2>1. CASE line # <<>> /\ Len(line) < OVL_MAX_LINE_LEN - 1
    <3>1. start = Append(line, 0) /\ 0 \in 0 .. T BY <2>1
    <3>2. start \in Seq(0 .. T) /\ Len(start) = Len(line) + 1
      <4>1. line \in Seq(0 .. T) BY <1>4, <1>5
      <4> QED BY <3>1, <4>1, AppendProperties
    <3>3. Rising(start) /\ Characters(start) = Characters(line)
          BY <1>4, <1>5, <3>1, SpaceRises
    <3> QED BY <1>3, <1>4, <2>1, <3>2, <3>3
  <2>2. CASE ~(line # <<>> /\ Len(line) < OVL_MAX_LINE_LEN - 1)
    <3>1. start = line BY <2>2
    <3> QED BY <1>4, <1>5, <3>1
  <2> QED BY <2>1, <2>2
<1> HIDE DEF start
<1>7. n \in Nat /\ n <= wlen /\ (n = wlen \/ n = OVL_MAX_LINE_LEN - 1 - Len(start))
      /\ Len(start) + n <= OVL_MAX_LINE_LEN - 1
  <2>1. OVL_MAX_LINE_LEN - 1 - Len(start) \in Nat BY <1>3, <1>6
  <2> QED BY <1>2, <1>3, <1>6, <2>1 DEF Least
<1> HIDE DEF n
<1>8. PICK from \in Nat \ {0}, size \in Nat, to \in Nat : from = p /\ size = n /\ to = p + wlen
      BY <1>2, <1>7
<1>9. from = Bound /\ to = Bound' /\ from + size <= T + 1 /\ from + size <= to
      /\ from .. from + size - 1 \subseteq p .. p + wlen - 1
      BY <1>1, <1>2, <1>5, <1>7, <1>8 DEF Bound
<1>10. \A x \in Characters(start) : x < from BY <1>2, <1>4, <1>6, <1>9 DEF FromText
<1>11. /\ Rising(start \o Copied(from, size))
       /\ Characters(start \o Copied(from, size)) = Characters(start) \cup (from .. from + size - 1)
      BY <1>6, <1>9, <1>10, CopyRises
<1>12. Rising(cur') /\ Characters(cur') = Characters(line) \cup (from .. from + size - 1)
      BY <1>1, <1>6, <1>8, <1>11
<1>13. Len(cur') = Len(start) + size
  <2>1. Copied(from, size) \in Seq(0 .. T) /\ Len(Copied(from, size)) = size BY <1>9, CopiedIs
  <2>2. Len(start \o Copied(from, size)) = Len(start) + Len(Copied(from, size))
        BY <1>6, <2>1, ConcatProperties
  <2> QED BY <1>1, <1>8, <2>1, <2>2
<1>14. PICK chars : chars = Characters(line) OBVIOUS
<1>15. \/ out' = out /\ chars = Characters(cur)
          /\ (Len(cur) = OVL_MAX_LINE_LEN - 1 => Len(cur') = OVL_MAX_LINE_LEN - 1)
       \/ HasLines /\ out' = Append(out, cur) /\ chars = {}
  <2>1. CASE line = cur /\ out' = out
    <3>1. Len(cur) = OVL_MAX_LINE_LEN - 1 => Len(cur') = OVL_MAX_LINE_LEN - 1
          BY <1>3, <1>6, <1>7, <1>8, <1>13, <2>1
    <3> QED BY <1>14, <2>1, <3>1
  <2>2. CASE line = <<>> /\ out' = Append(out, cur) BY <1>3, <1>14, <2>2, NothingShown
  <2> QED BY <1>4, <2>1, <2>2
<1>16. from .. from + size - 1 \subseteq Given BY <1>2, <1>9
<1>17. Cut' \/ \A k \in Given : k < to => k < from + size
  <2>1. CASE n = wlen BY <1>8, <2>1
  <2>2. CASE n = OVL_MAX_LINE_LEN - 1 - Len(start)
    <3>1. Len(cur') = OVL_MAX_LINE_LEN - 1 BY <1>3, <1>6, <1>8, <1>13, <2>2
    <3> QED BY <3>1 DEF Cut
  <2> QED BY <1>7, <2>1, <2>2
<1>18. OutInOrder' /\ CurInOrder' /\ FromText' /\ (Cut' \/ AllPlaced')
      BY <1>1, <1>2, <1>9, <1>12, <1>14, <1>15, <1>16, <1>17, FillKeeps DEF KInv
<1> QED BY <1>1, <1>18 DEF KeptOK

(* Where no line is touched, the characters that are passed have been placed. *)
LEMMA MoveShows ==
  ASSUME KInv, UNCHANGED <<input, cur, out>>,
         pc \notin {"done", "overrun"}, pc' \notin {"done", "overrun"},
         Bound \in Nat, Bound' \in Nat, Bound <= Bound',
         Len(out) = OVL_MAX_LINES \/ \A k \in Given : k < Bound' => k < Bound
  PROVE  KeptOK'
<1>1. OutInOrder /\ CurInOrder /\ FromText /\ (Cut \/ AllPlaced) BY DEF KInv, KeptOK
<1>2. PICK from \in Nat, to \in Nat : from = Bound /\ to = Bound' OBVIOUS
<1>3. Given' = Given /\ Shown' = Shown BY DEF Given, Shown
<1>4. OutInOrder' BY <1>1 DEF OutInOrder
<1>5. CurInOrder' BY <1>1, <1>3 DEF CurInOrder
<1>6. Cut => Cut' BY DEF Cut
<1>7. Given \subseteq Nat BY TextBoxAssumption DEF KInv, IInv, TextBoxTypeOK, Given
<1>8. FromText'
  <2>1. \A x \in Shown \cup Characters(cur) : x \in Given /\ x < from BY <1>1, <1>2 DEF FromText
  <2>2. from <= to /\ Given \subseteq Nat BY <1>2, <1>7
  <2>3. ASSUME NEW x \in Shown \cup Characters(cur) PROVE x < to
    <3>1. x \in Nat /\ x < from BY <2>1, <2>2
    <3> QED BY <2>2, <3>1
  <2> QED BY <1>2, <1>3, <2>1, <2>3 DEF FromText
<1>9. Cut' \/ AllPlaced'
  <2>1. CASE Cut BY <1>6, <2>1
  <2>2. CASE Len(out) = OVL_MAX_LINES BY <2>2 DEF Cut
  <2>3. CASE AllPlaced /\ \A k \in Given : k < Bound' => k < Bound
        BY <1>3, <2>3 DEF AllPlaced
  <2> QED BY <1>1, <2>1, <2>2, <2>3
<1> QED BY <1>4, <1>5, <1>8, <1>9 DEF KeptOK

LEMMA FinishShows == ASSUME KInv, Finish PROVE KeptOK'
<1>1. /\ pc = "next" /\ (p > Len(text) \/ ~HasLines) /\ pc' = "done" /\ out' = LastLine
      /\ UNCHANGED <<input, p, wlen, i, cur>>
      BY DEF Finish
<1>2. OutInOrder /\ CurInOrder /\ FromText /\ (Cut \/ AllPlaced) BY <1>1 DEF KInv, KeptOK
<1>3. p \in Nat /\ Len(text) \in Nat /\ Bound = p BY <1>1, TextBoxAssumption DEF KInv, IInv, TextBoxTypeOK, Bound
<1>4. ~HasLines => Len(out) = OVL_MAX_LINES
  <2>1. out \in Seq(Seq(0 .. Len(text))) /\ Len(out) <= OVL_MAX_LINES
        BY DEF KInv, IInv, TextBoxTypeOK, PlaceOK
  <2> QED BY <2>1, TextBoxAssumption DEF HasLines
<1>5. Given' = Given BY <1>1 DEF Given
<1>6. HasLines /\ AllPlaced => Given \subseteq Shown \cup Characters(cur)
  <2> SUFFICES ASSUME HasLines, AllPlaced, NEW k \in Given PROVE k \in Shown \cup Characters(cur)
      OBVIOUS
  <2>1. k \in 1 .. Len(text) BY DEF Given
  <2>2. k < p BY <1>1, <1>3, <2>1
  <2> QED BY <1>3, <2>2 DEF AllPlaced
<1>7. CASE cur # <<>> /\ HasLines
  <2>1. out' = Append(out, cur) BY <1>1, <1>7 DEF LastLine
  <2>2. /\ OutInOrder' /\ Shown' = Shown \cup Characters(cur)
        /\ (\E n \in 1 .. Len(out') : Len(out'[n]) = OVL_MAX_LINE_LEN - 1) <=>
              \/ Len(cur) = OVL_MAX_LINE_LEN - 1
              \/ \E n \in 1 .. Len(out) : Len(out[n]) = OVL_MAX_LINE_LEN - 1
        BY <1>2, <2>1, LineEnds DEF KInv
  <2>3. Shown' \subseteq Given BY <1>2, <2>2 DEF FromText
  <2>4. Len(out) # OVL_MAX_LINES BY <1>7, TextBoxAssumption DEF HasLines
  <2>5. \/ \E n \in 1 .. Len(out') : Len(out'[n]) = OVL_MAX_LINE_LEN - 1
        \/ Given \subseteq Shown'
        BY <1>2, <1>6, <1>7, <2>2, <2>4 DEF Cut
  <2>6. TextIsKept' BY <1>5, <2>2, <2>3, <2>5 DEF TextIsKept, OutInOrder
  <2> QED BY <1>1, <2>6 DEF KeptOK
<1>8. CASE ~(cur # <<>> /\ HasLines)
  <2>1. out' = out BY <1>1, <1>8 DEF LastLine
  <2>2. Shown' = Shown /\ OutInOrder' BY <1>2, <2>1 DEF Shown, OutInOrder
  <2>3. Shown \subseteq Given BY <1>2 DEF FromText
  <2>4. \/ Len(out) = OVL_MAX_LINES
        \/ \E n \in 1 .. Len(out) : Len(out[n]) = OVL_MAX_LINE_LEN - 1
        \/ Given \subseteq Shown
    <3>1. CASE ~HasLines BY <1>4, <3>1
    <3>2. CASE HasLines
      <4>1. cur = <<>> /\ Characters(cur) = {} BY <1>8, <3>2, NothingShown
      <4>2. Len(cur) # OVL_MAX_LINE_LEN - 1 BY <4>1, TextBoxAssumption
      <4> QED BY <1>2, <1>6, <3>2, <4>1, <4>2 DEF Cut
    <3> QED BY <3>1, <3>2
  <2>5. TextIsKept' BY <1>5, <2>1, <2>2, <2>3, <2>4 DEF TextIsKept, OutInOrder
  <2> QED BY <1>1, <2>5 DEF KeptOK
<1> QED BY <1>7, <1>8

LEMMA NewlineShows == ASSUME KInv, Newline PROVE KeptOK'
<1>1. /\ pc = "next" /\ p <= Len(text) /\ HasLines /\ text[p] = "newline" /\ pc' = pc
      /\ out' = Append(out, cur) /\ cur' = <<>> /\ p' = p + 1 /\ UNCHANGED input
      BY DEF Newline, InText, EndsLine
<1>2. p \in Nat /\ Len(text) \in Nat BY TextBoxAssumption DEF KInv, IInv, TextBoxTypeOK
<1>3. OutInOrder /\ CurInOrder /\ FromText /\ (Cut \/ AllPlaced) BY <1>1 DEF KInv, KeptOK
<1>4. PICK from \in Nat, to \in Nat : from = p /\ to = p + 1 BY <1>2
<1>5. from = Bound /\ to = Bound' /\ from + 0 <= to /\ from .. from + 0 - 1 = {}
      BY <1>1, <1>4 DEF Bound
<1>6. \A k \in Given : k < to => k < from + 0
  <2> SUFFICES ASSUME NEW k \in Given, k < to PROVE k < from + 0 OBVIOUS
  <2>1. k \in Nat /\ k # p BY <1>1, <1>2 DEF Given
  <2> QED BY <1>4, <2>1
<1>7. Rising(cur') /\ Characters(cur') = {} BY <1>1, NothingShown
<1>8. OutInOrder' /\ CurInOrder' /\ FromText' /\ (Cut' \/ AllPlaced')
      BY <1>1, <1>3, <1>5, <1>6, <1>7, FillKeeps DEF KInv
<1> QED BY <1>1, <1>8 DEF KeptOK

LEMMA KInitOK == Init => KInv
<1> SUFFICES ASSUME Init PROVE KInv OBVIOUS
<1>1. IInv BY InitIInv
<1>2. WordOK BY DEF Init, WordOK
<1>3. Shown = {} /\ Characters(cur) = {} BY NothingShown DEF Init, Shown
<1>4. OutInOrder /\ CurInOrder /\ FromText
      BY <1>3, NothingShown DEF Init, OutInOrder, CurInOrder, FromText
<1>5. AllPlaced BY DEF Init, AllPlaced, Given, Bound
<1>6. KeptOK BY <1>4, <1>5 DEF KeptOK, Init
<1> QED BY <1>1, <1>2, <1>6 DEF KInv

LEMMA KStep == KInv /\ [Next]_vars => KInv'
<1> SUFFICES ASSUME KInv, [Next]_vars PROVE KInv' OBVIOUS
<1>0. IInv' BY NextStep DEF KInv
<1>1. p \in Nat /\ wlen \in Nat /\ i \in Nat /\ Len(text) \in Nat
      BY TextBoxAssumption DEF KInv, IInv, TextBoxTypeOK
<1>2. CASE Finish
  <2>1. WordOK' BY <1>2 DEF Finish, WordOK
  <2> QED BY <1>0, <1>2, <2>1, FinishShows DEF KInv
<1>3. CASE Newline
  <2>1. WordOK' BY <1>3 DEF Newline, InText, WordOK
  <2> QED BY <1>0, <1>3, <2>1, NewlineShows DEF KInv
<1>4. CASE WordBegins
  <2>1. /\ pc = "next" /\ pc' = "scan" /\ wlen' = 0 /\ UNCHANGED <<input, p, i, cur, out>>
        BY <1>4 DEF WordBegins, InText
  <2>2. WordOK'
    <3>1. p' .. p' + wlen' - 1 = {} BY <1>1, <2>1
    <3> QED BY <3>1 DEF WordOK
  <2>3. Bound = p /\ Bound' = p BY <2>1 DEF Bound
  <2>4. KeptOK' BY <1>1, <2>1, <2>3, MoveShows
  <2> QED BY <1>0, <2>2, <2>4 DEF KInv
<1>5. CASE Scan
  <2>1. /\ pc = "scan" /\ pc' = pc /\ wlen' = wlen + 1 /\ UNCHANGED <<input, p, i, cur, out>>
        /\ text[p + wlen] = "char"
        BY <1>5 DEF Scan, InWord
  <2>2. WordOK'
    <3>1. \A k \in p .. p + (wlen + 1) - 1 : k \in p .. p + wlen - 1 \/ k = p + wlen BY <1>1
    <3> QED BY <2>1, <3>1 DEF KInv, WordOK
  <2>3. Bound = p /\ Bound' = p BY <2>1 DEF Bound
  <2>4. KeptOK' BY <1>1, <2>1, <2>3, MoveShows
  <2> QED BY <1>0, <2>2, <2>4 DEF KInv
<1>6. CASE WordEnds
  <2>1. /\ pc = "scan" /\ pc' \in {"long", "word"} /\ i' = 0 /\ UNCHANGED <<input, p, wlen, cur, out>>
        BY <1>6 DEF WordEnds
  <2>2. WordOK' BY <2>1 DEF KInv, WordOK
  <2>3. Bound = p /\ Bound' = p BY <1>1, <2>1 DEF Bound
  <2>4. KeptOK' BY <1>1, <2>1, <2>3, MoveShows
  <2> QED BY <1>0, <2>2, <2>4 DEF KInv
<1>7. CASE BreakWord
  <2>1. WordOK' BY <1>7 DEF BreakWord, KInv, WordOK
  <2> QED BY <1>0, <1>7, <2>1, BreakWordShows DEF KInv
<1>8. CASE BreakEnds
  <2>1. /\ pc = "long" /\ ~(i < wlen /\ HasLines) /\ pc' = "skip" /\ p' = p + wlen
        /\ UNCHANGED <<input, wlen, i, cur, out>>
        BY <1>8 DEF BreakEnds
  <2>2. WordOK' BY <2>1 DEF WordOK
  <2>3. i <= wlen BY <2>1, WordIs
  <2>4. Bound = p + i /\ Bound' = p + wlen /\ Bound <= Bound' BY <1>1, <2>1, <2>3 DEF Bound
  <2>5. Len(out) = OVL_MAX_LINES \/ i = wlen
    <3>1. out \in Seq(Seq(0 .. Len(text))) /\ Len(out) <= OVL_MAX_LINES
          BY DEF KInv, IInv, TextBoxTypeOK, PlaceOK
    <3> QED BY <1>1, <2>1, <2>3, <3>1, TextBoxAssumption DEF HasLines
  <2>6. KeptOK' BY <1>1, <2>1, <2>4, <2>5, MoveShows
  <2> QED BY <1>0, <2>2, <2>6 DEF KInv
<1>9. CASE AddWord
  <2>1. WordOK' BY <1>9 DEF AddWord, WordOK
  <2> QED BY <1>0, <1>9, <2>1, AddWordShows DEF KInv
<1>10. CASE SkipSpace
  <2>1. /\ pc = "skip" /\ pc' = "next" /\ p' = AfterSpace /\ UNCHANGED <<input, wlen, i, cur, out>>
        BY <1>10 DEF SkipSpace
  <2>2. WordOK' BY <2>1 DEF WordOK
  <2>3. p' = p \/ (p' = p + 1 /\ text[p] = "space") BY <2>1 DEF AfterSpace
  <2>4. Bound = p /\ Bound' = p' BY <2>1 DEF Bound
  <2>5. \A k \in Given : k < p' => k < p
    <3> SUFFICES ASSUME NEW k \in Given, k < p' PROVE k < p OBVIOUS
    <3>1. k \in Nat /\ text[k] = "char" BY <1>1 DEF Given
    <3> QED BY <1>1, <2>3, <3>1
  <2>6. KeptOK' BY <1>1, <2>1, <2>3, <2>4, <2>5, MoveShows
  <2> QED BY <1>0, <2>2, <2>6 DEF KInv
<1>11. CASE Drawn \/ UNCHANGED vars
  <2>1. UNCHANGED vars BY <1>11 DEF Drawn
  <2>2. WordOK' BY <2>1 DEF vars, KInv, WordOK
  <2>3. /\ Shown' = Shown /\ Given' = Given /\ (OutInOrder' <=> OutInOrder) /\ (Cut' <=> Cut)
        /\ Bound' = Bound /\ cur' = cur /\ pc' = pc /\ out' = out
        BY <2>1 DEF vars, Shown, Given, OutInOrder, Cut, Bound
  <2>4. TextIsKept' <=> TextIsKept BY <2>3 DEF TextIsKept
  <2>5. KeptOK' BY <2>3, <2>4 DEF KInv, KeptOK, CurInOrder, FromText, AllPlaced
  <2> QED BY <1>0, <2>2, <2>5 DEF KInv
<1> QED BY <1>2, <1>3, <1>4, <1>5, <1>6, <1>7, <1>8, <1>9, <1>10, <1>11 DEF Next

-----------------------------------------------------------------------------
(* The place of the box. *)

(* Products and quotients, for the size of a line in pixels. *)
LEMMA TimesGrows ==
  ASSUME NEW a \in Nat, NEW b \in Nat, NEW d \in Nat, a <= b
  PROVE  a * d <= b * d
BY Z3

LEMMA TimesEight ==
  ASSUME NEW a \in Int, NEW b \in Int
  PROVE  a * 8 * b = a * (8 * b) /\ (a - 1) * 8 * b + 8 * b = a * 8 * b
BY Z3

LEMMA QuotientTimes ==
  ASSUME NEW w \in Nat, NEW d \in Nat \ {0}
  PROVE  w \div d \in Nat /\ (w \div d) * d <= w /\ (w >= d => w \div d >= 1)
<1>1. w \div d \in Nat OBVIOUS
<1>2. (w \div d) * d <= w BY Z3
<1>3. w >= d => w \div d >= 1 OBVIOUS
<1> QED BY <1>1, <1>2, <1>3

(* A box of at least one character is as wide as any of its lines. *)
LEMMA LinesInWidth ==
  ASSUME IInv, pc = "done", box_w >= 8 * scale, NEW n \in 1 .. Len(out)
  PROVE  LineW(n) \in Nat /\ LineW(n) <= box_w
<1> DEFINE d == 8 * scale
           q == box_w \div d
           l == Len(out[n])
<1>1. box_w \in Nat /\ scale \in Nat \ {0}
      BY TextBoxAssumption DEF IInv, TextBoxTypeOK
<1>2. d \in Nat \ {0} /\ box_w >= d BY <1>1
<1> HIDE DEF d
<1>3. q \in Nat /\ q * d <= box_w /\ q >= 1 BY <1>1, <1>2, QuotientTimes
<1>4. max_chars = q
      BY <1>1, <1>2, <1>3 DEF max_chars, CharsIn, d
<1>5. l \in Nat
  <2>1. out[n] \in Seq(0 .. Len(text)) BY DEF IInv, TextBoxTypeOK
  <2> QED BY <2>1
<1>6. l <= q BY <1>3, <1>4 DEF IInv, LinesOK, Fits
<1> HIDE DEF q, l
<1>7. l * d <= q * d BY <1>2, <1>3, <1>5, <1>6, TimesGrows
<1>8. l * d \in Nat BY <1>2, <1>5, Z3
<1>9. LineW(n) = l * d
  <2>1. l * 8 * scale = l * (8 * scale) BY <1>1, <1>5, TimesEight
  <2> QED BY <2>1, Zenon DEF LineW, l, d
<1> QED BY <1>1, <1>2, <1>3, <1>7, <1>8, <1>9, Z3

-----------------------------------------------------------------------------
(* The theorems. *)

(* build_lines reads and copies within the text, whatever the text. *)
THEOREM TypeCorrect == Spec => []TextBoxTypeOK
<1>1. IInv => TextBoxTypeOK BY DEF IInv
<1> QED BY <1>1, Invariant, PTL

(* The copies of build_lines stay within the buffers and the box, for every *)
(* text and width, but for one word: one that is too long for a box that is *)
(* as wide as a buffer.  There the copy is bounded by the box alone.        *)
THEOREM OnlyWideBoxesOverrunBuffers == Spec => []OnlyWideBoxesOverrun
<1>1. KInv => OnlyWideBoxesOverrun
  <2> SUFFICES ASSUME KInv PROVE OnlyWideBoxesOverrun OBVIOUS
  <2>1. CASE pc # "overrun"
    <3>1. LinesFit BY <2>1 DEF KInv, IInv, PlaceOK, LinesOK, Fits, LinesFit
    <3> QED BY <3>1 DEF OnlyWideBoxesOverrun
  <2>2. CASE pc = "overrun"
    <3>1. /\ max_chars >= OVL_MAX_LINE_LEN /\ max_chars > 0 /\ wlen > max_chars
          /\ max_chars \in Nat
          BY <2>2, WidthIs DEF KInv, IInv, PlaceOK, TooLong
    <3>2. PICK m \in Nat : m = max_chars BY <3>1
    <3>3. /\ p \in 1 .. Len(text) + 1 /\ wlen \in Nat /\ Len(text) \in Nat
          /\ p + wlen <= Len(text) + 1
          BY <2>2, TextBoxAssumption DEF KInv, IInv, TextBoxTypeOK
    <3>4. \A k \in p .. p + wlen - 1 : text[k] = "char" BY <2>2 DEF KInv, WordOK
    <3>5. /\ p \in 1 .. Len(text) /\ p + m <= Len(text)
          /\ \A k \in p .. p + m : k \in p .. p + wlen - 1
          BY <3>1, <3>2, <3>3
    <3>6. HasWordOver(m) BY <3>4, <3>5 DEF HasWordOver
    <3> QED BY <3>1, <3>2, <3>6 DEF OnlyWideBoxesOverrun
  <2> QED BY <2>1, <2>2
<1> QED BY <1>1, KInitOK, KStep, PTL DEF Spec

(* A box of at least a character's width holds its lines at every anchor    *)
(* and either alignment, and a block at the bottom ends where it should, in *)
(* a picture of any size (jpeg_overlay_draw_textbox).                       *)
THEOREM BoxHoldsText == Spec => []TextStaysInBox
<1>1. IInv => TextStaysInBox
  <2> SUFFICES ASSUME IInv, pc = "done", box_w >= 8 * scale, NEW anchor \in Anchors
               PROVE  /\ \A n \in 1 .. Len(out), align \in {"left", "right"} :
                           LET x == LineX(n, anchor, align) IN
                           /\ x >= BoxX(anchor) /\ x + LineW(n) <= BoxX(anchor) + box_w
                           /\ align = "right" => x + LineW(n) = BoxX(anchor) + box_w
                      /\ anchor \in {"bottom_left", "bottom_right"} /\ out # <<>> =>
                           LineY(Len(out), anchor) + 8 * scale = ImgH - OffsetY
      BY DEF TextStaysInBox
  <2>1. /\ box_w \in Nat /\ scale \in Nat \ {0} /\ Len(out) \in Nat
        /\ ImgW \in Nat /\ ImgH \in Nat /\ OffsetX \in Nat /\ OffsetY \in Nat
        BY TextBoxAssumption DEF IInv, TextBoxTypeOK
  <2>2. ASSUME NEW n \in 1 .. Len(out), NEW align \in {"left", "right"}
        PROVE  LET x == LineX(n, anchor, align) IN
               /\ x >= BoxX(anchor) /\ x + LineW(n) <= BoxX(anchor) + box_w
               /\ align = "right" => x + LineW(n) = BoxX(anchor) + box_w
    <3> DEFINE at == BoxX(anchor)
               w  == LineW(n)
    <3>1. at \in Int BY <2>1 DEF BoxX
    <3>2. w \in Nat /\ w <= box_w BY LinesInWidth
    <3>3. box_w > 0 BY <2>1
    <3>4. LineX(n, anchor, align) = IF align = "right" THEN at + box_w - w ELSE at
      <4>1. at + box_w - w >= at BY <2>1, <3>1, <3>2
      <4> HIDE DEF at, w
      <4> QED BY <3>3, <4>1 DEF LineX, at, w
    <3> HIDE DEF at, w
    <3> QED BY <2>1, <3>1, <3>2, <3>4 DEF at, w
  <2>3. ASSUME anchor \in {"bottom_left", "bottom_right"}
        PROVE  LineY(Len(out), anchor) + 8 * scale = ImgH - OffsetY
    <3> DEFINE height == Len(out) * 8 * scale
               above  == (Len(out) - 1) * 8 * scale
    <3>1. above + 8 * scale = height BY <2>1, TimesEight
    <3>2. height \in Int /\ above \in Int /\ 8 * scale \in Int BY <2>1, Z3
    <3>3. LineY(Len(out), anchor) = ImgH - height - OffsetY + above
          BY <2>3, Zenon DEF LineY, BoxY
    <3> HIDE DEF height, above
    <3> QED BY <2>1, <3>1, <3>2, <3>3
  <2> QED BY <2>2, <2>3
<1> QED BY <1>1, Invariant, PTL

(* Every character of the text is drawn once, in order, unless the lines are *)
(* at their end or one has filled its buffer, for every text, width and size *)
(* of the buffers (build_lines).                                            *)
THEOREM NoCharacterIsLost == Spec => []TextIsKept
<1>1. KInv => TextIsKept BY DEF KInv, KeptOK, TextIsKept
<1> QED BY <1>1, KInitOK, KStep, PTL DEF Spec
=============================================================================
