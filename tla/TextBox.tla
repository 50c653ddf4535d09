------------------------------ MODULE TextBox ------------------------------
(***************************************************************************)
(* The text of an overlay box, src/src/jpeg_overlay.cpp: build_lines cuts  *)
(* a text into lines that fit a box, and jpeg_overlay_draw_textbox places  *)
(* them on the picture.  One step is one turn of a loop of build_lines.    *)
(*                                                                         *)
(* A text is a sequence of "char", "space" and "newline".  A line holds    *)
(* the places in the text its characters come from, and 0 for a space that *)
(* build_lines puts in.  A copy beyond the end of a line's buffer is        *)
(* undefined; the model goes no further then.  An operator may have a       *)
(* faulty twin before it, which only mutations use.                        *)
(***************************************************************************)
EXTENDS Integers, Sequences

CONSTANTS
  OVL_MAX_LINES, OVL_MAX_LINE_LEN,
  Texts,         \* the texts
  Widths,        \* values of box_w, 0 for no limit
  Scales,        \* sizes of the font
  ImgW, ImgH,    \* the picture
  OffsetX, OffsetY  \* of the box from the corner it is anchored to

ASSUME TextBoxAssumption ==
  /\ OVL_MAX_LINES \in Nat \ {0} /\ OVL_MAX_LINE_LEN \in Nat /\ OVL_MAX_LINE_LEN > 1
  /\ Texts \subseteq Seq({"char", "space", "newline"})
  /\ Widths \subseteq Nat /\ Scales \subseteq Nat \ {0}
  /\ {ImgW, ImgH, OffsetX, OffsetY} \subseteq Nat

Anchors == {"top_left", "top_right", "bottom_left", "bottom_right"}

VARIABLES
  text, box_w, scale,  \* what is to be drawn
  pc,    \* where build_lines is
  p,     \* place in the text
  wlen,  \* length of the word there
  i,     \* how much of a long word has been copied
  cur,   \* the line being filled
  out    \* the lines before it

input == <<text, box_w, scale>>
vars  == <<input, pc, p, wlen, i, cur, out>>

\* Characters to a line; 0 for no limit.
RoundsUp(w, s) == IF w = 0 THEN 0 ELSE (w + 8 * s - 1) \div (8 * s)
CharsIn(w, s)  == IF w > 0 /\ w \div (8 * s) < 1 THEN 1 ELSE w \div (8 * s)

max_chars == CharsIn(box_w, scale)

\* build_lines reads the text up to its end, and what it copies is from there.
TextBoxTypeOK ==
  /\ text \in Texts /\ box_w \in Widths /\ scale \in Scales
  /\ pc \in {"next", "scan", "long", "word", "skip", "done", "overrun"}
  /\ p \in 1 .. Len(text) + 1 /\ wlen \in Nat /\ i \in Nat
  /\ pc \in {"scan", "long", "word", "overrun"} => p + wlen <= Len(text) + 1
  /\ pc \in {"long", "overrun"} => i <= wlen
  /\ cur \in Seq(0 .. Len(text)) /\ out \in Seq(Seq(0 .. Len(text)))

Init ==
  /\ text \in Texts /\ text # <<>> /\ box_w \in Widths /\ scale \in Scales
  /\ pc = "next" /\ p = 1 /\ wlen = 0 /\ i = 0 /\ cur = <<>> /\ out = <<>>

-----------------------------------------------------------------------------
(* build_lines.                                                            *)

HasLines == Len(out) < OVL_MAX_LINES

OnlyEnded == out
LastLine  == IF cur # <<>> /\ HasLines THEN Append(out, cur) ELSE out

Finish ==
  /\ pc = "next" /\ (p > Len(text) \/ ~HasLines) /\ pc' = "done"
  /\ out' = LastLine
  /\ UNCHANGED <<input, p, wlen, i, cur>>

InText == pc = "next" /\ p <= Len(text) /\ HasLines

\* An empty line counts.
EndsLine   == Append(out, cur)

Newline ==
  /\ InText /\ text[p] = "newline"
  /\ out' = EndsLine /\ cur' = <<>> /\ p' = p + 1
  /\ UNCHANGED <<input, pc, wlen, i>>

WordBegins ==
  /\ InText /\ text[p] # "newline"
  /\ pc' = "scan" /\ wlen' = 0
  /\ UNCHANGED <<input, p, i, cur, out>>

InWord == p + wlen <= Len(text) /\ text[p + wlen] = "char"

Scan ==
  /\ pc = "scan" /\ InWord /\ wlen' = wlen + 1
  /\ UNCHANGED <<input, pc, p, i, cur, out>>

\* A word that fits a line is not broken.
TooLong == max_chars > 0 /\ wlen > max_chars

WordEnds ==
  /\ pc = "scan" /\ ~InWord
  /\ pc' = IF TooLong THEN "long" ELSE "word"
  /\ i' = 0
  /\ UNCHANGED <<input, p, wlen, cur, out>>

\* The characters of the word from its i-th on.
Copied(from, n) == [k \in 1 .. n |-> from + k - 1]

Least(a, b) == IF a < b THEN a ELSE b

\* A line and the zero at its end are more than the buffer has room for.
Overruns(line) == Len(line) >= OVL_MAX_LINE_LEN

\* The only limit here is the width of the box.
BreakWord ==
  LET full == Len(cur) >= max_chars
      line == IF full THEN <<>> ELSE cur
      n    == Least(wlen - i, max_chars - Len(line))
  IN /\ pc = "long" /\ i < wlen /\ HasLines
     /\ out' = IF full THEN Append(out, cur) ELSE out
     /\ cur' = line \o Copied(p + i, n)
     /\ i' = i + n
     /\ pc' = IF Overruns(cur') THEN "overrun" ELSE pc
     /\ UNCHANGED <<input, p, wlen>>

BreakEnds ==
  /\ pc = "long" /\ ~(i < wlen /\ HasLines)
  /\ pc' = "skip" /\ p' = p + wlen
  /\ UNCHANGED <<input, wlen, i, cur, out>>

\* A word needs room for the space before it.
NeedsWord == wlen
Needs     == IF cur # <<>> THEN 1 + wlen ELSE wlen

AddWord ==
  LET full  == max_chars > 0 /\ cur # <<>> /\ Len(cur) + Needs > max_chars
      line  == IF full THEN <<>> ELSE cur
      start == IF line # <<>> /\ Len(line) < OVL_MAX_LINE_LEN - 1 THEN Append(line, 0) ELSE line
      n     == Least(wlen, OVL_MAX_LINE_LEN - 1 - Len(start))
  IN /\ pc = "word"
     /\ out' = IF full THEN Append(out, cur) ELSE out
     /\ cur' = start \o Copied(p, n)
     /\ pc' = "skip" /\ p' = p + wlen
     /\ UNCHANGED <<input, wlen, i>>

AfterSpace == IF p <= Len(text) /\ text[p] = "space" THEN p + 1 ELSE p

SkipSpace ==
  /\ pc = "skip" /\ pc' = "next" /\ p' = AfterSpace
  /\ UNCHANGED <<input, wlen, i, cur, out>>

Drawn == pc \in {"done", "overrun"} /\ UNCHANGED vars

Next ==
  \/ Finish \/ Newline \/ WordBegins \/ Scan \/ WordEnds
  \/ BreakWord \/ BreakEnds \/ AddWord \/ SkipSpace \/ Drawn

Spec == Init /\ [][Next]_vars

-----------------------------------------------------------------------------
(* jpeg_overlay_draw_textbox: the box, and where its lines begin.          *)

LineW(n) == Len(out[n]) * 8 * scale

BoxX(anchor) ==
  IF anchor \in {"top_right", "bottom_right"} THEN ImgW - box_w - OffsetX ELSE OffsetX

BoxY(anchor) ==
  IF anchor \in {"bottom_left", "bottom_right"} THEN ImgH - Len(out) * 8 * scale - OffsetY
  ELSE OffsetY

LineX(n, anchor, align) ==
  LET left == BoxX(anchor) + box_w - LineW(n)
  IN IF align = "right" /\ box_w > 0 /\ left >= BoxX(anchor) THEN left ELSE BoxX(anchor)

LineY(n, anchor) == BoxY(anchor) + (n - 1) * 8 * scale

-----------------------------------------------------------------------------
(* Properties.                                                             *)

\* No line is longer than its buffer has room for, with the zero at the end, or than
\* the box is wide, and there are no more lines than buffers: "up to 64 lines of 256
\* chars each", as docs/feature-status.md:145 says of build_lines, and "buffer-overflow
\* safe", as line 137 there says of texts of any length.  The code does not keep this
\* in a wide box.
LinesFit ==
  /\ Len(out) <= OVL_MAX_LINES
  /\ \A line \in {cur} \union {out[n] : n \in 1 .. Len(out)} :
       /\ Len(line) < OVL_MAX_LINE_LEN
       /\ max_chars > 0 => Len(line) <= max_chars

\* The text has a word of more than n characters.
HasWordOver(n) ==
  \E from \in 1 .. Len(text) : /\ from + n <= Len(text)
                               /\ \A k \in from .. from + n : text[k] = "char"

\* Lines fit their buffers and the box, and there are no more of them than buffers,
\* but for one case: a word that is too long for a box that is as wide as a buffer.
\* A box without a limit, a narrower one, and words that fit the box overrun
\* nothing.  (The three copies in build_lines and their different bounds.)
OnlyWideBoxesOverrun ==
  LinesFit \/ (max_chars >= OVL_MAX_LINE_LEN /\ HasWordOver(max_chars))

\* The places in the text that a line shows, and whether it shows them in order.
Characters(line) == {line[k] : k \in 1 .. Len(line)} \ {0}

Rising(line) ==
  \A l \in 1 .. Len(line) : \A k \in 1 .. l - 1 : line[k] > 0 /\ line[l] > 0 => line[k] < line[l]

RisesInto(places, line) == \A x \in places : \A y \in Characters(line) : x < y

\* What the lines show, and the characters of the text.
Shown == UNION {Characters(out[n]) : n \in 1 .. Len(out)}
Given == {k \in 1 .. Len(text) : text[k] = "char"}

\* Every character of the text is drawn once, in order, as long as the lines last and
\* no line has filled its buffer; and what is drawn is always a selection of the text,
\* in order.  (build_lines: three copies, and four places where a line ends.)
TextIsKept ==
  pc = "done" =>
    /\ \A n \in 1 .. Len(out) :
         Rising(out[n]) /\ \A m \in 1 .. n - 1 : RisesInto(Characters(out[m]), out[n])
    /\ Shown \subseteq Given
    /\ \/ Len(out) = OVL_MAX_LINES
       \/ \E n \in 1 .. Len(out) : Len(out[n]) = OVL_MAX_LINE_LEN - 1
       \/ Given \subseteq Shown

\* A box that is at least one character wide holds its text, whatever the anchor: no
\* line leaves it and lines on the right end at its edge.  A block at the bottom ends
\* there, up to the offset.  (jpeg_overlay_draw_textbox and max_chars.)
TextStaysInBox ==
  pc = "done" /\ box_w >= 8 * scale => \A anchor \in Anchors :
    /\ \A n \in 1 .. Len(out), align \in {"left", "right"} :
         LET x == LineX(n, anchor, align) IN
         /\ x >= BoxX(anchor) /\ x + LineW(n) <= BoxX(anchor) + box_w
         /\ align = "right" => x + LineW(n) = BoxX(anchor) + box_w
    /\ anchor \in {"bottom_left", "bottom_right"} /\ out # <<>> =>
         LineY(Len(out), anchor) + 8 * scale = ImgH - OffsetY
=============================================================================
