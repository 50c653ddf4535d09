----------------------------- MODULE MCTextBox -----------------------------
(* All texts of up to six characters in boxes of none to four characters'  *)
(* width, one of them narrower than a character, with three lines of at     *)
(* most three characters: the widest box holds one character more than the  *)
(* buffer of a line.                                                        *)
EXTENDS TextBox

MCTexts == UNION {[1 .. n -> {"char", "space", "newline"}] : n \in 1 .. 6}
=============================================================================
