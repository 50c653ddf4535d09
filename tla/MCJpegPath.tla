----------------------------- MODULE MCJpegPath -----------------------------
(* One text box, one client, a pipe of two frames: enough for the reader   *)
(* to overwrite the slot while the worker draws.                           *)
EXTENDS JpegPath
=============================================================================
