----------------------------- MODULE MCDvripCam -----------------------------
(* Two connections, one after the other; frames of one or two packets; and *)
(* no call or keep-alive once two requests have been sent, so that login   *)
(* leaves room for one more of each, or for a second login.                *)
EXTENDS DvripCam
=============================================================================
