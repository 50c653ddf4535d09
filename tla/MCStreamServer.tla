--------------------------- MODULE MCStreamServer ---------------------------
(* A raw queue of one frame, at most one client and no overlay: what is    *)
(* left is the start, the loss and the end of every thread.                *)
EXTENDS StreamServer
=============================================================================
