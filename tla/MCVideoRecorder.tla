--------------------------- MODULE MCVideoRecorder ---------------------------
(* A small recorder for TLC: a queue of two frames, so that overflow, an   *)
(* empty queue and a frame in the writer's hand meet.                      *)
EXTENDS VideoRecorder

MCFiles == {"a.mp4"}
=============================================================================
