--------------------------- MODULE MCChildProcess ---------------------------
(* One process of the recorder's and two of the pipeline's, which begin and *)
(* end before it, beside it or after it.                                    *)
EXTENDS ChildProcess

MCMaxSpawns == [o \in Owners |-> IF o = "pipeline" THEN 2 ELSE 1]
=============================================================================
