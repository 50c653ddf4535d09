------------------------------- MODULE MCCApi -------------------------------
(* The two parts of the C API that the application's threads meet in: the   *)
(* callbacks it sets (CallbackSlots) and the settings of a device it changes *)
(* (DeviceConfig).  They share no state, so each is explored while the other *)
(* rests in its initial state.                                             *)
(*                                                                         *)
(* Two objects: one in use and one that replaces it or has been freed;      *)
(* objects are alike, hence the symmetry.  Two clients, so that one may     *)
(* write between the other's read and write, and two channels, one to lose  *)
(* while the other is set.                                                 *)
EXTENDS CallbackSlots, DeviceConfig, TLC

MCInit == Init /\ ConfigInit

MCNext ==
  \/ ConfigInit /\ Next /\ UNCHANGED configvars
  \/ kind = "stream" /\ Init /\ ConfigNext /\ UNCHANGED vars

MCSpec == MCInit /\ [][MCNext]_<<vars, configvars>>

MCSymmetry == Permutations(Objects)
=============================================================================
