------------------------- MODULE MCUdpStreamServer --------------------------
(* Two calls of sendJpeg from two threads, frames of up to two chunks, two *)
(* datagrams under way: enough for a chunk of either frame to be lost, to  *)
(* come twice, and to come late.                                           *)
EXTENDS UdpStreamServer
=============================================================================
