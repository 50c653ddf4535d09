--------------------------- MODULE UdpStreamServer ---------------------------
(***************************************************************************)
(* Packets over UDP, src/src/udp_stream_server.cpp.  One                  *)
(* UdpStreamServer, the peer, sends: any of its threads may be in sendJpeg *)
(* at a time, and its process may be restarted.  Another one receives: its *)
(* receive thread puts frames together from their chunks and calls         *)
(* on_jpeg_fn, while its API thread goes through init, start, stop and     *)
(* deinit.  In between, datagrams are lost, duplicated and reordered.      *)
(*                                                                         *)
(* Packets of the other types are one datagram each.  The receiver answers *)
(* to the host it has first heard, or to the one it was configured with,   *)
(* and may mirror what it sends to its own port.  Packets with a wrong     *)
(* header are left out, as they are dropped.  As in VideoRecorder, an      *)
(* operator may have a faulty twin before it, which only mutations use.    *)
(***************************************************************************)
EXTENDS Integers, Sequences, FiniteSets, SequencesExt, Functions

CONSTANTS
  Senders,      \* threads of the peer that call sendJpeg
  Callbacks,    \* functions that setOnJpegCallback may be given
  NoFn,         \* no callback is set, or none is being called
  NoFrame,      \* the receive thread holds no frame
  Embedded,     \* it holds a whole JPEG, of a Composite packet
  Peer,         \* the host that sends the frames
  Hosts,        \* hosts that packets come from: the peer and others
  Localhost,    \* where the receiver's own mirrored packets come from
  NoHost,       \* no target yet, or none configured
  FrameIds,     \* frame ids that callers choose themselves, none of them 0
  MaxChunks,    \* bound: chunks of a frame
  MaxCalls,     \* bound: calls of sendJpeg
  NetSize,      \* bound: datagrams under way
  MaxRestarts   \* bound: restarts of the peer

ASSUME FrameIdsAssumption == FrameIds \subseteq Nat \ {0}
ASSUME CallbacksAssumption == NoFn \notin Callbacks
ASSUME HostsAssumption ==
  Peer \in Hosts /\ Localhost \notin Hosts /\ NoHost \notin Hosts \cup {Localhost}
ASSUME UdpBoundsAssumption ==
  /\ MaxChunks \in Nat /\ MaxCalls \in Nat
  /\ NetSize \in Nat /\ MaxRestarts \in Nat

(* The content of a frame is the number of the call that sends it.         *)
Call   == 1 .. MaxCalls
Packet == [fid : Nat, idx : Nat, total : 1 .. MaxChunks, call : Call]
Frame  == [fid : Nat, parts : Seq(Call)]

ASSUME NoFrameAssumption == {NoFrame, Embedded} \cap Frame = {} /\ NoFrame # Embedded

VARIABLES
  seq_jpeg,                        \* the peer's counter, for ids and packets
  sending,                         \* where each sendJpeg is: the next packet
  restarts,
  net,                             \* datagrams, the oldest first
  initialized, running, sock,      \* the receiver; is its socket open
  api, recv,                       \* its API thread and its receive thread
  frame_id, total, chunks,         \* JpegReassembler
  frame,                           \* what feed has returned
  on_jpeg_fn, calling,             \* the callback, and the one being called
  target_ip, target_ip_discovered, \* the configured target, and the other
  first,                           \* history: the host of the first packet
                                   \* from outside since init
  sent,                            \* history: the frames sent
  orderly,                         \* history: see LossIsLocal
  received, assembled              \* history while orderly: chunks fed to the
                                   \* reassembler, frames it returned

peer       == <<seq_jpeg, sending, restarts, sent>>
lifecycle  == <<initialized, running, sock, api>>
reassembly == <<frame_id, total, chunks, received, assembled>>
callback   == <<frame, on_jpeg_fn, calling>>
target     == <<target_ip, target_ip_discovered, first>>

vars == <<peer, net, lifecycle, recv, reassembly, callback, orderly, target>>

Idle == [fid |-> 0, idx |-> 0, total |-> 0, call |-> 0]

UdpTypeOK ==
  /\ seq_jpeg \in Nat /\ restarts \in 0 .. MaxRestarts
  /\ sending \in [Senders -> Packet \cup {Idle}]
  /\ net \in Seq(Packet) /\ Len(net) <= NetSize
  /\ {initialized, running, sock, orderly} \subseteq BOOLEAN
  /\ api \in {"idle", "joining", "joiningToClose"}
  /\ recv \in {"none", "loop", "recv", "input", "copy", "call"}
  /\ frame_id \in Nat /\ total \in 0 .. MaxChunks
  /\ DOMAIN chunks \subseteq 0 .. MaxChunks - 1 /\ Range(chunks) \subseteq Call
  /\ frame \in Frame \cup {NoFrame, Embedded} /\ (recv = "copy" => frame # NoFrame)
  /\ {on_jpeg_fn, calling} \subseteq Callbacks \cup {NoFn}
  /\ target_ip \in {Peer, NoHost}
  /\ {target_ip_discovered, first} \subseteq Hosts \cup {NoHost}
  /\ sent \in Seq([fid : Nat, total : 1 .. MaxChunks])
  /\ received \subseteq Call \X Nat
  /\ assembled \in Seq(Frame)

NoChunks == [i \in {} |-> 0]

Init ==
  /\ seq_jpeg = 0 /\ restarts = 0 /\ sending = [s \in Senders |-> Idle]
  /\ net = <<>>
  /\ initialized = FALSE /\ running = FALSE /\ sock = FALSE
  /\ api = "idle" /\ recv = "none"
  /\ frame_id = 0 /\ total = 0 /\ chunks = NoChunks
  /\ frame = NoFrame /\ calling = NoFn
  /\ on_jpeg_fn = NoFn
  /\ target_ip \in {Peer, NoHost} /\ target_ip_discovered = NoHost /\ first = NoHost
  /\ sent = <<>> /\ received = {} /\ assembled = <<>>
  /\ orderly = TRUE
-----------------------------------------------------------------------------
(* The peer.  Frame ids and packet numbers come from the same counter.     *)

SendJpeg(s) ==
  /\ sending[s] = Idle /\ Len(sent) < MaxCalls
  /\ \E id \in FrameIds \cup {0}, n \in 1 .. MaxChunks :
       LET fid == IF id = 0 THEN seq_jpeg ELSE id IN
       /\ seq_jpeg' = IF id = 0 THEN seq_jpeg + 1 ELSE seq_jpeg
       /\ sending' = [sending EXCEPT ![s] =
                        [fid |-> fid, idx |-> 0, total |-> n, call |-> Len(sent) + 1]]
       /\ sent' = Append(sent, [fid |-> fid, total |-> n])
       /\ orderly' = /\ orderly
                     /\ \A t \in Senders : sending[t] = Idle
                     /\ \A i \in 1 .. Len(sent) : sent[i].fid # fid
  /\ UNCHANGED <<restarts, net, lifecycle, recv, reassembly, callback, target>>

IsLast(p)   == p.idx + 1 = p.total

SendChunk(s) ==
  LET p == sending[s] IN
  /\ p # Idle /\ Len(net) < NetSize
  /\ seq_jpeg' = seq_jpeg + 1
  /\ net' = Append(net, p)
  /\ sending' = [sending EXCEPT ![s] =
                   IF IsLast(p) THEN Idle ELSE [p EXCEPT !.idx = @ + 1]]
  /\ UNCHANGED <<restarts, sent, lifecycle, recv, reassembly, callback, orderly, target>>

(* A new UdpStreamServer in a new process. *)
PeerRestarts ==
  /\ restarts < MaxRestarts /\ restarts' = restarts + 1
  /\ seq_jpeg' = 0
  /\ sending' = [s \in Senders |-> Idle]
  /\ UNCHANGED <<sent, net, lifecycle, recv, reassembly, callback, orderly, target>>
-----------------------------------------------------------------------------
(* The network, and the receive buffer of the socket, lose datagrams here; *)
(* they duplicate and reorder them in RecvChunk.                           *)

Lose(i) ==
  /\ net' = RemoveAt(net, i)
  /\ UNCHANGED <<peer, lifecycle, recv, reassembly, callback, orderly, target>>
-----------------------------------------------------------------------------
(* The receiver's API thread. *)

InitServer ==
  /\ api = "idle" /\ ~initialized
  /\ initialized' = TRUE /\ sock' = TRUE
  /\ first' = NoHost
  /\ UNCHANGED <<peer, net, running, api, recv, reassembly, callback, orderly,
                 target_ip, target_ip_discovered>>

Start ==
  /\ api = "idle" /\ initialized /\ ~running
  /\ running' = TRUE
  /\ recv' = "loop"
  /\ UNCHANGED <<peer, net, initialized, sock, api, reassembly, callback, orderly, target>>

(* stop, on its own or from deinit and the destructor. *)
Stop ==
  /\ api = "idle" /\ running
  /\ running' = FALSE
  /\ api' \in {"joining", "joiningToClose"}
  /\ UNCHANGED <<peer, net, initialized, sock, recv, reassembly, callback, orderly, target>>

NotJoined == TRUE
Joined    == recv = "none"

StopJoins ==
  /\ api = "joining" /\ Joined
  /\ api' = "idle"
  /\ UNCHANGED <<peer, net, initialized, running, sock, recv, reassembly,
                 callback, orderly, target>>

Deinit ==
  /\ \/ api = "joiningToClose" /\ Joined
     \/ api = "idle" /\ ~running /\ initialized
  /\ api' = "idle"
  /\ sock' = FALSE /\ initialized' = FALSE
  /\ target_ip_discovered' = NoHost
  /\ UNCHANGED <<peer, net, running, recv, reassembly, callback, orderly,
                 target_ip, first>>

SetOnJpegCallback ==
  /\ on_jpeg_fn' \in (Callbacks \cup {NoFn}) \ {on_jpeg_fn}
  /\ UNCHANGED <<peer, net, lifecycle, recv, reassembly, frame, calling, orderly,
                 target>>

(* sendCommand, sendGuiUpdate, sendComposite and sendJpeg send to this     *)
(* host, unless there is none.                                             *)
get_target_ip == IF target_ip # NoHost THEN target_ip ELSE target_ip_discovered
-----------------------------------------------------------------------------
(* The receive thread, run_recv. *)

RecvGoes(from, to) == recv = from /\ recv' = to

RecvLoops ==
  /\ RecvGoes("loop", IF running THEN "recv" ELSE "none")
  /\ UNCHANGED <<peer, net, lifecycle, reassembly, callback, orderly, target>>

(* maybe_set_discovered_ip *)
TakesFirst == target_ip = NoHost /\ target_ip_discovered = NoHost

Hear(host) ==
  /\ first' = IF first = NoHost /\ host # Localhost THEN host ELSE first
  /\ target_ip_discovered' = IF TakesFirst THEN host ELSE target_ip_discovered
  /\ UNCHANGED target_ip

RecvTimesOut ==
  /\ RecvGoes("recv", "loop")
  /\ UNCHANGED <<peer, net, lifecycle, reassembly, callback, orderly, target>>

(* JpegReassembler::feed: a chunk of another frame starts over. *)
OnlyWhenEmpty(p) == chunks = NoChunks
StartsOver(p)    == chunks = NoChunks \/ frame_id # p.fid

CountsBeforeAdding(n, kept) == Cardinality(DOMAIN kept) = n + 1
Complete(n, kept) == Cardinality(DOMAIN kept) = n

NothingComplete ==
  /\ assembled' = IF orderly' THEN assembled ELSE <<>>
  /\ UNCHANGED frame

Feed(p) ==
  LET base == IF StartsOver(p) THEN NoChunks ELSE chunks
      n    == IF StartsOver(p) THEN p.total ELSE total
      kept == [i \in DOMAIN base \cup {p.idx} |->
                 IF i = p.idx THEN p.call ELSE base[i]]
  IN
  /\ frame_id' = p.fid
  /\ received' = IF orderly' THEN received \cup {<<p.call, p.idx>>} ELSE {}
  /\ IF Complete(n, kept)
     THEN /\ chunks' = NoChunks /\ total' = 0
          /\ IF DOMAIN kept = 0 .. n - 1
             THEN LET f == [fid   |-> p.fid,
                            parts |-> [i \in 1 .. n |-> kept[i - 1]]] IN
                  /\ RecvGoes("recv", "copy")
                  /\ frame' = f
                  /\ assembled' = IF orderly' THEN Append(assembled, f) ELSE <<>>
             ELSE RecvGoes("recv", "loop") /\ NothingComplete
     ELSE /\ chunks' = kept /\ total' = n
          /\ RecvGoes("recv", "loop") /\ NothingComplete

(* A datagram may overtake older ones, and may come again.                 *)
RecvChunk(i) ==
  /\ recv = "recv"
  /\ net' \in {net, RemoveAt(net, i)}
  /\ orderly' = (orderly /\ i = 1 /\ net' # net)
  /\ Hear(Peer)
  /\ Feed(net[i])
  /\ UNCHANGED <<peer, lifecycle, on_jpeg_fn, calling>>

NoneDiscarded(from) == FALSE
Discarded(from)     == from = Localhost

(* A packet of another type: of any host, or one that do_send has mirrored *)
(* with localhost_debug.  An input is passed on; a Composite packet brings *)
(* a JPEG as well.  The input callback is copied and called as on_jpeg_fn. *)
RecvOther(from) ==
  /\ recv = "recv"
  /\ IF Discarded(from)
     THEN RecvGoes("recv", "loop") /\ UNCHANGED <<frame, target>>
     ELSE /\ Hear(from)
          /\ \/ RecvGoes("recv", "loop") /\ UNCHANGED frame
             \/ RecvGoes("recv", "input") /\ frame' \in {NoFrame, Embedded}
  /\ UNCHANGED <<peer, net, lifecycle, reassembly, on_jpeg_fn, calling, orderly>>

RecvInputReturns ==
  /\ RecvGoes("input", IF frame = NoFrame THEN "loop" ELSE "copy")
  /\ UNCHANGED <<peer, net, lifecycle, reassembly, callback, orderly, target>>

(* The callback is copied under cb_mtx and called after it. *)
RecvCopiesFn ==
  /\ RecvGoes("copy", IF on_jpeg_fn = NoFn THEN "loop" ELSE "call")
  /\ calling' = on_jpeg_fn
  /\ frame' = IF on_jpeg_fn = NoFn THEN NoFrame ELSE frame
  /\ UNCHANGED <<peer, net, lifecycle, reassembly, on_jpeg_fn,
                 orderly, target>>

RecvCallReturns ==
  /\ RecvGoes("call", "loop")
  /\ calling' = NoFn /\ frame' = NoFrame
  /\ UNCHANGED <<peer, net, lifecycle, reassembly, on_jpeg_fn,
                 orderly, target>>
-----------------------------------------------------------------------------
Next == \/ \E s \in Senders : SendJpeg(s) \/ SendChunk(s)
        \/ PeerRestarts
        \/ \E i \in 1 .. Len(net) : Lose(i) \/ RecvChunk(i)
        \/ InitServer \/ Start \/ Stop \/ StopJoins \/ Deinit
        \/ SetOnJpegCallback
        \/ \E from \in Hosts \cup {Localhost} : RecvOther(from)
        \/ RecvLoops \/ RecvTimesOut \/ RecvInputReturns
        \/ RecvCopiesFn \/ RecvCallReturns

Spec == Init /\ [][Next]_vars
-----------------------------------------------------------------------------
(* Properties. *)

IsPartOf(f, call) == \A i \in 1 .. Len(f.parts) : f.parts[i] = call

(* Loss, duplication, reordering, restarts and any number of frames under  *)
(* way: a frame whose id no other call has used comes out as that call     *)
(* sent it, with every chunk in its place and none of another frame.       *)
FrameIntact ==
  frame \notin {NoFrame, Embedded} =>
    LET calls == {c \in 1 .. Len(sent) : sent[c].fid = frame.fid} IN
    /\ calls # {}
    /\ \A c \in calls : calls = {c} =>
         IsPartOf(frame, c) /\ Len(frame.parts) = sent[c].total

(* While datagrams arrive in order and at most once and sendJpeg is called *)
(* for one frame after the other with an id of its own, a lost chunk costs *)
(* its own frame only: exactly the frames of which every chunk has arrived *)
(* come out, in the order of sending, through any stop, deinit and start   *)
(* of the receiver.                                                        *)
Arrived(c)  == \A i \in 0 .. sent[c].total - 1 : <<c, i>> \in received
CallOf(f)   == f.parts[1]

LossIsLocal ==
  orderly =>
    /\ {CallOf(assembled[k]) : k \in 1 .. Len(assembled)} = {c \in 1 .. Len(sent) : Arrived(c)}
    /\ \A k \in 1 .. Len(assembled) :
         /\ IsPartOf(assembled[k], CallOf(assembled[k]))
         /\ Len(assembled[k].parts) = sent[CallOf(assembled[k])].total
         /\ \A l \in 1 .. k - 1 : CallOf(assembled[l]) < CallOf(assembled[k])

(* When stop or deinit has returned the receive thread has ended: no       *)
(* callback is running or will be, and the socket that deinit closes is    *)
(* not in use.                                                             *)
StopEndsReceiving ==
  /\ (api = "idle" /\ ~running) => recv = "none" /\ calling = NoFn
  /\ recv # "none" => sock

(* Through any stop, deinit and init, and with its own mirrored packets    *)
(* coming in on the same port, the receiver answers to the configured host *)
(* or else to the one it heard first in this session: never to one of an   *)
(* earlier session, never to itself, and to no later one instead.          *)
TargetIsFirstHeard ==
  get_target_ip = IF target_ip # NoHost THEN target_ip
                  ELSE IF initialized THEN first ELSE NoHost
=============================================================================
