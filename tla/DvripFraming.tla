---------------------------- MODULE DvripFraming ----------------------------
(***************************************************************************)
(* How the monitor of DVRIPCam cuts the bytes of its connection into       *)
(* packets and these into frames: tcp_recv_exact, reassemble_bin_payload   *)
(* and monitor_loop, src/src/dvrip.cpp.  DvripCam has the threads and      *)
(* calls of the connection, with packets that are received whole; here a   *)
(* packet arrives piece by piece and may be cut by a timeout.              *)
(*                                                                         *)
(* The unit of the stream is <<k, n>>, the n-th piece of the k-th packet.  *)
(* A header has two pieces, so that it can be cut; in a packet that begins *)
(* a frame the next piece is the frame's header.  Bytes that are read from *)
(* the wrong place may be taken for anything, but video data in its place  *)
(* is never taken for a frame header, because 00 00 01 FA and up are no    *)
(* start codes of H.264 or H.265.  Faulty twins serve mutations only.      *)
(***************************************************************************)
EXTENDS Naturals, Sequences, FiniteSets

CONSTANTS
  MaxPackets,  \* bound: packets the DVR sends
  MaxLen,      \* bound: pieces after the header of a packet
  MaxTotal     \* bound: pieces of a frame

ASSUME FramingAssumption ==
  /\ MaxPackets \in Nat /\ MaxLen \in Nat \ {0} /\ MaxTotal \in Nat \ {0}

HeaderLen == 2

VARIABLES
  sent,         \* packets the DVR has sent
  left,         \* pieces of its frame that are still to come
  next,         \* the unit that is received next
  monitor,      \* where monitor_loop is
  monitoring, recv_failed,
  want, pkt,    \* tcp_recv_exact: the length asked for, and what has come
  remaining, buf,          \* reassemble_bin_payload
  began,        \* history: the packet in which the frame in buf begins
  delivered,    \* history: packets in which the frames given to the callback begin
  slow,         \* history: has a deadline cut a packet?
  disturbed     \* history: has a timeout of any kind passed?

dvr     == <<sent, left>>
flags   == <<monitoring, recv_failed>>
history == <<began, delivered, slow, disturbed>>
vars    == <<dvr, next, monitor, flags, want, pkt, remaining, buf, history>>

Packet(type, len, total) == [type |-> type, len |-> len, total |-> total]

Units == (1 .. MaxPackets) \X (1 .. HeaderLen + MaxLen)

FramingTypeOK ==
  /\ sent \in Seq([type : {"first", "more", "jpeg", "unknown"}, len : 0 .. MaxLen,
                   total : 0 .. MaxTotal])
  /\ Len(sent) <= MaxPackets /\ left \in 0 .. MaxTotal
  /\ next \in (1 .. MaxPackets + 1) \X (1 .. HeaderLen + MaxLen)
  /\ monitor \in {"header", "payload", "nothing", "calls", "ended"}
  /\ {monitoring, recv_failed, slow, disturbed} \subseteq BOOLEAN
  /\ want \in Nat /\ pkt \in Seq(Units) /\ Len(pkt) <= want
  /\ remaining \in 0 .. MaxTotal /\ buf \in Seq(Units)
  /\ began \in 0 .. MaxPackets /\ delivered \subseteq 1 .. MaxPackets

Init ==
  /\ sent = <<>> /\ left = 0 /\ next = <<1, 1>>
  /\ monitor = "header" /\ monitoring = TRUE /\ recv_failed = FALSE
  /\ want = HeaderLen /\ pkt = <<>> /\ remaining = 0 /\ buf = <<>>
  /\ began = 0 /\ delivered = {} /\ slow = FALSE /\ disturbed = FALSE

-----------------------------------------------------------------------------
(* The DVR sends frames in packets that follow each other, pictures of one *)
(* packet, packets of a type the library does not know, and empty ones.    *)

Sends(packet, rest) ==
  /\ Len(sent) < MaxPackets /\ sent' = Append(sent, packet) /\ left' = rest
  /\ UNCHANGED <<next, monitor, flags, want, pkt, remaining, buf, history>>

SendFirst ==
  /\ left = 0
  /\ \E len \in 1 .. MaxLen, total \in 1 .. MaxTotal :
       len - 1 <= total /\ Sends(Packet("first", len, total), total - (len - 1))

SendMore ==
  \E len \in 1 .. MaxLen : len <= left /\ Sends(Packet("more", len, 0), left - len)

SendSingle ==
  /\ left = 0
  /\ \E type \in {"jpeg", "unknown"}, len \in 1 .. MaxLen : Sends(Packet(type, len, 0), 0)

SendEmpty == Sends(Packet("more", 0, 0), left)

-----------------------------------------------------------------------------
(* tcp_recv_exact.                                                         *)

After(u) == IF u[2] < HeaderLen + sent[u[1]].len THEN <<u[1], u[2] + 1>> ELSE <<u[1] + 1, 1>>

Receiving == monitor \in {"header", "payload"} /\ Len(pkt) < want

Receives ==
  /\ Receiving /\ next[1] <= Len(sent)
  /\ pkt' = Append(pkt, next) /\ next' = After(next)
  /\ UNCHANGED <<dvr, monitor, flags, want, remaining, buf, history>>

\* Nothing comes for the length of a timeout, or the connection is gone.
ReceiveFails ==
  /\ Receiving /\ monitor' = "nothing" /\ recv_failed' = TRUE /\ disturbed' = TRUE
  /\ UNCHANGED <<dvr, next, monitoring, want, pkt, remaining, buf, began, delivered, slow>>

\* Something comes, but not all of it before the deadline.
DeadlinePasses ==
  /\ Receiving /\ pkt # <<>> /\ monitor' = "nothing" /\ slow' = TRUE /\ disturbed' = TRUE
  /\ UNCHANGED <<dvr, next, flags, want, pkt, remaining, buf, began, delivered>>

-----------------------------------------------------------------------------
(* reassemble_bin_payload.                                                 *)

Received(where) == monitor = where /\ Len(pkt) = want

\* The lengths that what has been read as a header may say.
Lengths ==
  IF \E k \in 1 .. Len(sent) : pkt = <<<<k, 1>>, <<k, 2>>>> THEN {sent[pkt[1][1]].len}
  ELSE 0 .. MaxLen

Asks(where, len) == monitor' = where /\ want' = len /\ pkt' = <<>>

HasHeader ==
  /\ Received("header") /\ \E len \in Lengths : Asks("payload", len)
  /\ UNCHANGED <<dvr, next, flags, remaining, buf, history>>

\* A packet without a payload looks like a receive that has failed.
HasNoPayload ==
  /\ Received("payload") /\ want = 0 /\ monitor' = "nothing"
  /\ UNCHANGED <<dvr, next, flags, want, pkt, remaining, buf, history>>

\* What is read as the first packet of a frame: its type and the frame's length.
Meaning ==
  LET u == pkt[1] IN
  IF u[2] = HeaderLen + 1 THEN {<<sent[u[1]].type, sent[u[1]].total>>}
  ELSE {"jpeg", "unknown"} \X {0} \union {"first"} \X (1 .. MaxTotal)

Exceeds(data, total)   == total < Len(data)
Completes(data, total) == total <= Len(data)

\* The packet's data has been added: the frame is whole, or there is more to come,
\* unless the time for the frame is over.
Adds(data, total) ==
  /\ buf' = buf \o data
  /\ IF Completes(data, total)
     THEN monitor' = "calls" /\ remaining' = 0 /\ UNCHANGED <<want, pkt, disturbed>>
     ELSE /\ remaining' = total - Len(data)
          /\ \/ Asks("header", HeaderLen) /\ UNCHANGED disturbed
             \/ monitor' = "nothing" /\ disturbed' = TRUE /\ UNCHANGED <<want, pkt>>

BeginsFrame ==
  /\ Received("payload") /\ want # 0 /\ remaining = 0 /\ began' = pkt[1][1]
  /\ \E meaning \in Meaning :
       \/ meaning[1] = "first" /\ Adds(Tail(pkt), meaning[2])
       \/ meaning[1] = "jpeg" /\ Adds(pkt, 0)
       \/ /\ meaning[1] \in {"more", "unknown"} /\ monitor' = "nothing"
          /\ UNCHANGED <<want, pkt, remaining, buf, disturbed>>
  /\ UNCHANGED <<dvr, next, flags, delivered, slow>>

ContinuesFrame ==
  /\ Received("payload") /\ want # 0 /\ remaining # 0 /\ Adds(pkt, remaining)
  /\ UNCHANGED <<dvr, next, flags, began, delivered, slow>>

-----------------------------------------------------------------------------
(* monitor_loop.                                                           *)

KeepsPart  == buf' = buf /\ remaining' = remaining
StartsAnew == buf' = <<>> /\ remaining' = 0

\* MonitoringGuard clears the flag.
Leaves == monitor' = "ended" /\ monitoring' = FALSE /\ UNCHANGED <<want, pkt, remaining, buf>>

Loops ==
  \/ monitoring /\ Asks("header", HeaderLen) /\ StartsAnew /\ UNCHANGED monitoring
  \/ ~monitoring /\ Leaves

ReadsOn == FALSE
Gone    == recv_failed

\* An empty frame is skipped, unless a receive has failed.
GotNothing ==
  /\ monitor = "nothing"
  /\ IF Gone THEN Leaves ELSE Loops
  /\ UNCHANGED <<dvr, next, recv_failed, history>>

CallReturns ==
  /\ monitor = "calls" /\ delivered' = delivered \union {began} /\ Loops
  /\ UNCHANGED <<dvr, next, recv_failed, began, slow, disturbed>>

\* The socket is closed after that, and from then on receives fail.
StopMonitor ==
  /\ monitoring /\ monitoring' = FALSE
  /\ UNCHANGED <<dvr, next, monitor, recv_failed, want, pkt, remaining, buf, history>>

Next ==
  \/ SendFirst \/ SendMore \/ SendSingle \/ SendEmpty
  \/ Receives \/ ReceiveFails \/ DeadlinePasses
  \/ HasHeader \/ HasNoPayload \/ BeginsFrame \/ ContinuesFrame
  \/ GotNothing \/ CallReturns \/ StopMonitor

Spec == Init /\ [][Next]_vars

-----------------------------------------------------------------------------
(* Properties.                                                             *)

Boundary == monitor = "header" /\ pkt = <<>> => next[2] = 1

\* Unless a deadline has cut a packet, the monitor looks for a header where one
\* begins, whatever it has skipped, abandoned or found empty.  (The early returns of
\* reassemble_bin_payload, all of them after the payload has been received.)
HeadersAreHeaders == ~slow => Boundary

\* The pieces of video in packet k, and in the packets from b to last.
PiecesOf(k) ==
  LET skip == IF sent[k].type = "first" THEN HeaderLen + 1 ELSE HeaderLen
  IN {k} \X (skip + 1 .. HeaderLen + sent[k].len)

Pieces(b, last) == UNION {PiecesOf(k) : k \in b .. last}

Precedes(u, v) == u[1] < v[1] \/ (u[1] = v[1] /\ u[2] < v[2])

\* Unless a deadline has cut a packet, a frame that is given to the callback consists
\* of all the pieces of one frame, in order, and is later than those before it.
\* (remaining and buf of reassemble_bin_payload.)
FramesComeWhole ==
  monitor = "calls" /\ ~slow =>
    /\ \E last \in began .. Len(sent) :
         {buf[n] : n \in 1 .. Len(buf)} = Pieces(began, last)
    /\ \A n \in 1 .. Len(buf) : \A m \in 1 .. n - 1 : Precedes(buf[m], buf[n])
    /\ Len(buf) = IF sent[began].type = "jpeg" THEN sent[began].len ELSE sent[began].total
    /\ \A k \in delivered : k < began

\* The packets from b to last belong to a frame, and none of them is empty.
Unbroken(b, last) ==
  /\ sent[b].type = "first"
  /\ \A n \in b + 1 .. last : sent[n].type = "more" /\ sent[n].len > 0

\* The frames that begin before packet k, end there, and have no empty packet inside.
Whole(k) ==
  {b \in 1 .. k - 1 :
     \/ sent[b].type = "jpeg"
     \/ \E last \in b .. k - 1 :
          Unbroken(b, last) /\ Cardinality(Pieces(b, last)) = sent[b].total}

\* As long as there has been no timeout, an empty packet or one of unknown type costs
\* no frame but the one it is in: all others have been delivered.  ("unrecognised frame
\* type -- skip and keep going", monitor_loop.)
OnlyBrokenFramesAreLost ==
  ~disturbed /\ monitor = "header" /\ pkt = <<>> /\ remaining = 0 => delivered = Whole(next[1])

\* src/src/dvrip.cpp:152: recv_failed is there "so the monitor loop can distinguish" a
\* socket error "from an unrecognised frame type (which is recoverable)": after what it
\* skips it is at a header.
SkippingIsRecoverable == Boundary
=============================================================================
