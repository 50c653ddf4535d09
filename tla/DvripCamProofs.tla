--------------------------- MODULE DvripCamProofs ---------------------------
(***************************************************************************)
(* Proofs about the DVR connection and its three threads, for any number   *)
(* of connections, requests, frames and packets of a frame.                *)
(***************************************************************************)
EXTENDS DvripCam, SequenceTheorems, TLAPS

-----------------------------------------------------------------------------
(* The inductive invariant.                                                *)

Requests == [kind : {"ask", "start", "snap"}, num : Nat]
Messages == [kind : {"reply", "packet"}, num : Nat, part : Nat, parts : Nat]
Results  == [kind : {"none", "ret101", "empty", "reply", "packet"},
             num : Nat, part : Nat, parts : Nat]
Calls    == [state : {"none", "lock", "wait", "done"}, req : Nat, result : Results]

FlagTypes ==
  /\ sock \in BOOLEAN /\ monitoring \in BOOLEAN /\ keepalive_run \in BOOLEAN
  /\ recv_failed \in BOOLEAN /\ up \in BOOLEAN /\ paired \in BOOLEAN /\ alone \in BOOLEAN

CamTypes ==
  /\ packet_count \in Nat /\ connects \in Nat /\ frames \in Nat /\ delivered \in Nat
  /\ call \in [Threads -> Calls] /\ buf \in [Threads -> Seq(Messages)]
  /\ tx \in Seq(Requests) /\ rx \in Seq(Messages)
  /\ dvr \in [frame : Nat, next : Nat, parts : Nat, live : BOOLEAN]
  /\ api \in {"idle", "login", "command", "snapshot", "reading", "joinsKeepalive",
              "joinsMonitor", "closes", "terminated"}
  /\ keepalive \in {"none", "sleep", "asks", "ended"}
  /\ monitor \in {"none", "claims", "starts", "loops", "receives", "nothing",
                  "calls", "ended"}

(* A packet belongs to a frame that has been begun, at one of its places;  *)
(* what a thread has collected is not more than its first packet says.     *)
WithinFrame(m, n) == /\ m.num \in 1 .. n /\ m.parts \in 1 .. MaxParts
                     /\ m.part \in 1 .. m.parts

Collected(b, n) == b # <<>> => /\ b[1].part = 1 /\ WithinFrame(b[1], n)
                               /\ Len(b) <= b[1].parts

CountBounds == /\ connects <= MaxConnects /\ delivered <= frames
               /\ \A t \in Threads : call[t].req <= packet_count
BufBounds   == \A t \in Threads : Collected(buf[t], frames)
RxBounds    == \A i \in 1 .. Len(rx) : rx[i].kind = "packet" => WithinFrame(rx[i], frames)
DvrBounds   == /\ dvr.frame \in {0, frames}
               /\ dvr.frame # 0 => dvr.parts \in 1 .. MaxParts /\ dvr.next \in 1 .. dvr.parts

CamBounds == CountBounds /\ BufBounds /\ RxBounds /\ DvrBounds

FramesPerConnect == frames <= MaxFrames * connects

(* Where a thread is says whether it is in send_msg, and one at most waits *)
(* for its answer with the mutex held.                                     *)
CallInv ==
  /\ call["api"].state # "none" <=> api \in {"login", "command"}
  /\ call["keepalive"].state # "none" <=> keepalive = "asks"
  /\ call["monitor"].state # "none" <=> monitor = "claims"
  /\ \A t, u \in Threads : call[t].state = "wait" /\ call[u].state = "wait" => t = u

(* A closed socket has nothing in it, and monitoring says whether the      *)
(* monitor runs but while stop_monitor waits for it.                       *)
SocketInv ==
  /\ ~up => tx = <<>> /\ dvr = Quiet
  /\ ~sock => ~up /\ rx = <<>>
  /\ api = "joinsMonitor" => ~sock /\ ~monitoring
  /\ api = "joinsKeepalive" => ~monitoring
  /\ api # "joinsMonitor" => (monitoring <=> ~Ended(monitor))

(* While paired, what is under way is the request of the one that waits,   *)
(* or the reply to it.                                                     *)
Awaited(num) == \E t \in Threads : call[t].state = "wait" /\ call[t].req = num

PairInv ==
  paired =>
    /\ dvr.frame = 0 /\ ~dvr.live
    /\ tx # <<>> => Len(tx) = 1 /\ rx = <<>> /\ tx[1].kind = "ask" /\ Awaited(tx[1].num)
    /\ rx # <<>> => Len(rx) = 1 /\ rx[1].kind = "reply" /\ Awaited(rx[1].num)
    /\ RepliesMatch

(* What has been collected is kept only while its frame is received.       *)
BufInv ==
  /\ buf["monitor"] # <<>> => monitor \in {"receives", "calls"} \/ api = "terminated"
  /\ monitor = "receives" => ~WholeFrame(buf["monitor"])
  /\ monitor = "calls" => WholeFrame(buf["monitor"])
  /\ api = "terminated" => Ended(monitor)

(* Nobody else receives while a monitor runs alone.                        *)
AloneInv ==
  alone => /\ ~Ended(monitor) => api \in {"idle", "joinsMonitor", "closes"} /\ keepalive = "none"
           /\ Ended(monitor) => buf["monitor"] = <<>>

(* The parts of a frame follow one another, in what the monitor has        *)
(* collected, in what it has still to receive and in what the DVR sends.   *)
Unfinished(m)  == m.kind = "packet" /\ m.part < m.parts
Follows(m, n)  == IF Unfinished(m)
                  THEN n = Message("packet", m.num, m.part + 1, m.parts)
                  ELSE n.kind = "packet" => n.part = 1
SentLast(m, d) == IF d.frame # 0 /\ d.next > 1
                  THEN m = Message("packet", d.frame, d.next - 1, d.parts)
                  ELSE ~Unfinished(m)
Newer(m, num)  == m.kind = "packet" /\ m.part = 1 => num < m.num
Streaming      == {"loops", "receives", "nothing", "calls"}

(* No answer comes between packets: once frames follow one another, nobody *)
(* asks.                                                                   *)
RequestInv ==
  /\ dvr.live => monitor \in Streaming
  /\ \A i \in 1 .. Len(tx) :
       /\ tx[i].kind = "start" => monitor \in Streaming
       /\ dvr.live => tx[i].kind # "ask"
       /\ \A j \in 1 .. Len(tx) : i < j /\ tx[i].kind = "start" => tx[j].kind # "ask"

LineInv ==
  /\ \A i \in 1 .. Len(rx) - 1 : Follows(rx[i], rx[i + 1])
  /\ up /\ rx # <<>> => SentLast(rx[Len(rx)], dvr)
  /\ \A i \in 1 .. Len(rx) :
       /\ Newer(rx[i], delivered)
       /\ dvr.frame # 0 /\ dvr.next = 1 /\ rx[i].kind = "packet" => rx[i].num < frames
       /\ \A j \in 1 .. Len(rx) : i < j /\ rx[i].kind = "packet" => Newer(rx[j], rx[i].num)
  /\ dvr.frame # 0 /\ dvr.next = 1 => delivered < frames

InPlace(b) == \A i \in 1 .. Len(b) : b[i] = Message("packet", b[1].num, i, b[1].parts)

PartInv ==
  LET b == buf["monitor"] IN
  b # <<>> =>
    /\ InPlace(b) /\ delivered < b[1].num
    /\ rx # <<>> => Follows(b[Len(b)], rx[1])
    /\ up /\ rx = <<>> => SentLast(b[Len(b)], dvr)
    /\ \A i \in 1 .. Len(rx) : Newer(rx[i], b[1].num)
    /\ dvr.frame # 0 /\ dvr.next = 1 => b[1].num < frames

FrameInv == alone /\ monitor # "ended" => RequestInv /\ LineInv /\ PartInv

CamInv == /\ FlagTypes /\ CamTypes /\ CamBounds /\ FramesPerConnect /\ CallInv /\ SocketInv
          /\ PairInv /\ BufInv /\ AloneInv /\ FrameInv

USE DEF flags, threads, network, history
-----------------------------------------------------------------------------
(* Sequences, first and last elements.                                     *)

LEMMA Taken ==
  ASSUME NEW S, NEW s \in Seq(S), s # <<>>
  PROVE  /\ Head(s) = s[1] /\ s[1] \in S /\ Tail(s) \in Seq(S)
         /\ Len(s) \in Nat /\ Len(s) > 0 /\ Len(Tail(s)) = Len(s) - 1
         /\ \A i \in 1 .. Len(s) - 1 : Tail(s)[i] = s[i + 1]
         /\ Len(s) = 1 <=> Tail(s) = <<>>
<1>1. Len(s) \in Nat \ {0} BY EmptySeq
<1>2. s[1] \in S BY <1>1, ElementOfSeq
<1>3. Head(s) = s[1] BY <1>1
<1>4. Len(Tail(s)) = 0 <=> Tail(s) = <<>> BY HeadTailProperties, EmptySeq
<1> QED BY <1>1, <1>2, <1>3, <1>4, HeadTailProperties

LEMMA Added ==
  ASSUME NEW S, NEW s \in Seq(S), NEW e \in S
  PROVE  /\ Append(s, e) \in Seq(S) /\ Len(s) \in Nat
         /\ Append(s, e) # <<>> /\ Len(Append(s, e)) = Len(s) + 1
         /\ \A i \in 1 .. Len(s) : Append(s, e)[i] = s[i]
         /\ Append(s, e)[Len(s) + 1] = e
<1>1. Len(s) \in Nat BY LenProperties
<1> QED BY <1>1, AppendProperties, EmptySeq

LEMMA MessageTypes ==
  /\ Nothing \in Results /\ Ret101 \in Results /\ Empty \in Results
  /\ \A m \in Messages : m \in Results
  /\ Quiet \in [frame : Nat, next : Nat, parts : Nat, live : BOOLEAN]
BY SMT DEF Nothing, Ret101, Empty, Message, Results, Messages, Quiet

LEMMA RequestTypes ==
  \A m \in Requests : m.kind \in {"ask", "start", "snap"} /\ m.num \in Nat
BY DEF Requests

LEMMA CallTypes ==
  /\ NoCall \in Calls /\ [NoCall EXCEPT !.state = "lock"] \in Calls
  /\ \A k \in Calls, m \in Results : [k EXCEPT !.state = "done", !.result = m] \in Calls
  /\ \A k \in Calls, n \in Nat : [k EXCEPT !.state = "wait", !.req = n] \in Calls
<1>1. NoCall \in Calls /\ [NoCall EXCEPT !.state = "lock"] \in Calls
  BY MessageTypes DEF NoCall, Calls
<1> QED BY <1>1 DEF Calls

(* What a call, an answer and a request do.                                *)
LEMMA CallChanges ==
  ASSUME CamTypes, NEW t \in Threads
  PROVE  /\ Asks(t) => call' \in [Threads -> Calls]
         /\ Done(t) => call' \in [Threads -> Calls]
         /\ \A m \in Results : Answered(t, m) => call' \in [Threads -> Calls]
         /\ call' = [call EXCEPT ![t].state = "wait", ![t].req = packet_count] =>
              call' \in [Threads -> Calls]
         /\ \A kind \in {"ask", "start", "snap"} : Transmits(kind) => tx' \in Seq(Requests)
<1>1. call[t] \in Calls /\ packet_count \in Nat BY DEF CamTypes
<1>2. Asks(t) => call' \in [Threads -> Calls] BY CallTypes DEF Asks, CamTypes
<1>3. Done(t) => call' \in [Threads -> Calls] BY CallTypes DEF Done, CamTypes
<1>4. ASSUME NEW m \in Results, Answered(t, m) PROVE call' \in [Threads -> Calls]
  <2>1. [call[t] EXCEPT !.state = "done", !.result = m] \in Calls BY <1>1, CallTypes
  <2>2. call' = [call EXCEPT ![t] = [call[t] EXCEPT !.state = "done", !.result = m]]
    BY <1>1, <1>4 DEF Answered, CamTypes
  <2> QED BY <2>1, <2>2 DEF CamTypes
<1>5. ASSUME call' = [call EXCEPT ![t].state = "wait", ![t].req = packet_count]
      PROVE  call' \in [Threads -> Calls]
  <2>1. [call[t] EXCEPT !.state = "wait", !.req = packet_count] \in Calls BY <1>1, CallTypes
  <2>2. call' = [call EXCEPT ![t] = [call[t] EXCEPT !.state = "wait", !.req = packet_count]]
    BY <1>1, <1>5 DEF CamTypes
  <2> QED BY <2>1, <2>2 DEF CamTypes
<1>6. ASSUME NEW kind \in {"ask", "start", "snap"}, Transmits(kind) PROVE tx' \in Seq(Requests)
  <2>1. [kind |-> kind, num |-> packet_count] \in Requests BY <1>1 DEF Requests
  <2>2. Append(tx, [kind |-> kind, num |-> packet_count]) \in Seq(Requests)
    BY <2>1, Added DEF CamTypes
  <2> QED BY <1>6, <2>2 DEF Transmits, CamTypes
<1> QED BY <1>2, <1>3, <1>4, <1>5, <1>6

-----------------------------------------------------------------------------
(* Types.                                                                  *)

(* What send_msg does to the calls, the requests and the replies.          *)
LEMMA SendMsgTypes ==
  ASSUME CamTypes, NEW t \in Threads, SendMsg(t)
  PROVE  CamTypes'
<1>1. CASE Sends(t)
  <2>1. call' \in [Threads -> Calls] BY <1>1, CallChanges, MessageTypes DEF Sends
  <2>2. tx' \in Seq(Requests) BY <1>1, CallChanges DEF Sends, CamTypes
  <2> QED BY <1>1, <2>1, <2>2 DEF Sends, CamTypes
<1>2. CASE Receives(t)
  <2>1. Head(rx) \in Results /\ Tail(rx) \in Seq(Messages)
    BY <1>2, Taken, MessageTypes DEF Receives, CamTypes
  <2>2. call' \in [Threads -> Calls] BY <1>2, <2>1, CallChanges DEF Receives
  <2> QED BY <1>2, <2>1, <2>2 DEF Receives, CamTypes
<1>3. CASE ReceiveFails(t)
  <2>1. call' \in [Threads -> Calls] BY <1>3, CallChanges, MessageTypes DEF ReceiveFails
  <2> QED BY <1>3, <2>1 DEF ReceiveFails, CamTypes
<1> QED BY <1>1, <1>2, <1>3 DEF SendMsg

LEMMA DeviceTypes == CamTypes /\ Device => CamTypes'
<1> SUFFICES ASSUME CamTypes, Device PROVE CamTypes' OBVIOUS
<1>a. tx # <<>> => /\ Head(tx) \in Requests /\ Head(tx).num \in Nat
                   /\ Tail(tx) \in Seq(Requests)
  <2>1. tx # <<>> => Head(tx) \in Requests /\ Tail(tx) \in Seq(Requests)
    BY Taken DEF CamTypes
  <2> QED BY <2>1, RequestTypes
<1>b. /\ dvr.frame \in Nat /\ dvr.next \in Nat /\ dvr.parts \in Nat /\ dvr.live \in BOOLEAN
      /\ \A n \in Nat : [dvr EXCEPT !.next = n] \in [frame : Nat, next : Nat, parts : Nat, live : BOOLEAN]
  BY DEF CamTypes
<1>1. CASE DvrAnswers
  <2>1. Message("reply", Head(tx).num, 1, 1) \in Messages
    BY <1>1, <1>a DEF DvrAnswers, Message, Messages
  <2>2. rx' \in Seq(Messages) BY <1>1, <2>1, Added DEF DvrAnswers, CamTypes
  <2> QED BY <1>1, <1>a, <2>2 DEF DvrAnswers, CamTypes
<1>2. CASE DvrBeginsFrame
  <2>1. tx' \in Seq(Requests) BY <1>2, <1>a DEF DvrBeginsFrame, CamTypes
  <2>2. PICK n \in 1 .. MaxParts :
           dvr' = [frame |-> frames + 1, next |-> 1, parts |-> n,
                   live |-> dvr.live \/ (tx' # tx /\ Head(tx).kind = "start")]
    BY <1>2 DEF DvrBeginsFrame
  <2>3. n \in Nat /\ frames + 1 \in Nat BY DvripBoundsAssumption DEF CamTypes
  <2>4. dvr' \in [frame : Nat, next : Nat, parts : Nat, live : BOOLEAN]
    BY <1>b, <2>2, <2>3
  <2> QED BY <1>2, <2>1, <2>4 DEF DvrBeginsFrame, CamTypes
<1>3. CASE DvrSendsPacket
  <2>1. Message("packet", dvr.frame, dvr.next, dvr.parts) \in Messages
    BY <1>b DEF Message, Messages
  <2>2. rx' \in Seq(Messages) BY <1>3, <2>1, Added DEF DvrSendsPacket, CamTypes
  <2>3. [Quiet EXCEPT !.live = dvr.live] \in [frame : Nat, next : Nat, parts : Nat, live : BOOLEAN]
    BY <1>b DEF Quiet
  <2>4. dvr' \in [frame : Nat, next : Nat, parts : Nat, live : BOOLEAN]
    BY <1>3, <1>b, <2>3 DEF DvrSendsPacket
  <2> QED BY <1>3, <2>2, <2>4 DEF DvrSendsPacket, CamTypes
<1>4. CASE ConnectionBreaks
  <2>1. tx' \in Seq(Requests) BY <1>4, EmptySeq DEF ConnectionBreaks
  <2> QED BY <1>4, <2>1, MessageTypes DEF ConnectionBreaks, CamTypes
<1> QED BY <1>1, <1>2, <1>3, <1>4 DEF Device

(* What the steps of the threads do to the connection and to what they     *)
(* collect.                                                                *)
LEMMA SocketTypes ==
  ASSUME CamTypes
  PROVE  /\ Opened => connects' \in Nat
         /\ Opened \/ Closed =>
              /\ tx' \in Seq(Requests) /\ rx' \in Seq(Messages)
              /\ dvr' \in [frame : Nat, next : Nat, parts : Nat, live : BOOLEAN]
<1>1. Opened => connects' \in Nat BY DEF CamTypes, Opened
<1>2. <<>> \in Seq(Requests) /\ <<>> \in Seq(Messages) BY EmptySeq
<1> QED BY <1>1, <1>2, MessageTypes DEF Opened, Closed

LEMMA CollectTypes ==
  ASSUME CamTypes, NEW t \in Threads
  PROVE  /\ Reassembles(t) => rx' \in Seq(Messages) /\ buf' \in [Threads -> Seq(Messages)]
         /\ Discards(t) => buf' \in [Threads -> Seq(Messages)]
<1>1. ASSUME Reassembles(t)
      PROVE  rx' \in Seq(Messages) /\ buf' \in [Threads -> Seq(Messages)]
  <2>1. Head(rx) \in Messages /\ rx' \in Seq(Messages)
    BY <1>1, Taken DEF Reassembles, CamTypes
  <2>2. buf[t] \in Seq(Messages) BY DEF CamTypes
  <2>3. <<>> \in Seq(Messages) /\ Append(<<>>, Head(rx)) \in Seq(Messages)
    BY <2>1, Added, EmptySeq
  <2>4. Append(<<>>, Head(rx)) = <<Head(rx)>> OBVIOUS
  <2>5. Append(buf[t], Head(rx)) \in Seq(Messages) BY <2>1, <2>2, Added
  <2>6. Adds(buf[t], Head(rx)) \in Seq(Messages) BY <2>3, <2>4, <2>5 DEF Adds
  <2> QED BY <1>1, <2>1, <2>6 DEF Reassembles, CamTypes
<1>2. Discards(t) => buf' \in [Threads -> Seq(Messages)]
  BY EmptySeq DEF Discards, CamTypes
<1> QED BY <1>1, <1>2

LEMMA CallerTypes == CamTypes /\ Caller => CamTypes'
<1> SUFFICES ASSUME CamTypes, Caller PROVE CamTypes' OBVIOUS
<1> USE DEF Begins
<1>a. "api" \in Threads BY DEF Threads
<1>1. CASE Connect BY <1>1, SocketTypes DEF Connect, CamTypes
<1>2. CASE Login
  <2>1. call' \in [Threads -> Calls] BY <1>a, <1>2, CallChanges DEF Login
  <2> QED BY <1>2, <2>1, SocketTypes DEF Login, CamTypes
<1>3. CASE Command
  <2>1. call' \in [Threads -> Calls] BY <1>a, <1>3, CallChanges DEF Command
  <2> QED BY <1>3, <2>1 DEF Command, CamTypes
<1>4. CASE Snapshot BY <1>4 DEF Snapshot, CamTypes
<1>5. CASE StartMonitor BY <1>5 DEF StartMonitor, CamTypes, Cleared
<1>6. CASE StopMonitor BY <1>6, SocketTypes DEF StopMonitor, CamTypes
<1>7. CASE Close BY <1>7 DEF Close, CamTypes
<1> QED BY <1>1, <1>2, <1>3, <1>4, <1>5, <1>6, <1>7 DEF Caller

LEMMA CallGoesOnTypes == CamTypes /\ CallGoesOn => CamTypes'
<1> SUFFICES ASSUME CamTypes, CallGoesOn PROVE CamTypes' OBVIOUS
<1>a. "api" \in Threads /\ "monitor" \in Threads BY DEF Threads
<1>1. CASE SendMsg("api") BY <1>1, <1>a, SendMsgTypes
<1>2. CASE LoginReturns
  <2>1. call' \in [Threads -> Calls] BY <1>a, <1>2, CallChanges DEF LoginReturns
  <2> QED BY <1>2, <2>1 DEF LoginReturns, CamTypes
<1>3. CASE CommandReturns
  <2>1. call' \in [Threads -> Calls] BY <1>a, <1>3, CallChanges DEF CommandReturns
  <2> QED BY <1>3, <2>1 DEF CommandReturns, CamTypes
<1>4. CASE SnapshotSends
  <2>1. tx' \in Seq(Requests) BY <1>a, <1>4, CallChanges DEF SnapshotSends, SendsOnly
  <2> QED BY <1>4, <2>1 DEF SnapshotSends, SendsOnly, CamTypes
<1>5. CASE SnapshotReads
  <2>1. rx' \in Seq(Messages) /\ buf' \in [Threads -> Seq(Messages)]
    BY <1>a, <1>5, CollectTypes DEF SnapshotReads
  <2> QED BY <1>5, <2>1 DEF SnapshotReads, CamTypes
<1>6. CASE SnapshotFails
  <2>1. buf' \in [Threads -> Seq(Messages)] BY <1>a, <1>6, CollectTypes DEF SnapshotFails, Fails
  <2> QED BY <1>6, <2>1 DEF SnapshotFails, Fails, CamTypes
<1>7. CASE SnapshotReturns
  <2>1. buf' \in [Threads -> Seq(Messages)]
    BY <1>a, <1>7, CollectTypes DEF SnapshotReturns, GivesUp
  <2> QED BY <1>7, <2>1 DEF SnapshotReturns, CamTypes
<1>8. CASE MonitorStarted
  <2>1. call' \in [Threads -> Calls] BY <1>a, <1>8, CallChanges DEF MonitorStarted
  <2> QED BY <1>8, <2>1 DEF MonitorStarted, CamTypes
<1>9. CASE Terminates
  <2>1. call' \in [Threads -> Calls] BY <1>9, CallTypes DEF Terminates
  <2> QED BY <1>9, <2>1, SocketTypes DEF Terminates, CamTypes
<1>10. CASE StopMonitorJoins BY <1>10 DEF StopMonitorJoins, CamTypes
<1>11. CASE CloseJoins BY <1>11, SocketTypes DEF CloseJoins, CamTypes
<1> QED BY <1>1, <1>2, <1>3, <1>4, <1>5, <1>6, <1>7, <1>8, <1>9, <1>10, <1>11 DEF CallGoesOn

LEMMA KeepaliveTypes == CamTypes /\ KeepaliveLoop => CamTypes'
<1> SUFFICES ASSUME CamTypes, KeepaliveLoop PROVE CamTypes' OBVIOUS
<1>a. "keepalive" \in Threads BY DEF Threads
<1>1. CASE SendMsg("keepalive") BY <1>1, <1>a, SendMsgTypes
<1>2. CASE KeepaliveWakes
  <2>1. call' \in [Threads -> Calls]
    BY <1>a, <1>2, CallChanges DEF KeepaliveWakes, CamTypes
  <2> QED BY <1>2, <2>1 DEF KeepaliveWakes, CamTypes
<1>3. CASE KeepaliveReturns
  <2>1. call' \in [Threads -> Calls] BY <1>a, <1>3, CallChanges DEF KeepaliveReturns
  <2> QED BY <1>3, <2>1, SocketTypes DEF KeepaliveReturns, CamTypes
<1> QED BY <1>1, <1>2, <1>3 DEF KeepaliveLoop

LEMMA MonitorTypes == CamTypes /\ BufInv /\ MonitorLoop => CamTypes'
<1> SUFFICES ASSUME CamTypes, BufInv, MonitorLoop PROVE CamTypes' OBVIOUS
<1> USE DEF MonitorEnds
<1>a. "monitor" \in Threads BY DEF Threads
<1>1. CASE SendMsg("monitor") BY <1>1, <1>a, SendMsgTypes
<1>2. CASE MonitorClaimed
  <2>1. call' \in [Threads -> Calls] BY <1>a, <1>2, CallChanges DEF MonitorClaimed
  <2> QED BY <1>2, <2>1 DEF MonitorClaimed, CamTypes
<1>3. CASE MonitorStarts
  <2>1. tx' \in Seq(Requests) BY <1>a, <1>3, CallChanges DEF MonitorStarts, SendsOnly
  <2> QED BY <1>3, <2>1 DEF MonitorStarts, SendsOnly, CamTypes
<1>4. CASE MonitorLoops BY <1>4 DEF MonitorLoops, CamTypes
<1>5. CASE MonitorReads
  <2>1. rx' \in Seq(Messages) /\ buf' \in [Threads -> Seq(Messages)]
    BY <1>a, <1>5, CollectTypes DEF MonitorReads
  <2> QED BY <1>5, <2>1 DEF MonitorReads, CamTypes
<1>6. CASE MonitorReceiveFails
  <2>1. buf' \in [Threads -> Seq(Messages)]
    BY <1>a, <1>6, CollectTypes DEF MonitorReceiveFails, Fails
  <2> QED BY <1>6, <2>1 DEF MonitorReceiveFails, Fails, CamTypes
<1>7. CASE MonitorGivesUp
  <2>1. buf' \in [Threads -> Seq(Messages)]
    BY <1>a, <1>7, CollectTypes DEF MonitorGivesUp, GivesUp
  <2> QED BY <1>7, <2>1 DEF MonitorGivesUp, CamTypes
<1>8. CASE MonitorGotNothing BY <1>8 DEF MonitorGotNothing, CamTypes
<1>9. CASE MonitorCallReturns
  <2>1. buf["monitor"] # <<>> => buf["monitor"][1].num \in Nat
    <3>1. buf["monitor"] \in Seq(Messages) BY <1>a DEF CamTypes
    <3>2. buf["monitor"] # <<>> => buf["monitor"][1] \in Messages BY <3>1, Taken
    <3> QED BY <3>2 DEF Messages
  <2>2. buf["monitor"] # <<>> BY <1>9 DEF MonitorCallReturns, BufInv, WholeFrame
  <2>3. buf' \in [Threads -> Seq(Messages)]
    BY <1>a, <1>9, CollectTypes DEF MonitorCallReturns
  <2> QED BY <1>9, <2>1, <2>2, <2>3 DEF MonitorCallReturns, CamTypes
<1> QED BY <1>1, <1>2, <1>3, <1>4, <1>5, <1>6, <1>7, <1>8, <1>9 DEF MonitorLoop

LEMMA TypesStep == CamTypes /\ BufInv /\ [Next]_vars => CamTypes'
<1> SUFFICES ASSUME CamTypes, BufInv, [Next]_vars PROVE CamTypes' OBVIOUS
<1>1. CASE UNCHANGED vars BY <1>1 DEF vars, CamTypes
<1> QED BY <1>1, DeviceTypes, CallerTypes, CallGoesOnTypes, KeepaliveTypes, MonitorTypes DEF Next

(* The flags are changed to constants, paired and alone to conditions.     *)
LEMMA FlagsStep == FlagTypes /\ [Next]_vars => FlagTypes'
<1> SUFFICES ASSUME FlagTypes, [Next]_vars PROVE FlagTypes' OBVIOUS
<1> USE DEF FlagTypes
<1>1. CASE UNCHANGED vars BY <1>1 DEF vars
<1>2. CASE Device
  BY <1>2 DEF Device, DvrAnswers, DvrBeginsFrame, DvrSendsPacket, ConnectionBreaks
<1>3. ASSUME NEW t \in Threads, SendMsg(t) PROVE FlagTypes'
  BY <1>3 DEF SendMsg, Sends, Receives, ReceiveFails
<1>4. Opened => sock' \in BOOLEAN /\ up' \in BOOLEAN /\ paired' \in BOOLEAN
  BY DEF Opened
<1>5. Closed => sock' \in BOOLEAN /\ up' \in BOOLEAN BY DEF Closed
<1>6. CASE Caller
  <2> USE DEF Begins
  <2>1. CASE Connect BY <2>1, <1>4 DEF Connect
  <2>2. CASE Login BY <2>2, <1>4 DEF Login
  <2>3. CASE Command \/ Snapshot BY <2>3 DEF Command, Snapshot
  <2>4. CASE StartMonitor \/ Close BY <2>4 DEF StartMonitor, Cleared, Close
  <2>5. CASE StopMonitor BY <2>5, <1>5 DEF StopMonitor
  <2> QED BY <1>6, <2>1, <2>2, <2>3, <2>4, <2>5 DEF Caller
<1>7. CASE CallGoesOn
  <2>1. CASE SendMsg("api") BY <2>1, <1>3 DEF Threads
  <2>2. CASE LoginReturns \/ CommandReturns \/ StopMonitorJoins
    BY <2>2 DEF LoginReturns, CommandReturns, StopMonitorJoins
  <2>3. CASE SnapshotSends \/ SnapshotReads
    BY <2>3 DEF SnapshotSends, SendsOnly, SnapshotReads
  <2>4. CASE SnapshotFails \/ SnapshotReturns
    BY <2>4 DEF SnapshotFails, Fails, SnapshotReturns
  <2>5. CASE MonitorStarted BY <2>5 DEF MonitorStarted
  <2>6. CASE Terminates \/ CloseJoins BY <2>6, <1>5 DEF Terminates, CloseJoins
  <2> QED BY <1>7, <2>1, <2>2, <2>3, <2>4, <2>5, <2>6 DEF CallGoesOn
<1>8. CASE KeepaliveLoop
  <2>1. CASE SendMsg("keepalive") BY <2>1, <1>3 DEF Threads
  <2>2. CASE KeepaliveWakes BY <2>2 DEF KeepaliveWakes
  <2>3. CASE KeepaliveReturns BY <2>3, <1>5 DEF KeepaliveReturns
  <2> QED BY <1>8, <2>1, <2>2, <2>3 DEF KeepaliveLoop
<1>9. CASE MonitorLoop
  <2> USE DEF MonitorEnds
  <2>1. CASE SendMsg("monitor") BY <2>1, <1>3 DEF Threads
  <2>2. CASE MonitorClaimed BY <2>2 DEF MonitorClaimed
  <2>3. CASE MonitorStarts BY <2>3 DEF MonitorStarts, SendsOnly
  <2>4. CASE MonitorLoops \/ MonitorGotNothing BY <2>4 DEF MonitorLoops, MonitorGotNothing
  <2>5. CASE MonitorReads \/ MonitorCallReturns BY <2>5 DEF MonitorReads, MonitorCallReturns
  <2>6. CASE MonitorReceiveFails \/ MonitorGivesUp
    BY <2>6 DEF MonitorReceiveFails, Fails, MonitorGivesUp
  <2> QED BY <1>9, <2>1, <2>2, <2>3, <2>4, <2>5, <2>6 DEF MonitorLoop
<1> QED BY <1>1, <1>2, <1>6, <1>7, <1>8, <1>9 DEF Next

(* The monitor thread and what it has collected, and who asks.             *)
LEMMA CallStep == CamTypes /\ CallInv /\ [Next]_vars => CallInv'
<1> SUFFICES ASSUME CamTypes, CallInv, [Next]_vars PROVE CallInv' OBVIOUS
<1> USE DEF CallInv
<1>a. /\ "api" \in Threads /\ "keepalive" \in Threads /\ "monitor" \in Threads
      /\ \A t \in Threads : t \in {"api", "keepalive", "monitor"}
  BY DEF Threads
<1>b. \A t \in Threads : \A k : call' = [call EXCEPT ![t] = k] =>
        call'[t] = k /\ \A u \in Threads \ {t} : call'[u] = call[u]
  BY DEF CamTypes
<1>1. CASE UNCHANGED vars BY <1>1 DEF vars
<1>2. CASE Device
  BY <1>2 DEF Device, DvrAnswers, DvrBeginsFrame, DvrSendsPacket, ConnectionBreaks
<1>3. ASSUME NEW t \in Threads, SendMsg(t) PROVE CallInv'
  <2>1. /\ UNCHANGED threads /\ call[t].state # "none" /\ call'[t].state # "none"
        /\ \A u \in Threads \ {t} : call'[u] = call[u]
        /\ call'[t].state = "wait" => \A u \in Threads : call[u].state # "wait"
    BY <1>3 DEF SendMsg, Sends, Receives, ReceiveFails, Answered, MutexFree, CamTypes, Calls
  <2> QED BY <1>a, <2>1
<1>4. \A t \in Threads :
        /\ Asks(t) => /\ call'[t].state = "lock"
                      /\ \A u \in Threads \ {t} : call'[u] = call[u]
        /\ Done(t) => /\ call'[t].state = "none"
                      /\ \A u \in Threads \ {t} : call'[u] = call[u]
  BY <1>b DEF Asks, Done, NoCall
<1>5. CASE Caller
  <2>1. CASE Login \/ Command BY <1>a, <1>4, <2>1 DEF Login, Command, Begins
  <2>2. CASE Connect \/ Snapshot \/ StartMonitor \/ StopMonitor \/ Close
    BY <2>2 DEF Connect, Snapshot, Begins, StartMonitor, StopMonitor, Close
  <2> QED BY <1>5, <2>1, <2>2 DEF Caller
<1>6. CASE CallGoesOn
  <2>1. CASE SendMsg("api") BY <2>1, <1>3, <1>a
  <2>2. CASE LoginReturns BY <1>a, <1>4, <2>2 DEF LoginReturns
  <2>3. CASE CommandReturns BY <1>a, <1>4, <2>3 DEF CommandReturns
  <2>4. CASE SnapshotSends \/ SnapshotReads \/ SnapshotFails \/ SnapshotReturns
    BY <2>4 DEF SnapshotSends, SnapshotReads, SnapshotFails, SnapshotReturns
  <2>5. CASE MonitorStarted
    <3>1. keepalive' # "asks"
      BY <2>5 DEF MonitorStarted, KeepaliveJoined, Ended
    <3>2. keepalive # "asks" BY <2>5 DEF MonitorStarted, KeepaliveJoined, Ended
    <3> QED BY <1>a, <1>4, <2>5, <3>1, <3>2 DEF MonitorStarted
  <2>6. CASE Terminates BY <1>a, <2>6 DEF Terminates, NoCall
  <2>7. CASE StopMonitorJoins \/ CloseJoins
    BY <2>7 DEF StopMonitorJoins, CloseJoins, Ended
  <2> QED BY <1>6, <2>1, <2>2, <2>3, <2>4, <2>5, <2>6, <2>7 DEF CallGoesOn
<1>7. CASE KeepaliveLoop
  <2>1. CASE SendMsg("keepalive") BY <2>1, <1>3, <1>a
  <2>2. CASE KeepaliveWakes BY <1>a, <1>4, <2>2 DEF KeepaliveWakes
  <2>3. CASE KeepaliveReturns BY <1>a, <1>4, <2>3 DEF KeepaliveReturns
  <2> QED BY <1>7, <2>1, <2>2, <2>3 DEF KeepaliveLoop
<1>8. CASE MonitorLoop
  <2>1. CASE SendMsg("monitor") BY <2>1, <1>3, <1>a
  <2>2. CASE MonitorClaimed BY <1>a, <1>4, <2>2 DEF MonitorClaimed, MonitorEnds
  <2>3. CASE MonitorStarts \/ MonitorLoops
    BY <2>3 DEF MonitorStarts, MonitorLoops, MonitorEnds
  <2>4. CASE MonitorReads BY <2>4 DEF MonitorReads
  <2>5. CASE MonitorReceiveFails \/ MonitorGivesUp
    BY <2>5 DEF MonitorReceiveFails, MonitorGivesUp
  <2>6. CASE MonitorGotNothing \/ MonitorCallReturns
    BY <2>6 DEF MonitorGotNothing, MonitorCallReturns, MonitorEnds
  <2> QED BY <1>8, <2>1, <2>2, <2>3, <2>4, <2>5, <2>6 DEF MonitorLoop
<1> QED BY <1>1, <1>2, <1>5, <1>6, <1>7, <1>8 DEF Next

LEMMA SocketStep == SocketInv /\ [Next]_vars => SocketInv'
<1> SUFFICES ASSUME SocketInv, [Next]_vars PROVE SocketInv' OBVIOUS
<1> USE DEF SocketInv, Ended
<1>1. CASE UNCHANGED vars BY <1>1 DEF vars
<1>2. CASE Device
  <2>1. CASE DvrAnswers \/ DvrBeginsFrame \/ DvrSendsPacket
    BY <2>1 DEF DvrAnswers, DvrBeginsFrame, DvrSendsPacket
  <2>2. CASE ConnectionBreaks BY <2>2 DEF ConnectionBreaks
  <2> QED BY <1>2, <2>1, <2>2 DEF Device
<1>3. ASSUME NEW t \in Threads, SendMsg(t) PROVE SocketInv'
  BY <1>3 DEF SendMsg, Sends, Transmits, Receives, ReceiveFails
<1>4. CASE Caller
  <2> USE DEF Begins
  <2>1. CASE Connect BY <2>1 DEF Connect, Opened
  <2>2. CASE Login BY <2>2 DEF Login, Opened
  <2>3. CASE Command \/ Snapshot BY <2>3 DEF Command, Snapshot
  <2>4. CASE StartMonitor \/ Close BY <2>4 DEF StartMonitor, Cleared, Close
  <2>5. CASE StopMonitor BY <2>5 DEF StopMonitor, Closed
  <2> QED BY <1>4, <2>1, <2>2, <2>3, <2>4, <2>5 DEF Caller
<1>5. CASE CallGoesOn
  <2>1. CASE SendMsg("api") BY <2>1, <1>3 DEF Threads
  <2>2. CASE LoginReturns \/ CommandReturns \/ StopMonitorJoins
    BY <2>2 DEF LoginReturns, CommandReturns, StopMonitorJoins
  <2>3. CASE SnapshotSends BY <2>3 DEF SnapshotSends, SendsOnly, Transmits
  <2>4. CASE SnapshotReads BY <2>4 DEF SnapshotReads, Reassembles
  <2>5. CASE SnapshotFails \/ SnapshotReturns BY <2>5 DEF SnapshotFails, SnapshotReturns
  <2>6. CASE MonitorStarted BY <2>6 DEF MonitorStarted
  <2>7. CASE Terminates \/ CloseJoins BY <2>7 DEF Terminates, CloseJoins, Closed
  <2> QED BY <1>5, <2>1, <2>2, <2>3, <2>4, <2>5, <2>6, <2>7 DEF CallGoesOn
<1>6. CASE KeepaliveLoop
  <2>1. CASE SendMsg("keepalive") BY <2>1, <1>3 DEF Threads
  <2>2. CASE KeepaliveWakes BY <2>2 DEF KeepaliveWakes
  <2>3. CASE KeepaliveReturns BY <2>3 DEF KeepaliveReturns, Closed
  <2> QED BY <1>6, <2>1, <2>2, <2>3 DEF KeepaliveLoop
<1>7. CASE MonitorLoop
  <2> USE DEF MonitorEnds
  <2>1. CASE SendMsg("monitor") BY <2>1, <1>3 DEF Threads
  <2>2. CASE MonitorClaimed BY <2>2 DEF MonitorClaimed
  <2>3. CASE MonitorStarts BY <2>3 DEF MonitorStarts, SendsOnly, Transmits
  <2>4. CASE MonitorLoops \/ MonitorGotNothing BY <2>4 DEF MonitorLoops, MonitorGotNothing
  <2>5. CASE MonitorReads BY <2>5 DEF MonitorReads, Reassembles
  <2>6. CASE MonitorCallReturns BY <2>6 DEF MonitorCallReturns
  <2>7. CASE MonitorReceiveFails \/ MonitorGivesUp
    BY <2>7 DEF MonitorReceiveFails, Fails, MonitorGivesUp
  <2> QED BY <1>7, <2>1, <2>2, <2>3, <2>4, <2>5, <2>6, <2>7 DEF MonitorLoop
<1> QED BY <1>1, <1>2, <1>4, <1>5, <1>6, <1>7 DEF Next

LEMMA BufStep == CamTypes /\ BufInv /\ [Next]_vars => BufInv'
<1> SUFFICES ASSUME CamTypes, BufInv, [Next]_vars PROVE BufInv' OBVIOUS
<1> USE DEF BufInv, Ended
<1>a. WholeFrame(<<>>) = FALSE BY DEF WholeFrame
<1>1. CASE UNCHANGED vars BY <1>1 DEF vars
<1>2. CASE Device
  BY <1>2 DEF Device, DvrAnswers, DvrBeginsFrame, DvrSendsPacket, ConnectionBreaks
<1>3. ASSUME NEW t \in Threads, SendMsg(t) PROVE BufInv'
  BY <1>3 DEF SendMsg, Sends, Receives, ReceiveFails
<1>4. CASE Caller
  BY <1>4 DEF Caller, Begins, Connect, Login, Command, Snapshot, StartMonitor, StopMonitor, Close
<1>5. CASE CallGoesOn
  <2>1. CASE SendMsg("api") BY <2>1, <1>3 DEF Threads
  <2>2. CASE LoginReturns \/ CommandReturns \/ CloseJoins
    BY <2>2 DEF LoginReturns, CommandReturns, CloseJoins
  <2>3. CASE SnapshotSends BY <2>3 DEF SnapshotSends
  <2>4. CASE SnapshotReads \/ SnapshotFails \/ SnapshotReturns
    <3>1. buf'["monitor"] = buf["monitor"]
      BY <2>4 DEF SnapshotReads, SnapshotFails, SnapshotReturns, Reassembles, Fails,
                  GivesUp, Discards, CamTypes, Threads
    <3> QED BY <2>4, <3>1 DEF SnapshotReads, SnapshotFails, SnapshotReturns
  <2>5. CASE MonitorStarted BY <2>5 DEF MonitorStarted
  <2>6. CASE Terminates BY <2>6 DEF Terminates
  <2>7. CASE StopMonitorJoins BY <2>7 DEF StopMonitorJoins
  <2> QED BY <1>5, <2>1, <2>2, <2>3, <2>4, <2>5, <2>6, <2>7 DEF CallGoesOn
<1>6. CASE KeepaliveLoop
  <2>1. CASE SendMsg("keepalive") BY <2>1, <1>3 DEF Threads
  <2>2. CASE KeepaliveWakes \/ KeepaliveReturns
    BY <2>2 DEF KeepaliveWakes, KeepaliveReturns
  <2> QED BY <1>6, <2>1, <2>2 DEF KeepaliveLoop
<1>7. CASE MonitorLoop
  <2> USE DEF MonitorEnds
  <2>a. Discards("monitor") => buf'["monitor"] = <<>> BY DEF Discards, CamTypes, Threads
  <2>1. CASE SendMsg("monitor") BY <2>1, <1>3 DEF Threads
  <2>2. CASE MonitorClaimed \/ MonitorStarts BY <2>2 DEF MonitorClaimed, MonitorStarts
  <2>3. CASE MonitorLoops BY <1>a, <2>3 DEF MonitorLoops
  <2>4. CASE MonitorGotNothing BY <1>a, <2>4 DEF MonitorGotNothing
  <2>5. CASE MonitorReads BY <1>a, <2>5 DEF MonitorReads
  <2>6. CASE MonitorCallReturns BY <2>a, <2>6 DEF MonitorCallReturns
  <2>7. CASE MonitorReceiveFails \/ MonitorGivesUp
    BY <2>a, <2>7 DEF MonitorReceiveFails, Fails, MonitorGivesUp, GivesUp
  <2> QED BY <1>7, <2>1, <2>2, <2>3, <2>4, <2>5, <2>6, <2>7 DEF MonitorLoop
<1> QED BY <1>1, <1>2, <1>4, <1>5, <1>6, <1>7 DEF Next

LEMMA AloneStep ==
  CamTypes /\ CallInv /\ SocketInv /\ BufInv /\ AloneInv /\ [Next]_vars => AloneInv'
<1> SUFFICES ASSUME CamTypes, CallInv, SocketInv, BufInv, AloneInv, [Next]_vars, alone'
             PROVE  AloneInv'
  BY DEF AloneInv
<1> USE DEF AloneInv, Ended
<1>1. CASE UNCHANGED vars BY <1>1 DEF vars
<1>2. CASE Device
  BY <1>2 DEF Device, DvrAnswers, DvrBeginsFrame, DvrSendsPacket, ConnectionBreaks
<1>3. ASSUME NEW t \in Threads, SendMsg(t) PROVE AloneInv'
  BY <1>3 DEF SendMsg, Sends, Receives, ReceiveFails
<1>4. CASE Caller
  <2>1. CASE Connect \/ Login \/ Command \/ Snapshot
    BY <2>1 DEF Begins, Connect, Login, Command, Snapshot
  <2>2. CASE StartMonitor BY <2>2 DEF StartMonitor, SocketInv
  <2>3. CASE StopMonitor \/ Close BY <2>3 DEF StopMonitor, Close
  <2> QED BY <1>4, <2>1, <2>2, <2>3 DEF Caller
<1>5. CASE CallGoesOn
  <2>1. CASE SendMsg("api") BY <2>1, <1>3 DEF Threads
  <2>2. CASE LoginReturns \/ CommandReturns BY <2>2 DEF LoginReturns, CommandReturns
  <2>3. CASE SnapshotSends BY <2>3 DEF SnapshotSends
  <2>4. CASE SnapshotReads \/ SnapshotFails \/ SnapshotReturns
    <3>1. buf'["monitor"] = buf["monitor"]
      BY <2>4 DEF SnapshotReads, SnapshotFails, SnapshotReturns, Reassembles, Fails,
                  GivesUp, Discards, CamTypes, Threads
    <3> QED BY <2>4, <3>1 DEF SnapshotReads, SnapshotFails, SnapshotReturns
  <2>5. CASE MonitorStarted BY <2>5 DEF MonitorStarted, KeepaliveJoined
  <2>6. CASE Terminates BY <2>6 DEF Terminates, SocketInv
  <2>7. CASE StopMonitorJoins \/ CloseJoins BY <2>7 DEF StopMonitorJoins, CloseJoins
  <2> QED BY <1>5, <2>1, <2>2, <2>3, <2>4, <2>5, <2>6, <2>7 DEF CallGoesOn
<1>6. CASE KeepaliveLoop
  <2>1. CASE SendMsg("keepalive") BY <2>1, <1>3 DEF Threads
  <2>2. CASE KeepaliveWakes \/ KeepaliveReturns
    BY <2>2 DEF KeepaliveWakes, KeepaliveReturns
  <2> QED BY <1>6, <2>1, <2>2 DEF KeepaliveLoop
<1>7. CASE MonitorLoop
  <2> USE DEF MonitorEnds
  <2>a. Discards("monitor") => buf'["monitor"] = <<>> BY DEF Discards, CamTypes, Threads
  <2>1. CASE SendMsg("monitor") BY <2>1, <1>3 DEF Threads
  <2>2. CASE MonitorClaimed \/ MonitorStarts BY <2>2 DEF MonitorClaimed, MonitorStarts, BufInv
  <2>3. CASE MonitorLoops \/ MonitorGotNothing
    BY <2>3 DEF MonitorLoops, MonitorGotNothing, BufInv
  <2>4. CASE MonitorReads BY <2>4 DEF MonitorReads
  <2>5. CASE MonitorReceiveFails \/ MonitorGivesUp
    BY <2>a, <2>5 DEF MonitorReceiveFails, Fails, MonitorGivesUp, GivesUp
  <2>6. CASE MonitorCallReturns BY <2>a, <2>6 DEF MonitorCallReturns
  <2> QED BY <1>7, <2>1, <2>2, <2>3, <2>4, <2>5, <2>6 DEF MonitorLoop
<1> QED BY <1>1, <1>2, <1>4, <1>5, <1>6, <1>7 DEF Next

-----------------------------------------------------------------------------
(* Requests and replies.                                                   *)

(* Calls that do not change, begin or end disturb no pair, if the messages *)
(* stay, are taken one by one or are gone with their connection.           *)
CallsKept ==
  \A t \in Threads : \/ call'[t] = call[t]
                     \/ call[t].state # "wait" /\ call'[t].state \in {"none", "lock"}

LEMMA RepliesKept == RepliesMatch /\ paired /\ CallsKept => RepliesMatch'
BY DEF RepliesMatch, CallsKept

LEMMA PairKept ==
  ASSUME CamTypes, PairInv, CallsKept, paired' => paired,
         tx' = tx, dvr' = dvr, rx' = rx \/ (rx # <<>> /\ rx' = Tail(rx))
  PROVE  PairInv'
<1> SUFFICES ASSUME paired' PROVE PairInv' BY DEF PairInv
<1>1. \A num : Awaited(num) => Awaited(num)'
  <2> SUFFICES ASSUME NEW num, NEW t \in Threads, call[t].state = "wait", call[t].req = num
               PROVE  Awaited(num)'
    BY DEF Awaited
  <2>1. call'[t] = call[t] BY DEF CallsKept
  <2> QED BY <2>1 DEF Awaited
<1>2. rx # <<>> /\ Len(rx) = 1 => Tail(rx) = <<>> BY Taken DEF CamTypes
<1>3. RepliesMatch' BY RepliesKept DEF PairInv
<1>4. tx' # <<>> => tx' = tx /\ rx' = <<>> /\ Awaited(tx[1].num)'
  BY <1>1 DEF PairInv, Awaited
<1>5. rx' # <<>> => rx' = rx /\ Len(rx) = 1 /\ rx[1].kind = "reply"
  BY <1>2 DEF PairInv
<1>6. rx' # <<>> => Awaited(rx[1].num)' BY <1>1, <1>5 DEF PairInv, Awaited
<1> QED BY <1>3, <1>4, <1>5, <1>6 DEF PairInv

LEMMA PairGone ==
  ASSUME PairInv, CallsKept, paired' => paired \/ \A t \in Threads : call[t].state = "none",
         tx' = <<>>, rx' = <<>>, dvr' = Quiet
  PROVE  PairInv'
<1> SUFFICES ASSUME paired' PROVE PairInv' BY DEF PairInv
<1>1. RepliesMatch' BY RepliesKept DEF PairInv, RepliesMatch, CallsKept
<1> QED BY <1>1 DEF PairInv, Quiet

LEMMA SendMsgPairs ==
  ASSUME CamTypes, CallInv, PairInv, NEW t \in Threads, SendMsg(t)
  PROVE  PairInv'
<1> SUFFICES ASSUME paired' PROVE PairInv' BY DEF PairInv
<1>1. CASE Sends(t)
  <2>1. paired /\ tx = <<>> /\ rx = <<>> /\ rx' = <<>> /\ dvr' = dvr
    BY <1>1 DEF Sends, MutexFree, PairInv, Awaited
  <2>2. /\ \A u \in Threads \ {t} : call'[u] = call[u]
        /\ call'[t].state = "done" => call'[t].result.kind # "reply"
    BY <1>1 DEF Sends, Answered, CamTypes, Calls, Ret101, Message
  <2>3. RepliesMatch' BY <2>1, <2>2 DEF PairInv, RepliesMatch
  <2>4. tx' # <<>> => /\ Len(tx') = 1 /\ tx'[1] = [kind |-> "ask", num |-> packet_count]
                      /\ call'[t].state = "wait" /\ call'[t].req = packet_count
    BY <1>1, <2>1 DEF Sends, Transmits, Answered, CamTypes, Calls
  <2>5. tx' # <<>> => Awaited(tx[1].num)' BY <2>4 DEF Awaited
  <2> QED BY <2>1, <2>3, <2>4, <2>5 DEF PairInv
<1>2. CASE Receives(t)
  <2>1. /\ paired /\ tx' = <<>> /\ dvr' = dvr /\ rx # <<>> /\ Len(rx) = 1
        /\ rx[1].kind = "reply" /\ Awaited(rx[1].num)
    BY <1>2 DEF Receives, PairInv
  <2>2. rx' = <<>> /\ Head(rx) = rx[1] BY <1>2, <2>1, Taken DEF Receives, CamTypes
  <2>3. rx[1].num = call[t].req BY <1>2, <2>1 DEF Receives, Awaited, CallInv
  <2>4. /\ \A u \in Threads \ {t} : call'[u] = call[u]
        /\ call'[t].result = rx[1] /\ call'[t].req = call[t].req
    BY <1>2, <2>2 DEF Receives, Answered, CamTypes, Calls
  <2>5. RepliesMatch' BY <2>1, <2>3, <2>4 DEF PairInv, RepliesMatch
  <2> QED BY <2>1, <2>2, <2>5 DEF PairInv
<1>3. CASE ReceiveFails(t) BY <1>3 DEF ReceiveFails
<1> QED BY <1>1, <1>2, <1>3 DEF SendMsg

LEMMA PairStep ==
  CamTypes /\ CallInv /\ SocketInv /\ PairInv /\ [Next]_vars => PairInv'
<1> SUFFICES ASSUME CamTypes, CallInv, SocketInv, PairInv, [Next]_vars, paired'
             PROVE  PairInv'
  BY DEF PairInv
<1>a. /\ "api" \in Threads /\ "keepalive" \in Threads /\ "monitor" \in Threads
  BY DEF Threads
<1>b. call' = call => CallsKept BY DEF CallsKept
<1>c. \A t \in Threads : (Asks(t) /\ call[t].state = "none") \/ Done(t) => CallsKept
  BY DEF CallsKept, Asks, Done, NoCall, CamTypes
<1>d. ASSUME Closed, CallsKept, paired' => paired PROVE PairInv'
  BY <1>d, PairGone DEF Closed
<1>1. CASE UNCHANGED vars BY <1>1, <1>b, PairKept DEF vars
<1>2. CASE Device
  <2>1. CASE DvrAnswers
    <3>1. /\ paired /\ tx # <<>> /\ Len(tx) = 1 /\ rx = <<>> /\ Awaited(tx[1].num)
          /\ call' = call /\ dvr' = dvr
      BY <2>1 DEF DvrAnswers, PairInv
    <3>2. Tail(tx) = <<>> /\ Head(tx) = tx[1] /\ tx[1] \in Requests
      BY <3>1, Taken DEF CamTypes
    <3>3. rx' = <<Message("reply", tx[1].num, 1, 1)>> /\ tx' = <<>>
      BY <2>1, <3>1, <3>2 DEF DvrAnswers
    <3>4. Len(rx') = 1 /\ rx'[1].kind = "reply" /\ rx'[1].num = tx[1].num
      BY <3>3 DEF Message
    <3>5. Awaited(rx[1].num)' BY <3>1, <3>4 DEF Awaited
    <3>6. RepliesMatch' BY <3>1 DEF PairInv, RepliesMatch
    <3> QED BY <3>1, <3>3, <3>4, <3>5, <3>6 DEF PairInv
  <2>2. CASE DvrBeginsFrame
    <3>1. Head(tx) = tx[1] \/ tx = <<>> BY Taken DEF CamTypes
    <3> QED BY <2>2, <3>1 DEF DvrBeginsFrame, PairInv
  <2>3. CASE DvrSendsPacket BY <2>3 DEF DvrSendsPacket, PairInv
  <2>4. CASE ConnectionBreaks
    <3>1. RepliesMatch' BY <2>4 DEF ConnectionBreaks, PairInv, RepliesMatch
    <3>2. rx # <<>> => Awaited(rx[1].num)' BY <2>4 DEF ConnectionBreaks, PairInv, Awaited
    <3> QED BY <2>4, <3>1, <3>2 DEF ConnectionBreaks, PairInv, Quiet
  <2> QED BY <1>2, <2>1, <2>2, <2>3, <2>4 DEF Device
<1>3. ASSUME NEW t \in Threads, SendMsg(t) PROVE PairInv' BY <1>3, SendMsgPairs
<1>4. CASE Caller
  <2>1. CASE Connect
    <3>1. CallsKept BY <2>1, <1>b DEF Connect
    <3> QED BY <2>1, <3>1, PairGone DEF Connect, Opened
  <2>2. CASE Login
    <3>1. CallsKept BY <2>2, <1>a, <1>c DEF Login, Begins, CallInv
    <3>2. CASE sock BY <2>2, <3>1, <3>2, PairKept DEF Login
    <3>3. CASE ~sock BY <2>2, <3>1, <3>3, PairGone DEF Login, Opened
    <3> QED BY <3>2, <3>3
  <2>3. CASE Command
    <3>1. CallsKept BY <2>3, <1>a, <1>c DEF Command, Begins, CallInv
    <3> QED BY <2>3, <3>1, PairKept DEF Command
  <2>4. CASE Snapshot BY <2>4, <1>b, PairKept DEF Snapshot
  <2>5. CASE StartMonitor BY <2>5, <1>b, PairKept DEF StartMonitor
  <2>6. CASE StopMonitor BY <2>6, <1>b, <1>d DEF StopMonitor
  <2>7. CASE Close BY <2>7, <1>b, PairKept DEF Close
  <2> QED BY <1>4, <2>1, <2>2, <2>3, <2>4, <2>5, <2>6, <2>7 DEF Caller
<1>5. CASE CallGoesOn
  <2>1. CASE SendMsg("api") BY <2>1, <1>3, <1>a
  <2>2. CASE LoginReturns
    <3>1. CallsKept BY <2>2, <1>a, <1>c DEF LoginReturns
    <3> QED BY <2>2, <3>1, PairKept DEF LoginReturns
  <2>3. CASE CommandReturns
    <3>1. CallsKept BY <2>3, <1>a, <1>c DEF CommandReturns
    <3> QED BY <2>3, <3>1, PairKept DEF CommandReturns
  <2>4. CASE SnapshotSends BY <2>4 DEF SnapshotSends, SendsOnly
  <2>5. CASE SnapshotReads BY <2>5, <1>b, PairKept DEF SnapshotReads, Reassembles
  <2>6. CASE SnapshotFails BY <2>6, <1>b, PairKept DEF SnapshotFails
  <2>7. CASE SnapshotReturns BY <2>7, <1>b, PairKept DEF SnapshotReturns
  <2>8. CASE MonitorStarted
    <3>1. CallsKept BY <2>8, <1>a, <1>c DEF MonitorStarted, CallInv
    <3> QED BY <2>8, <3>1, PairKept DEF MonitorStarted
  <2>9. CASE Terminates
    <3>1. RepliesMatch' BY <2>9 DEF Terminates, NoCall, RepliesMatch
    <3> QED BY <2>9, <3>1 DEF Terminates, Closed, PairInv, Quiet
  <2>10. CASE StopMonitorJoins BY <2>10, <1>b, PairKept DEF StopMonitorJoins
  <2>11. CASE CloseJoins BY <2>11, <1>b, <1>d DEF CloseJoins
  <2> QED BY <1>5, <2>1, <2>2, <2>3, <2>4, <2>5, <2>6, <2>7, <2>8, <2>9, <2>10, <2>11
          DEF CallGoesOn
<1>6. CASE KeepaliveLoop
  <2>1. CASE SendMsg("keepalive") BY <2>1, <1>3, <1>a
  <2>2. CASE KeepaliveWakes
    <3>1. CallsKept BY <2>2, <1>a, <1>b, <1>c DEF KeepaliveWakes, CallInv
    <3> QED BY <2>2, <3>1, PairKept DEF KeepaliveWakes
  <2>3. CASE KeepaliveReturns
    <3>1. CallsKept BY <2>3, <1>a, <1>c DEF KeepaliveReturns
    <3>2. CASE UNCHANGED <<sock, network>>
      BY <2>3, <3>1, <3>2, PairKept DEF KeepaliveReturns
    <3>3. CASE Closed
      BY <2>3, <3>1, <3>3, <1>d DEF KeepaliveReturns
    <3> QED BY <2>3, <3>2, <3>3 DEF KeepaliveReturns
  <2> QED BY <1>6, <2>1, <2>2, <2>3 DEF KeepaliveLoop
<1>7. CASE MonitorLoop
  <2>1. CASE SendMsg("monitor") BY <2>1, <1>3, <1>a
  <2>2. CASE MonitorClaimed
    <3>1. CallsKept BY <2>2, <1>a, <1>c DEF MonitorClaimed
    <3> QED BY <2>2, <3>1, PairKept DEF MonitorClaimed
  <2>3. CASE MonitorStarts BY <2>3 DEF MonitorStarts, SendsOnly
  <2>4. CASE MonitorLoops BY <2>4, <1>b, PairKept DEF MonitorLoops
  <2>5. CASE MonitorReads BY <2>5, <1>b, PairKept DEF MonitorReads, Reassembles
  <2>6. CASE MonitorReceiveFails BY <2>6, <1>b, PairKept DEF MonitorReceiveFails
  <2>7. CASE MonitorGivesUp BY <2>7, <1>b, PairKept DEF MonitorGivesUp
  <2>8. CASE MonitorGotNothing BY <2>8, <1>b, PairKept DEF MonitorGotNothing
  <2>9. CASE MonitorCallReturns BY <2>9, <1>b, PairKept DEF MonitorCallReturns
  <2> QED BY <1>7, <2>1, <2>2, <2>3, <2>4, <2>5, <2>6, <2>7, <2>8, <2>9 DEF MonitorLoop
<1> QED BY <1>1, <1>2, <1>4, <1>5, <1>6, <1>7 DEF Next

-----------------------------------------------------------------------------
(* Bounds.                                                                 *)

(* What a step of the library's threads may do to the messages, and which  *)
(* steps do something else.                                                *)
TakesOne  == rx # <<>> /\ rx' = Tail(rx)
LosesAll  == tx' = <<>> /\ rx' = <<>> /\ dvr' = Quiet
Transmitted == \/ tx' = tx
               \/ \E kind \in {"ask", "start", "snap"} :
                    up /\ tx' = Append(tx, [kind |-> kind, num |-> packet_count])

LEMMA ThreadsOnNetwork ==
  ASSUME [Next]_vars, ~Device
  PROVE  /\ frames' = frames
         /\ \/ LosesAll
            \/ dvr' = dvr /\ up' = up /\ Transmitted /\ (rx' = rx \/ TakesOne)
<1> USE DEF LosesAll, Transmitted, TakesOne
<1>1. CASE UNCHANGED vars BY <1>1 DEF vars
<1>2. ASSUME NEW t \in Threads, SendMsg(t)
      PROVE  /\ frames' = frames /\ dvr' = dvr /\ up' = up /\ Transmitted
             /\ rx' = rx \/ TakesOne
  BY <1>2 DEF SendMsg, Sends, Transmits, Receives, ReceiveFails
<1>3. CASE Caller
  <2>1. CASE Connect \/ Login BY <2>1 DEF Connect, Login, Opened
  <2>2. CASE Command \/ Snapshot \/ StartMonitor \/ Close
    BY <2>2 DEF Command, Snapshot, StartMonitor, Close
  <2>3. CASE StopMonitor BY <2>3 DEF StopMonitor, Closed
  <2> QED BY <1>3, <2>1, <2>2, <2>3 DEF Caller
<1>4. CASE CallGoesOn
  <2>1. CASE SendMsg("api") BY <2>1, <1>2 DEF Threads
  <2>2. CASE LoginReturns \/ CommandReturns \/ StopMonitorJoins \/ MonitorStarted
    BY <2>2 DEF LoginReturns, CommandReturns, StopMonitorJoins, MonitorStarted
  <2>3. CASE SnapshotSends BY <2>3 DEF SnapshotSends, SendsOnly, Transmits
  <2>4. CASE SnapshotReads BY <2>4 DEF SnapshotReads, Reassembles
  <2>5. CASE SnapshotFails \/ SnapshotReturns BY <2>5 DEF SnapshotFails, SnapshotReturns
  <2>6. CASE Terminates \/ CloseJoins BY <2>6 DEF Terminates, CloseJoins, Closed
  <2> QED BY <1>4, <2>1, <2>2, <2>3, <2>4, <2>5, <2>6 DEF CallGoesOn
<1>5. CASE KeepaliveLoop
  <2>1. CASE SendMsg("keepalive") BY <2>1, <1>2 DEF Threads
  <2>2. CASE KeepaliveWakes BY <2>2 DEF KeepaliveWakes
  <2>3. CASE KeepaliveReturns BY <2>3 DEF KeepaliveReturns, Closed
  <2> QED BY <1>5, <2>1, <2>2, <2>3 DEF KeepaliveLoop
<1>6. CASE MonitorLoop
  <2>1. CASE SendMsg("monitor") BY <2>1, <1>2 DEF Threads
  <2>2. CASE MonitorClaimed \/ MonitorLoops BY <2>2 DEF MonitorClaimed, MonitorLoops
  <2>3. CASE MonitorStarts BY <2>3 DEF MonitorStarts, SendsOnly, Transmits
  <2>4. CASE MonitorReads BY <2>4 DEF MonitorReads, Reassembles
  <2>5. CASE MonitorReceiveFails \/ MonitorGivesUp
    BY <2>5 DEF MonitorReceiveFails, MonitorGivesUp
  <2>6. CASE MonitorGotNothing \/ MonitorCallReturns
    BY <2>6 DEF MonitorGotNothing, MonitorCallReturns
  <2> QED BY <1>6, <2>1, <2>2, <2>3, <2>4, <2>5, <2>6 DEF MonitorLoop
<1> QED BY <1>1, <1>3, <1>4, <1>5, <1>6 DEF Next

(* What a step does to what a thread has collected: nothing, add a message *)
(* to a frame that is not whole, or drop it.                               *)
LEMMA StepsOnBuf ==
  ASSUME CamTypes, BufInv, [Next]_vars, NEW t \in Threads
  PROVE  \/ buf'[t] = buf[t] \/ buf'[t] = <<>>
         \/ /\ TakesOne /\ ~WholeFrame(buf[t]) /\ buf'[t] = Adds(buf[t], Head(rx))
<1> USE DEF CamTypes, Threads
<1>1. CASE UNCHANGED vars BY <1>1 DEF vars
<1>2. CASE Device
  BY <1>2 DEF Device, DvrAnswers, DvrBeginsFrame, DvrSendsPacket, ConnectionBreaks
<1>3. ASSUME NEW u \in Threads, SendMsg(u) PROVE buf' = buf
  BY <1>3 DEF SendMsg, Sends, Receives, ReceiveFails
<1>4. CASE Caller
  BY <1>4 DEF Caller, Connect, Login, Command, Snapshot, StartMonitor, StopMonitor, Close
<1>5. CASE CallGoesOn
  <2>1. CASE SendMsg("api") BY <2>1, <1>3
  <2>2. CASE LoginReturns \/ CommandReturns \/ SnapshotSends
    BY <2>2 DEF LoginReturns, CommandReturns, SnapshotSends
  <2>3. CASE SnapshotReads BY <2>3 DEF SnapshotReads, Reassembles, TakesOne
  <2>4. CASE SnapshotFails BY <2>4 DEF SnapshotFails, Fails, Discards
  <2>5. CASE SnapshotReturns BY <2>5 DEF SnapshotReturns, GivesUp, Discards
  <2>6. CASE MonitorStarted \/ Terminates \/ StopMonitorJoins \/ CloseJoins
    BY <2>6 DEF MonitorStarted, Terminates, StopMonitorJoins, CloseJoins
  <2> QED BY <1>5, <2>1, <2>2, <2>3, <2>4, <2>5, <2>6 DEF CallGoesOn
<1>6. CASE KeepaliveLoop
  BY <1>3, <1>6 DEF KeepaliveLoop, KeepaliveWakes, KeepaliveReturns
<1>7. CASE MonitorLoop
  <2>1. CASE SendMsg("monitor") BY <2>1, <1>3
  <2>2. CASE MonitorClaimed \/ MonitorStarts \/ MonitorLoops \/ MonitorGotNothing
    BY <2>2 DEF MonitorClaimed, MonitorStarts, MonitorLoops, MonitorGotNothing
  <2>3. CASE MonitorReads BY <2>3 DEF MonitorReads, Reassembles, TakesOne, BufInv
  <2>4. CASE MonitorReceiveFails BY <2>4 DEF MonitorReceiveFails, Fails, Discards
  <2>5. CASE MonitorGivesUp BY <2>5 DEF MonitorGivesUp, GivesUp, Discards
  <2>6. CASE MonitorCallReturns BY <2>6 DEF MonitorCallReturns, Discards
  <2> QED BY <1>7, <2>1, <2>2, <2>3, <2>4, <2>5, <2>6 DEF MonitorLoop
<1> QED BY <1>1, <1>2, <1>4, <1>5, <1>6, <1>7 DEF Next

LEMMA FramesGrow == CamTypes /\ [Next]_vars => frames' \in {frames, frames + 1}
<1> SUFFICES ASSUME CamTypes, [Next]_vars PROVE frames' \in {frames, frames + 1} OBVIOUS
<1>1. CASE Device
  BY <1>1 DEF Device, DvrAnswers, DvrBeginsFrame, DvrSendsPacket, ConnectionBreaks
<1> QED BY <1>1, ThreadsOnNetwork

LEMMA WithinLater ==
  ASSUME NEW m, NEW n \in Nat, NEW k \in {n, n + 1}, WithinFrame(m, n) PROVE WithinFrame(m, k)
BY DEF WithinFrame

LEMMA DvrBoundsStep == CamTypes /\ DvrBounds /\ [Next]_vars => DvrBounds'
<1> SUFFICES ASSUME CamTypes, DvrBounds, [Next]_vars PROVE DvrBounds' OBVIOUS
<1> USE DEF DvrBounds
<1>1. CASE ~Device BY <1>1, ThreadsOnNetwork DEF LosesAll, Quiet
<1>2. CASE DvrAnswers BY <1>2 DEF DvrAnswers
<1>3. CASE DvrBeginsFrame
  <2> PICK n \in 1 .. MaxParts :
             /\ dvr'.frame = frames + 1 /\ dvr'.next = 1 /\ dvr'.parts = n
    BY <1>3 DEF DvrBeginsFrame
  <2> QED BY <1>3, DvripBoundsAssumption DEF DvrBeginsFrame
<1>4. CASE DvrSendsPacket
  <2>1. CASE dvr.next = dvr.parts BY <1>4, <2>1 DEF DvrSendsPacket, Quiet
  <2>2. CASE dvr.next # dvr.parts
    <3>1. dvr' = [dvr EXCEPT !.next = @ + 1] /\ frames' = frames BY <1>4, <2>2 DEF DvrSendsPacket
    <3>2. dvr'.frame = dvr.frame /\ dvr'.next = dvr.next + 1 /\ dvr'.parts = dvr.parts
      BY <3>1 DEF CamTypes
    <3>3. dvr.next \in 1 .. dvr.parts /\ dvr.parts \in Nat BY <1>4 DEF DvrSendsPacket, CamTypes
    <3> QED BY <3>1, <3>2, <3>3, <2>2
  <2> QED BY <2>1, <2>2
<1>5. CASE ConnectionBreaks BY <1>5 DEF ConnectionBreaks, Quiet
<1> QED BY <1>1, <1>2, <1>3, <1>4, <1>5 DEF Device

LEMMA RxBoundsStep == CamTypes /\ DvrBounds /\ RxBounds /\ [Next]_vars => RxBounds'
<1> SUFFICES ASSUME CamTypes, DvrBounds, RxBounds, [Next]_vars PROVE RxBounds' OBVIOUS
<1>a. rx \in Seq(Messages) /\ frames \in Nat /\ Len(rx) \in Nat BY LenProperties DEF CamTypes
<1>1. CASE ~Device
  <2>1. frames' = frames BY <1>1, ThreadsOnNetwork
  <2>2. CASE TakesOne
    <3>1. Len(rx') = Len(rx) - 1 /\ \A i \in 1 .. Len(rx) - 1 : rx'[i] = rx[i + 1]
      BY <2>2, <1>a, Taken DEF TakesOne
    <3> QED BY <2>1, <3>1, <1>a DEF RxBounds
  <2> QED BY <1>1, <2>1, <2>2, ThreadsOnNetwork DEF RxBounds, LosesAll
<1>2. CASE DvrBeginsFrame \/ ConnectionBreaks
  <2>1. rx' = rx /\ frames' \in {frames, frames + 1}
    BY <1>2, FramesGrow DEF DvrBeginsFrame, ConnectionBreaks
  <2> QED BY <2>1, <1>a, WithinLater DEF RxBounds
<1>3. ASSUME NEW m \in Messages, rx' = Append(rx, m), frames' = frames,
             m.kind = "packet" => WithinFrame(m, frames)
      PROVE  RxBounds'
  BY <1>3, <1>a, Added DEF RxBounds
<1>4. CASE DvrAnswers
  <2>1. Head(tx).num \in Nat
    <3>1. Head(tx) \in Requests BY <1>4, Taken DEF DvrAnswers, CamTypes
    <3> QED BY <3>1, RequestTypes
  <2>2. /\ Message("reply", Head(tx).num, 1, 1) \in Messages
        /\ Message("reply", Head(tx).num, 1, 1).kind = "reply"
    BY <2>1 DEF Message, Messages
  <2> QED BY <1>3, <1>4, <2>2 DEF DvrAnswers
<1>5. CASE DvrSendsPacket
  <2>1. dvr.frame \in Nat /\ dvr.next \in Nat /\ dvr.parts \in Nat BY DEF CamTypes
  <2> DEFINE m == Message("packet", dvr.frame, dvr.next, dvr.parts)
  <2>2. m \in Messages BY <2>1 DEF Message, Messages
  <2>3. WithinFrame(m, frames)
    BY <1>5, <1>a, <2>1 DEF WithinFrame, DvrSendsPacket, DvrBounds, Message
  <2> HIDE DEF m
  <2>4. rx' = Append(rx, m) /\ frames' = frames BY <1>5 DEF DvrSendsPacket, m
  <2> QED BY <1>3, <2>2, <2>3, <2>4
<1> QED BY <1>1, <1>2, <1>4, <1>5 DEF Device

LEMMA BufBoundsStep == CamTypes /\ BufInv /\ RxBounds /\ BufBounds /\ [Next]_vars => BufBounds'
<1> SUFFICES ASSUME CamTypes, BufInv, RxBounds, BufBounds, [Next]_vars, NEW t \in Threads
             PROVE  Collected(buf[t], frames)'
  BY DEF BufBounds
<1>a. /\ frames \in Nat /\ rx \in Seq(Messages) /\ buf[t] \in Seq(Messages)
      /\ Collected(buf[t], frames)
  BY DEF CamTypes, BufBounds
<1>b. frames' \in {frames, frames + 1} BY FramesGrow
<1>c. Len(buf[t]) \in Nat BY <1>a, LenProperties
<1>1. CASE buf'[t] = buf[t]
  BY <1>1, <1>a, <1>b, WithinLater DEF Collected
<1>2. CASE buf'[t] = <<>> BY <1>2 DEF Collected
<1>3. CASE TakesOne /\ ~WholeFrame(buf[t]) /\ buf'[t] = Adds(buf[t], Head(rx))
  <2>1. Head(rx) = rx[1] /\ rx[1] \in Messages /\ Len(rx) \in Nat /\ Len(rx) > 0
    BY <1>3, <1>a, Taken DEF TakesOne
  <2>2. CASE buf[t] # <<>>
    <3>1. /\ Len(buf'[t]) = Len(buf[t]) + 1 /\ buf'[t][1] = buf[t][1]
      BY <1>3, <1>a, <2>1, <2>2, Added, Taken DEF Adds
    <3>2. Len(buf[t]) # buf[t][1].parts BY <1>3, <2>2 DEF WholeFrame
    <3>3. WithinFrame(buf[t][1], frames') BY <2>2, <1>a, <1>b, WithinLater DEF Collected
    <3> QED BY <2>2, <3>1, <3>2, <3>3, <1>a, <1>c DEF Collected, WithinFrame
  <2>3. CASE buf[t] = <<>> /\ rx[1].kind = "packet" /\ rx[1].part = 1
    <3>1. buf'[t] = <<rx[1]>> BY <1>3, <2>1, <2>3 DEF Adds
    <3>2. WithinFrame(rx[1], frames) BY <2>1, <2>3 DEF RxBounds
    <3>3. WithinFrame(rx[1], frames') BY <3>2, <1>a, <1>b, WithinLater
    <3>4. Len(buf'[t]) = 1 /\ buf'[t][1] = rx[1] BY <3>1
    <3>5. 1 <= rx[1].parts BY <3>2, <2>3, DvripBoundsAssumption DEF WithinFrame
    <3> QED BY <2>3, <3>3, <3>4, <3>5 DEF Collected
  <2>4. CASE buf[t] = <<>> /\ ~(rx[1].kind = "packet" /\ rx[1].part = 1)
    BY <1>3, <2>1, <2>4 DEF Adds, Collected
  <2> QED BY <2>2, <2>3, <2>4
<1> QED BY <1>1, <1>2, <1>3, StepsOnBuf

(* A call's number is older than the next one's, and what is delivered has *)
(* been begun.                                                             *)
LEMMA CountsOnCalls ==
  ASSUME CamTypes, CountBounds, [Next]_vars
  PROVE  /\ connects' \in {connects, connects + 1} /\ connects' <= MaxConnects
         /\ packet_count' \in {packet_count, packet_count + 1}
         /\ \A t \in Threads : \/ call'[t].req \in {0, call[t].req}
                               \/ call'[t].req = packet_count /\ packet_count' = packet_count + 1
         /\ delivered' = delivered \/ MonitorCallReturns
<1> USE DEF CountBounds
<1>a. /\ \A t \in Threads : t \in {"api", "keepalive", "monitor"}
      /\ \A t \in Threads : t \in DOMAIN call /\ DOMAIN call[t] = {"state", "req", "result"}
  BY DEF Threads, CamTypes, Calls
<1>b. ASSUME NEW t \in Threads, Asks(t) \/ Done(t), NEW u \in Threads
      PROVE  call'[u].req \in {0, call[u].req}
  <2>1. NoCall.req = 0 /\ [NoCall EXCEPT !.state = "lock"].req = 0 BY DEF NoCall
  <2>2. CASE u = t BY <1>b, <2>1, <2>2 DEF Asks, Done, CamTypes
  <2>3. CASE u # t BY <1>b, <2>3 DEF Asks, Done, CamTypes
  <2> QED BY <2>2, <2>3
<1>1. CASE UNCHANGED vars BY <1>1 DEF vars
<1>2. CASE Device
  BY <1>2 DEF Device, DvrAnswers, DvrBeginsFrame, DvrSendsPacket, ConnectionBreaks
<1>3. ASSUME NEW t \in Threads, SendMsg(t)
      PROVE  /\ connects' = connects /\ delivered' = delivered
             /\ packet_count' \in {packet_count, packet_count + 1}
             /\ \A u \in Threads :
                  \/ call'[u].req \in {0, call[u].req}
                  \/ call'[u].req = packet_count /\ packet_count' = packet_count + 1
  <2>1. CASE Sends(t)
    <3>1. \/ call' = [call EXCEPT ![t].state = "wait", ![t].req = packet_count]
          \/ Answered(t, Ret101)
      BY <2>1 DEF Sends
    <3>2. \A u \in Threads \ {t} : call'[u] = call[u] BY <3>1 DEF Answered, CamTypes
    <3>3. call'[t].req \in {call[t].req, packet_count}
      <4>1. CASE Answered(t, Ret101) BY <1>a, <4>1 DEF Answered, CamTypes
      <4>2. CASE call' = [call EXCEPT ![t].state = "wait", ![t].req = packet_count]
        BY <1>a, <4>2 DEF CamTypes
      <4> QED BY <3>1, <4>1, <4>2
    <3> QED BY <2>1, <3>2, <3>3 DEF Sends
  <2>2. CASE Receives(t) BY <1>a, <2>2 DEF Receives, Answered, CamTypes
  <2>3. CASE ReceiveFails(t) BY <1>a, <2>3 DEF ReceiveFails, Answered, CamTypes
  <2> QED BY <1>3, <2>1, <2>2, <2>3 DEF SendMsg
<1>4. CASE Caller
  <2>1. CASE Connect BY <2>1, DvripBoundsAssumption DEF Connect, Opened, CamTypes
  <2>2. CASE Login
    <3>1. connects' = connects \/ Opened BY <2>2 DEF Login
    <3>2. Opened => connects < MaxConnects /\ connects' = connects + 1 BY DEF Opened
    <3>3. connects' \in {connects, connects + 1} /\ connects' <= MaxConnects
      BY <3>1, <3>2, DvripBoundsAssumption DEF CamTypes
    <3> QED BY <2>2, <3>3, <1>b DEF Login, Threads
  <2>3. CASE Command BY <2>3, <1>b DEF Command, Threads
  <2>4. CASE Snapshot \/ StartMonitor \/ StopMonitor \/ Close
    BY <2>4 DEF Snapshot, StartMonitor, StopMonitor, Close
  <2> QED BY <1>4, <2>1, <2>2, <2>3, <2>4 DEF Caller
<1>5. CASE CallGoesOn
  <2>1. CASE SendMsg("api") BY <2>1, <1>3 DEF Threads
  <2>2. CASE LoginReturns BY <2>2, <1>b DEF LoginReturns, Threads
  <2>3. CASE CommandReturns BY <2>3, <1>b DEF CommandReturns, Threads
  <2>4. CASE SnapshotSends BY <2>4 DEF SnapshotSends, SendsOnly
  <2>5. CASE SnapshotReads \/ SnapshotFails \/ SnapshotReturns
    BY <2>5 DEF SnapshotReads, SnapshotFails, SnapshotReturns
  <2>6. CASE MonitorStarted BY <2>6, <1>b DEF MonitorStarted, Threads
  <2>7. CASE Terminates BY <2>7 DEF Terminates, NoCall
  <2>8. CASE StopMonitorJoins \/ CloseJoins BY <2>8 DEF StopMonitorJoins, CloseJoins
  <2> QED BY <1>5, <2>1, <2>2, <2>3, <2>4, <2>5, <2>6, <2>7, <2>8 DEF CallGoesOn
<1>6. CASE KeepaliveLoop
  <2>1. CASE SendMsg("keepalive") BY <2>1, <1>3 DEF Threads
  <2>2. CASE KeepaliveWakes BY <2>2, <1>b DEF KeepaliveWakes, Threads
  <2>3. CASE KeepaliveReturns BY <2>3, <1>b DEF KeepaliveReturns, Threads
  <2> QED BY <1>6, <2>1, <2>2, <2>3 DEF KeepaliveLoop
<1>7. CASE MonitorLoop
  <2>1. CASE SendMsg("monitor") BY <2>1, <1>3 DEF Threads
  <2>2. CASE MonitorClaimed BY <2>2, <1>b DEF MonitorClaimed, Threads
  <2>3. CASE MonitorStarts BY <2>3 DEF MonitorStarts, SendsOnly
  <2>4. CASE MonitorLoops \/ MonitorReads BY <2>4 DEF MonitorLoops, MonitorReads
  <2>5. CASE MonitorReceiveFails \/ MonitorGivesUp
    BY <2>5 DEF MonitorReceiveFails, MonitorGivesUp
  <2>6. CASE MonitorGotNothing BY <2>6 DEF MonitorGotNothing
  <2>7. CASE MonitorCallReturns BY <2>7 DEF MonitorCallReturns
  <2> QED BY <1>7, <2>1, <2>2, <2>3, <2>4, <2>5, <2>6, <2>7 DEF MonitorLoop
<1> QED BY <1>1, <1>2, <1>4, <1>5, <1>6, <1>7 DEF Next

LEMMA CountBoundsStep ==
  CamTypes /\ BufInv /\ BufBounds /\ CountBounds /\ [Next]_vars => CountBounds'
<1> SUFFICES ASSUME CamTypes, BufInv, BufBounds, CountBounds, [Next]_vars PROVE CountBounds'
  OBVIOUS
<1>1. delivered' <= frames'
  <2>1. /\ frames' \in {frames, frames + 1} /\ frames \in Nat /\ delivered \in Nat
        /\ delivered <= frames
    BY FramesGrow DEF CamTypes, CountBounds
  <2>2. CASE MonitorCallReturns
    <3>1. buf["monitor"] # <<>> /\ Collected(buf["monitor"], frames)
      BY <2>2 DEF MonitorCallReturns, BufInv, WholeFrame, BufBounds, Threads
    <3>2. delivered' = buf["monitor"][1].num BY <2>2 DEF MonitorCallReturns
    <3> QED BY <2>1, <3>1, <3>2 DEF Collected, WithinFrame
  <2> QED BY <2>1, <2>2, CountsOnCalls
<1>2. \A t \in Threads : call[t].req \in Nat /\ call[t].req <= packet_count
  BY DEF CamTypes, Calls, CountBounds
<1>3. packet_count \in Nat BY DEF CamTypes
<1>4. \A t \in Threads : call'[t].req <= packet_count' BY <1>2, <1>3, CountsOnCalls
<1> QED BY <1>1, <1>4, CountsOnCalls DEF CountBounds

LEMMA TimesGrows ==
  ASSUME NEW k \in Nat, NEW m \in Nat, NEW n \in Nat, m <= n
  PROVE  k * m <= k * n /\ k * m \in Nat /\ k * n \in Nat
BY Z3

LEMMA FramesPerConnectStep ==
  CamTypes /\ CountBounds /\ FramesPerConnect /\ [Next]_vars => FramesPerConnect'
<1> SUFFICES ASSUME CamTypes, CountBounds, FramesPerConnect, [Next]_vars
             PROVE  FramesPerConnect'
  OBVIOUS
<1>1. /\ connects \in Nat /\ connects' \in Nat /\ connects <= connects' /\ frames \in Nat
      /\ MaxFrames \in Nat
  BY CountsOnCalls, DvripBoundsAssumption DEF CamTypes
<1> DEFINE before == MaxFrames * connects
           after  == MaxFrames * connects'
<1>2. before <= after /\ before \in Nat /\ after \in Nat BY <1>1, TimesGrows
<1>3. frames' = frames \/ (frames' = frames + 1 /\ frames < before)
  BY ThreadsOnNetwork
  DEF Device, DvrAnswers, DvrBeginsFrame, DvrSendsPacket, ConnectionBreaks
<1>4. frames <= before BY DEF FramesPerConnect
<1>5. frames' <= after
  <2> HIDE DEF before, after
  <2> QED BY <1>1, <1>2, <1>3, <1>4
<1> QED BY <1>5 DEF FramesPerConnect

-----------------------------------------------------------------------------
(* Frames.                                                                 *)

(* Of the requests of the library, those that are answered are sent before *)
(* the monitor streams, and starts by the monitor that streams from then.  *)
LEMMA RequestsOnThreads ==
  ASSUME CallInv, AloneInv, [Next]_vars, ~Device, alone', alone,
         monitor # "ended", monitor' # "ended"
  PROVE  \/ LosesAll
         \/ /\ monitor \in Streaming => monitor' \in Streaming
            /\ \/ tx' = tx
               \/ \E kind \in {"ask", "start", "snap"} :
                    /\ tx' = Append(tx, [kind |-> kind, num |-> packet_count])
                    /\ kind = "ask" => monitor \notin Streaming
                    /\ kind = "start" => monitor' \in Streaming
<1> USE DEF Streaming
<1>1. CASE UNCHANGED vars BY <1>1 DEF vars
<1>2. ASSUME NEW t \in Threads, SendMsg(t)
      PROVE  /\ monitor' = monitor
             /\ tx' = tx \/ /\ tx' = Append(tx, [kind |-> "ask", num |-> packet_count])
                            /\ monitor \notin Streaming
  <2>1. call[t].state # "none" BY <1>2 DEF SendMsg, Sends, Receives, ReceiveFails
  <2>2. monitor \notin Streaming BY <2>1 DEF CallInv, AloneInv, Threads, Ended
  <2> QED BY <1>2, <2>2 DEF SendMsg, Sends, Transmits, Receives, ReceiveFails
<1>3. CASE Caller
  <2>1. CASE Connect \/ Login BY <2>1 DEF Connect, Login, Begins, Opened, LosesAll
  <2>2. CASE Command \/ Snapshot \/ StartMonitor \/ Close
    BY <2>2 DEF Command, Snapshot, Begins, StartMonitor, Close
  <2>3. CASE StopMonitor BY <2>3 DEF StopMonitor, Closed, LosesAll
  <2> QED BY <1>3, <2>1, <2>2, <2>3 DEF Caller
<1>4. CASE CallGoesOn
  <2>1. CASE SendMsg("api") BY <2>1, <1>2 DEF Threads
  <2>2. CASE LoginReturns \/ CommandReturns BY <2>2 DEF LoginReturns, CommandReturns
  <2>3. CASE MonitorStarted \/ StopMonitorJoins
    BY <2>3 DEF MonitorStarted, StopMonitorJoins, Ended
  <2>4. CASE SnapshotSends BY <2>4 DEF SnapshotSends, SendsOnly, Transmits
  <2>5. CASE SnapshotReads BY <2>5 DEF SnapshotReads
  <2>6. CASE SnapshotFails \/ SnapshotReturns BY <2>6 DEF SnapshotFails, SnapshotReturns
  <2>7. CASE Terminates \/ CloseJoins BY <2>7 DEF Terminates, CloseJoins, Closed, LosesAll
  <2> QED BY <1>4, <2>1, <2>2, <2>3, <2>4, <2>5, <2>6, <2>7 DEF CallGoesOn
<1>5. CASE KeepaliveLoop
  <2>1. CASE SendMsg("keepalive") BY <2>1, <1>2 DEF Threads
  <2>2. CASE KeepaliveWakes BY <2>2 DEF KeepaliveWakes
  <2>3. CASE KeepaliveReturns BY <2>3 DEF KeepaliveReturns, Closed, LosesAll
  <2> QED BY <1>5, <2>1, <2>2, <2>3 DEF KeepaliveLoop
<1>6. CASE MonitorLoop
  <2> USE DEF MonitorEnds
  <2>1. CASE SendMsg("monitor") BY <2>1, <1>2 DEF Threads
  <2>2. CASE MonitorClaimed \/ MonitorLoops BY <2>2 DEF MonitorClaimed, MonitorLoops
  <2>3. CASE MonitorStarts BY <2>3 DEF MonitorStarts, SendsOnly, Transmits
  <2>4. CASE MonitorReads BY <2>4 DEF MonitorReads
  <2>5. CASE MonitorReceiveFails \/ MonitorGivesUp
    BY <2>5 DEF MonitorReceiveFails, MonitorGivesUp
  <2>6. CASE MonitorGotNothing \/ MonitorCallReturns
    BY <2>6 DEF MonitorGotNothing, MonitorCallReturns
  <2> QED BY <1>6, <2>1, <2>2, <2>3, <2>4, <2>5, <2>6 DEF MonitorLoop
<1> QED BY <1>1, <1>3, <1>4, <1>5, <1>6 DEF Next

(* Who does what while the monitor is in a frame.                          *)
LEMMA PartsOnThreads ==
  ASSUME CamTypes, CallInv, BufInv, AloneInv, [Next]_vars, ~Device, alone', alone,
         buf["monitor"] # <<>>, buf'["monitor"] # <<>>
  PROVE  \/ MonitorReads
         \/ /\ buf'["monitor"] = buf["monitor"] /\ delivered' = delivered
            /\ \/ rx' = rx /\ dvr' = dvr /\ up' = up
               \/ LosesAll /\ ~up'
<1>a. /\ monitor \in {"receives", "calls"} /\ api \in {"idle", "joinsMonitor", "closes"}
      /\ keepalive = "none"
  BY DEF BufInv, AloneInv, Ended
<1>b. "monitor" \in Threads BY DEF Threads
<1>c. ~Discards("monitor") BY <1>b DEF Discards, CamTypes
<1>1. CASE UNCHANGED vars BY <1>1 DEF vars
<1>2. ASSUME NEW t \in Threads, SendMsg(t) PROVE FALSE
  <2>1. call[t].state # "none" BY <1>2 DEF SendMsg, Sends, Receives, ReceiveFails
  <2> QED BY <1>a, <2>1 DEF CallInv, Threads
<1>3. CASE Caller
  <2>1. CASE Connect \/ Login \/ Command \/ Snapshot
    BY <1>a, <2>1 DEF Connect, Login, Command, Snapshot, Begins, Ended
  <2>2. CASE StartMonitor \/ Close BY <2>2 DEF StartMonitor, Close
  <2>3. CASE StopMonitor BY <2>3 DEF StopMonitor, Closed, LosesAll
  <2> QED BY <1>3, <2>1, <2>2, <2>3 DEF Caller
<1>4. CASE CallGoesOn
  <2>1. CASE SendMsg("api") BY <2>1, <1>2 DEF Threads
  <2>2. CASE CloseJoins BY <2>2 DEF CloseJoins, Closed, LosesAll
  <2>3. CASE StopMonitorJoins BY <2>3 DEF StopMonitorJoins
  <2>4. CASE LoginReturns \/ CommandReturns \/ MonitorStarted \/ Terminates
    BY <1>a, <2>4 DEF LoginReturns, CommandReturns, MonitorStarted, Terminates
  <2>5. CASE SnapshotSends \/ SnapshotReads \/ SnapshotFails \/ SnapshotReturns
    BY <1>a, <2>5 DEF SnapshotSends, SnapshotReads, SnapshotFails, SnapshotReturns
  <2> QED BY <1>4, <2>1, <2>2, <2>3, <2>4, <2>5 DEF CallGoesOn
<1>5. CASE KeepaliveLoop
  BY <1>a, <1>2, <1>5 DEF KeepaliveLoop, KeepaliveWakes, KeepaliveReturns, Threads
<1>6. CASE MonitorLoop
  <2>1. CASE SendMsg("monitor") BY <2>1, <1>2, <1>b
  <2>2. CASE MonitorReceiveFails \/ MonitorGivesUp \/ MonitorCallReturns
    BY <1>c, <2>2 DEF MonitorReceiveFails, Fails, MonitorGivesUp, GivesUp, MonitorCallReturns
  <2>3. CASE MonitorClaimed \/ MonitorStarts \/ MonitorLoops \/ MonitorGotNothing
    BY <1>a, <2>3 DEF MonitorClaimed, MonitorStarts, MonitorLoops, MonitorGotNothing
  <2> QED BY <1>6, <2>1, <2>2, <2>3 DEF MonitorLoop
<1> QED BY <1>1, <1>3, <1>4, <1>5, <1>6 DEF Next

LEMMA RequestStep ==
  ASSUME CamTypes, CallInv, AloneInv, RequestInv, [Next]_vars, alone', alone,
         monitor # "ended", monitor' # "ended"
  PROVE  RequestInv'
<1>a. tx \in Seq(Requests) /\ Len(tx) \in Nat BY LenProperties DEF CamTypes
<1>b. tx # <<>> =>
        /\ Head(tx) = tx[1] /\ Len(tx) > 0 /\ Len(Tail(tx)) = Len(tx) - 1
        /\ \A i \in 1 .. Len(tx) - 1 : Tail(tx)[i] = tx[i + 1]
  BY <1>a, Taken
<1>1. CASE LosesAll BY <1>1 DEF LosesAll, RequestInv, Quiet
<1>2. CASE ~Device /\ ~LosesAll
  <2>1. /\ monitor \in Streaming => monitor' \in Streaming
        /\ dvr' = dvr
    BY <1>2, RequestsOnThreads, ThreadsOnNetwork
  <2>2. CASE tx' = tx BY <2>1, <2>2 DEF RequestInv
  <2>3. ASSUME NEW kind \in {"ask", "start", "snap"},
               tx' = Append(tx, [kind |-> kind, num |-> packet_count]),
               kind = "ask" => monitor \notin Streaming,
               kind = "start" => monitor' \in Streaming
        PROVE  RequestInv'
    <3>1. [kind |-> kind, num |-> packet_count] \in Requests BY DEF Requests, CamTypes
    <3>2. /\ Len(tx') = Len(tx) + 1 /\ tx'[Len(tx) + 1].kind = kind
          /\ \A i \in 1 .. Len(tx) : tx'[i] = tx[i]
      BY <3>1, <2>3, <1>a, Added
    <3>3. /\ dvr'.live => monitor' \in Streaming /\ kind # "ask"
          /\ \A i \in 1 .. Len(tx) : tx[i].kind = "start" => kind # "ask"
      BY <2>1, <2>3 DEF RequestInv
    <3> QED BY <2>1, <2>3, <3>2, <3>3, <1>a DEF RequestInv
  <2> QED BY <1>2, <2>2, <2>3, RequestsOnThreads
<1>3. CASE Device
  <2>1. monitor' = monitor
    BY <1>3 DEF Device, DvrAnswers, DvrBeginsFrame, DvrSendsPacket, ConnectionBreaks
  <2>2. CASE DvrAnswers
    <3>1. dvr' = dvr /\ tx' = Tail(tx) /\ tx # <<>> BY <2>2 DEF DvrAnswers
    <3> QED BY <2>1, <3>1, <1>a, <1>b DEF RequestInv
  <2>3. CASE DvrBeginsFrame
    <3>1. CASE tx' = tx
      <4>1. dvr'.live = dvr.live BY <2>3, <3>1 DEF DvrBeginsFrame, CamTypes
      <4> QED BY <2>1, <3>1, <4>1 DEF RequestInv
    <3>2. CASE tx # <<>> /\ tx' = Tail(tx)
      <4>1. dvr'.live = (dvr.live \/ (tx' # tx /\ Head(tx).kind = "start"))
        BY <2>3 DEF DvrBeginsFrame
      <4>2. dvr'.live => dvr.live \/ tx[1].kind = "start" BY <3>2, <4>1, <1>b
      <4> QED BY <2>1, <3>2, <4>2, <1>a, <1>b DEF RequestInv
    <3> QED BY <2>3, <3>1, <3>2 DEF DvrBeginsFrame
  <2>4. CASE DvrSendsPacket
    <3>1. dvr'.live = dvr.live /\ tx' = tx BY <2>4 DEF DvrSendsPacket, Quiet, CamTypes
    <3> QED BY <2>1, <3>1 DEF RequestInv
  <2>5. CASE ConnectionBreaks BY <2>5 DEF ConnectionBreaks, RequestInv, Quiet
  <2> QED BY <1>3, <2>2, <2>3, <2>4, <2>5 DEF Device
<1> QED BY <1>1, <1>2, <1>3

(* What the DVR adds to what is to be received follows it.                 *)
LEMMA LineExtends ==
  ASSUME CamTypes, LineInv, NEW m \in Messages, rx' = Append(rx, m),
         frames' = frames, delivered' = delivered,
         rx # <<>> => Follows(rx[Len(rx)], m),
         SentLast(m, dvr'), Newer(m, delivered),
         \A i \in 1 .. Len(rx) : rx[i].kind = "packet" => Newer(m, rx[i].num),
         ~(dvr'.frame # 0 /\ dvr'.next = 1)
  PROVE  LineInv'
<1>a. /\ rx \in Seq(Messages) /\ Len(rx) \in Nat /\ (rx # <<>> => Len(rx) > 0)
      /\ rx' # <<>> /\ Len(rx') = Len(rx) + 1 /\ rx'[Len(rx) + 1] = m
      /\ \A i \in 1 .. Len(rx) : rx'[i] = rx[i]
  BY Added, Taken DEF CamTypes
<1>1. \A i \in 1 .. Len(rx') - 1 : Follows(rx'[i], rx'[i + 1])
  <2> SUFFICES ASSUME NEW i \in 1 .. Len(rx') - 1 PROVE Follows(rx'[i], rx'[i + 1])
    OBVIOUS
  <2>1. CASE i < Len(rx) BY <2>1, <1>a DEF LineInv
  <2>2. CASE i = Len(rx)
    <3>1. rx # <<>> BY <2>2, <1>a
    <3> QED BY <2>2, <3>1, <1>a
  <2> QED BY <2>1, <2>2, <1>a
<1>2. \A i \in 1 .. Len(rx') :
        /\ Newer(rx'[i], delivered')
        /\ \A j \in 1 .. Len(rx') : i < j /\ rx'[i].kind = "packet" => Newer(rx'[j], rx'[i].num)
  <2> SUFFICES ASSUME NEW i \in 1 .. Len(rx')
               PROVE  /\ Newer(rx'[i], delivered')
                      /\ \A j \in 1 .. Len(rx') : i < j /\ rx'[i].kind = "packet" => Newer(rx'[j], rx'[i].num)
    OBVIOUS
  <2>1. Newer(rx'[i], delivered')
    BY <1>a DEF LineInv
  <2>2. ASSUME NEW j \in 1 .. Len(rx'), i < j, rx'[i].kind = "packet" PROVE Newer(rx'[j], rx'[i].num)
    <3>1. i \in 1 .. Len(rx) /\ rx'[i] = rx[i] BY <2>2, <1>a
    <3>2. CASE j = Len(rx) + 1 BY <2>2, <3>1, <3>2, <1>a
    <3>3. CASE j # Len(rx) + 1
      <4>1. j \in 1 .. Len(rx) /\ rx'[j] = rx[j] BY <3>3, <1>a
      <4> QED BY <2>2, <3>1, <4>1 DEF LineInv
    <3> QED BY <3>2, <3>3
  <2> QED BY <2>1, <2>2
<1>3. SentLast(rx'[Len(rx')], dvr') BY <1>a
<1> QED BY <1>1, <1>2, <1>3 DEF LineInv

(* The packet that the DVR sends is the next of its frame.                 *)
LEMMA NextPacket ==
  ASSUME CamTypes, CamBounds, DvrSendsPacket
  PROVE  \E m \in Messages :
           /\ m = Message("packet", dvr.frame, dvr.next, dvr.parts)
           /\ m.kind = "packet" /\ m.num = frames /\ m.part = dvr.next /\ m.parts = dvr.parts
           /\ rx' = Append(rx, m) /\ frames' = frames /\ SentLast(m, dvr')
           /\ ~(dvr'.frame # 0 /\ dvr'.next = 1) /\ dvr.next \in 1 .. dvr.parts
           /\ \A z : SentLast(z, dvr) => Follows(z, m)
<1> DEFINE m == Message("packet", dvr.frame, dvr.next, dvr.parts)
<1>1. /\ dvr.frame \in Nat /\ dvr.next \in Nat /\ dvr.parts \in Nat /\ dvr.frame = frames
      /\ dvr.frame # 0 /\ dvr.next \in 1 .. dvr.parts
  BY DEF CamTypes, CamBounds, DvrBounds, DvrSendsPacket
<1>2. /\ m \in Messages
      /\ m.kind = "packet" /\ m.num = frames /\ m.part = dvr.next /\ m.parts = dvr.parts
  BY <1>1 DEF Message, Messages
<1>3. SentLast(m, dvr') /\ ~(dvr'.frame # 0 /\ dvr'.next = 1)
  <2>1. CASE dvr.next = dvr.parts
    BY <1>1, <1>2, <2>1 DEF DvrSendsPacket, Quiet, SentLast, Unfinished
  <2>2. CASE dvr.next # dvr.parts
    <3>1. dvr'.frame = dvr.frame /\ dvr'.next = dvr.next + 1 /\ dvr'.parts = dvr.parts
      BY <2>2 DEF DvrSendsPacket, CamTypes
    <3>2. dvr'.next - 1 = dvr.next /\ dvr'.next > 1 BY <1>1, <3>1
    <3> QED BY <1>1, <3>1, <3>2 DEF SentLast
  <2> QED BY <2>1, <2>2
<1>4. ASSUME NEW z, SentLast(z, dvr) PROVE Follows(z, m)
  <2>1. CASE dvr.next > 1
    <3>1. z = Message("packet", dvr.frame, dvr.next - 1, dvr.parts)
      BY <1>1, <1>4, <2>1 DEF SentLast
    <3>2. Unfinished(z) /\ z.num = dvr.frame /\ z.part + 1 = dvr.next /\ z.parts = dvr.parts
      BY <1>1, <3>1, <2>1 DEF Message, Unfinished
    <3> QED BY <3>2 DEF Follows
  <2>2. CASE dvr.next = 1 BY <1>2, <1>4, <2>2 DEF SentLast, Follows
  <2> QED BY <1>1, <2>1, <2>2
<1>5. rx' = Append(rx, m) /\ frames' = frames BY DEF DvrSendsPacket
<1> HIDE DEF m
<1>6. m = Message("packet", dvr.frame, dvr.next, dvr.parts) BY DEF m
<1> QED BY <1>1, <1>2, <1>3, <1>4, <1>5, <1>6

(* No answer comes while a frame is sent.                                  *)
LEMMA NextAnswer ==
  ASSUME CamTypes, RequestInv, DvrAnswers
  PROVE  \E m \in Messages :
           /\ m.kind = "reply" /\ rx' = Append(rx, m) /\ frames' = frames /\ dvr' = dvr
           /\ dvr.frame = 0 /\ SentLast(m, dvr)
           /\ \A z : SentLast(z, dvr) => ~Unfinished(z) /\ Follows(z, m)
<1> DEFINE m == Message("reply", Head(tx).num, 1, 1)
<1>1. Head(tx) = tx[1] /\ tx[1] \in Requests /\ Len(tx) \in Nat /\ Len(tx) > 0
  BY Taken DEF DvrAnswers, CamTypes
<1>2. m \in Messages /\ m.kind = "reply"
  <2>1. Head(tx).num \in Nat BY <1>1, RequestTypes
  <2> QED BY <2>1 DEF Message, Messages
<1>3. dvr.frame = 0
  <2>1. tx[1].kind = "ask" BY <1>1 DEF DvrAnswers
  <2>2. ~dvr.live BY <1>1, <2>1 DEF RequestInv
  <2> QED BY <2>2 DEF DvrAnswers
<1>4. rx' = Append(rx, m) /\ frames' = frames /\ dvr' = dvr BY DEF DvrAnswers
<1> HIDE DEF m
<1> QED BY <1>2, <1>3, <1>4 DEF SentLast, Unfinished, Follows

LEMMA LineStep ==
  ASSUME CamTypes, CamBounds, BufInv, RequestInv, LineInv, PartInv, [Next]_vars
  PROVE  LineInv'
<1>a. /\ rx \in Seq(Messages) /\ Len(rx) \in Nat /\ (rx # <<>> => Len(rx) > 0)
      /\ frames \in Nat /\ delivered \in Nat /\ delivered <= frames
  BY LenProperties, Taken DEF CamTypes, CamBounds, CountBounds
<1>b. \A i \in 1 .. Len(rx) : rx[i].kind = "packet" => rx[i].num \in 1 .. frames
  BY DEF CamBounds, RxBounds, WithinFrame
<1>1. CASE ~Device
  <2>1. frames' = frames BY <1>1, ThreadsOnNetwork
  <2>2. CASE LosesAll BY <2>2 DEF LosesAll, LineInv, Quiet
  <2>3. CASE ~LosesAll /\ MonitorCallReturns
    <3>1. /\ rx' = rx /\ dvr' = dvr /\ up' = up /\ buf["monitor"] # <<>>
          /\ delivered' = buf["monitor"][1].num
      BY <2>3 DEF MonitorCallReturns, BufInv, WholeFrame
    <3>2. /\ \A i \in 1 .. Len(rx) : Newer(rx[i], delivered')
          /\ dvr.frame # 0 /\ dvr.next = 1 => delivered' < frames
      BY <3>1 DEF PartInv
    <3> QED BY <2>1, <3>1, <3>2 DEF LineInv
  <2>4. CASE ~LosesAll /\ ~MonitorCallReturns
    <3>1. /\ delivered' = delivered /\ dvr' = dvr /\ up' = up
          /\ rx' = rx \/ TakesOne
      BY <1>1, <2>4, ThreadsOnNetwork, CountsOnCalls DEF CamBounds
    <3>2. CASE rx' = rx BY <2>1, <3>1, <3>2 DEF LineInv
    <3>3. CASE TakesOne
      <4>1. /\ Len(rx') = Len(rx) - 1 /\ rx # <<>>
            /\ \A i \in 1 .. Len(rx) - 1 : rx'[i] = rx[i + 1]
        BY <3>3, <1>a, Taken DEF TakesOne
      <4>2. rx' # <<>> => Len(rx') > 0 /\ rx'[Len(rx')] = rx[Len(rx)]
        <5>1. rx' \in Seq(Messages) BY TypesStep DEF CamTypes
        <5>2. rx' # <<>> => Len(rx') > 0 BY <5>1, Taken
        <5> QED BY <5>2, <4>1, <1>a
      <4>3. \A i \in 1 .. Len(rx') - 1 : Follows(rx'[i], rx'[i + 1])
        BY <4>1, <1>a DEF LineInv
      <4>4. \A i \in 1 .. Len(rx') :
              /\ Newer(rx'[i], delivered)
              /\ dvr.frame # 0 /\ dvr.next = 1 /\ rx'[i].kind = "packet" => rx'[i].num < frames
              /\ \A j \in 1 .. Len(rx') : i < j /\ rx'[i].kind = "packet" => Newer(rx'[j], rx'[i].num)
        <5> TAKE i \in 1 .. Len(rx')
        <5>1. i + 1 \in 1 .. Len(rx) /\ rx'[i] = rx[i + 1] BY <4>1, <1>a
        <5>2. ASSUME NEW j \in 1 .. Len(rx'), i < j, rx'[i].kind = "packet"
              PROVE  Newer(rx'[j], rx'[i].num)
          <6>1. j + 1 \in 1 .. Len(rx) /\ rx'[j] = rx[j + 1] /\ i + 1 < j + 1
            BY <4>1, <5>2, <1>a
          <6> QED BY <5>1, <5>2, <6>1 DEF LineInv
        <5> QED BY <5>1, <5>2 DEF LineInv
      <4> QED BY <2>1, <3>1, <4>1, <4>2, <4>3, <4>4 DEF LineInv
    <3> QED BY <3>1, <3>2, <3>3
  <2> QED BY <2>2, <2>3, <2>4
<1>2. CASE DvrAnswers
  <2> PICK m \in Messages :
             /\ m.kind = "reply" /\ rx' = Append(rx, m) /\ frames' = frames /\ dvr' = dvr
             /\ dvr.frame = 0 /\ SentLast(m, dvr)
             /\ \A z : SentLast(z, dvr) => ~Unfinished(z) /\ Follows(z, m)
    BY <1>2, NextAnswer
  <2>1. up /\ delivered' = delivered BY <1>2 DEF DvrAnswers
  <2>2. rx # <<>> => Follows(rx[Len(rx)], m) BY <2>1 DEF LineInv
  <2>3. \A n : Newer(m, n) BY DEF Newer
  <2> QED BY <2>1, <2>2, <2>3, LineExtends
<1>3. CASE DvrBeginsFrame
  <2> PICK n \in 1 .. MaxParts :
             /\ dvr'.frame = frames + 1 /\ dvr'.next = 1
    BY <1>3 DEF DvrBeginsFrame
  <2>1. /\ rx' = rx /\ frames' = frames + 1 /\ delivered' = delivered /\ up' = up /\ up
        /\ dvr.frame = 0
    BY <1>3 DEF DvrBeginsFrame
  <2>2. rx # <<>> => SentLast(rx[Len(rx)], dvr') BY <2>1 DEF LineInv, SentLast
  <2>3. delivered < frames' /\ \A i \in 1 .. Len(rx) : rx[i].kind = "packet" => rx[i].num < frames'
    BY <2>1, <1>a, <1>b
  <2> QED BY <2>1, <2>2, <2>3 DEF LineInv
<1>4. CASE DvrSendsPacket
  <2> PICK m \in Messages :
             /\ m.kind = "packet" /\ m.num = frames /\ m.part = dvr.next
             /\ rx' = Append(rx, m) /\ frames' = frames /\ SentLast(m, dvr')
             /\ ~(dvr'.frame # 0 /\ dvr'.next = 1)
             /\ \A z : SentLast(z, dvr) => Follows(z, m)
    BY <1>4, NextPacket
  <2>1. up /\ delivered' = delivered /\ dvr.frame # 0 BY <1>4 DEF DvrSendsPacket
  <2>2. rx # <<>> => Follows(rx[Len(rx)], m) BY <2>1 DEF LineInv
  <2>3. /\ Newer(m, delivered)
        /\ \A i \in 1 .. Len(rx) : rx[i].kind = "packet" => Newer(m, rx[i].num)
    BY <2>1 DEF Newer, LineInv
  <2> QED BY <2>1, <2>2, <2>3, LineExtends
<1>5. CASE ConnectionBreaks
  BY <1>5 DEF ConnectionBreaks, LineInv, Quiet
<1> QED BY <1>1, <1>2, <1>3, <1>4, <1>5 DEF Device

(* Only the monitor adds to what it has collected.                         *)
LEMMA MonitorAdds ==
  ASSUME CamTypes, [Next]_vars, buf'["monitor"] \notin {buf["monitor"], <<>>}
  PROVE  MonitorReads
<1> USE DEF CamTypes, Threads
<1>a. buf' # buf /\ ~Discards("monitor") BY DEF Discards
<1>b. ~Discards("api") BY DEF Discards
<1>c. ~UNCHANGED vars BY <1>a DEF vars
<1>d. ~Device
  BY <1>a DEF Device, DvrAnswers, DvrBeginsFrame, DvrSendsPacket, ConnectionBreaks
<1>e. ~Caller
  BY <1>a DEF Caller, Connect, Login, Command, Snapshot, StartMonitor, StopMonitor, Close
<1>f. \A t \in Threads : ~SendMsg(t) BY <1>a DEF SendMsg, Sends, Receives, ReceiveFails
<1>g. ~CallGoesOn
  <2>1. ~LoginReturns /\ ~CommandReturns /\ ~SnapshotSends /\ ~MonitorStarted
    BY <1>a DEF LoginReturns, CommandReturns, SnapshotSends, MonitorStarted
  <2>2. ~Terminates /\ ~StopMonitorJoins /\ ~CloseJoins
    BY <1>a DEF Terminates, StopMonitorJoins, CloseJoins
  <2>3. ~SnapshotReads BY DEF SnapshotReads, Reassembles
  <2>4. ~SnapshotFails /\ ~SnapshotReturns
    BY <1>b DEF SnapshotFails, Fails, SnapshotReturns, GivesUp
  <2> QED BY <1>f, <2>1, <2>2, <2>3, <2>4 DEF CallGoesOn
<1>h. ~KeepaliveLoop BY <1>a, <1>f DEF KeepaliveLoop, KeepaliveWakes, KeepaliveReturns
<1>1. MonitorLoop BY <1>c, <1>d, <1>e, <1>g, <1>h DEF Next
<1>2. ~MonitorClaimed /\ ~MonitorStarts /\ ~MonitorLoops /\ ~MonitorGotNothing
  BY <1>a DEF MonitorClaimed, MonitorStarts, MonitorLoops, MonitorGotNothing
<1>3. ~MonitorReceiveFails /\ ~MonitorGivesUp /\ ~MonitorCallReturns
  BY <1>a DEF MonitorReceiveFails, Fails, MonitorGivesUp, GivesUp, MonitorCallReturns
<1> QED BY <1>1, <1>2, <1>3, <1>f DEF MonitorLoop

(* A packet that is taken begins a frame or is the next of the one begun.  *)
LEMMA PartTaken ==
  ASSUME CamTypes, CamBounds, BufInv, LineInv, PartInv, MonitorReads, buf'["monitor"] # <<>>
  PROVE  PartInv'
<1> DEFINE b == buf["monitor"]
           c == buf'["monitor"]
           m == rx[1]
<1>a. /\ rx \in Seq(Messages) /\ rx # <<>> /\ Len(rx) \in Nat /\ Len(rx) > 0
      /\ Head(rx) = m /\ m \in Messages /\ rx' = Tail(rx) /\ Len(rx') = Len(rx) - 1
      /\ \A i \in 1 .. Len(rx) - 1 : rx'[i] = rx[i + 1]
      /\ Len(rx) = 1 <=> rx' = <<>>
  BY Taken DEF MonitorReads, Reassembles, CamTypes
<1>b. b \in Seq(Messages) /\ Len(b) \in Nat /\ (b # <<>> => Len(b) > 0)
  BY LenProperties, Taken DEF CamTypes, Threads
<1>c. /\ c = Adds(b, m) /\ ~WholeFrame(b) /\ delivered' = delivered /\ dvr' = dvr
      /\ up' = up /\ frames' = frames
  BY <1>a DEF MonitorReads, Reassembles, BufInv, CamTypes, Threads
<1>d. m \in Messages /\ m.kind = "packet" => m = Message("packet", m.num, m.part, m.parts)
  BY DEF Messages, Message
<1> HIDE DEF b, c, m
<1>1. /\ m.kind = "packet" /\ InPlace(c) /\ delivered < c[1].num /\ c[Len(c)] = m
      /\ m.num = c[1].num
  <2>1. CASE b = <<>>
    <3>1. m.kind = "packet" /\ m.part = 1 /\ c = <<m>> BY <1>c, <2>1 DEF Adds, c
    <3>2. Len(c) = 1 /\ c[1] = m BY <3>1
    <3>3. delivered < m.num BY <3>1, <1>a DEF LineInv, Newer, m
    <3> QED BY <3>1, <3>2, <3>3, <1>a, <1>d DEF InPlace
  <2>2. CASE b # <<>>
    <3>1. InPlace(b) /\ delivered < b[1].num /\ Follows(b[Len(b)], m)
      BY <1>a, <2>2 DEF PartInv, b, m
    <3>2. Len(b) < b[1].parts /\ b[1].parts \in Nat
      <4>1. Collected(b, frames) BY DEF CamBounds, BufBounds, Threads, b
      <4>2. Len(b) # b[1].parts BY <1>c, <2>2 DEF WholeFrame
      <4>3. b[1] \in Messages BY <1>b, <2>2, Taken
      <4> QED BY <4>1, <4>2, <4>3, <1>b, <2>2 DEF Collected, Messages
    <3>3. b[Len(b)] = Message("packet", b[1].num, Len(b), b[1].parts)
      BY <3>1, <1>b, <2>2 DEF InPlace
    <3>4. m = Message("packet", b[1].num, Len(b) + 1, b[1].parts)
      BY <3>1, <3>2, <3>3, <1>b DEF Follows, Unfinished, Message
    <3>5. /\ Len(c) = Len(b) + 1 /\ c[Len(b) + 1] = m
          /\ \A i \in 1 .. Len(b) : c[i] = b[i]
      BY <1>a, <1>b, <1>c, <2>2, Added DEF Adds
    <3>6. c[1] = b[1] BY <3>5, <1>b, <2>2
    <3>7. m.kind = "packet" /\ m.num = b[1].num BY <3>4 DEF Message
    <3>8. InPlace(c) BY <3>1, <3>4, <3>5, <3>6, <1>b DEF InPlace
    <3> QED BY <3>1, <3>5, <3>6, <3>7, <3>8
  <2> QED BY <2>1, <2>2
<1>2. rx' # <<>> => Follows(m, rx'[1])
  <2>1. rx' # <<>> => 1 \in 1 .. Len(rx) - 1 BY <1>a
  <2> QED BY <2>1, <1>a DEF LineInv, m
<1>3. up /\ rx' = <<>> => SentLast(m, dvr) BY <1>a DEF LineInv, m
<1>4. \A i \in 1 .. Len(rx') : Newer(rx'[i], m.num)
  <2> TAKE i \in 1 .. Len(rx')
  <2>1. i + 1 \in 1 .. Len(rx) /\ 1 < i + 1 /\ rx'[i] = rx[i + 1] /\ 1 \in 1 .. Len(rx) BY <1>a
  <2> QED BY <2>1, <1>1 DEF LineInv, m
<1>5. dvr.frame # 0 /\ dvr.next = 1 => m.num < frames
  <2>1. 1 \in 1 .. Len(rx) BY <1>a
  <2> QED BY <2>1, <1>1 DEF LineInv, m
<1> QED BY <1>c, <1>1, <1>2, <1>3, <1>4, <1>5 DEF PartInv, c

LEMMA PartStep ==
  ASSUME CamTypes, CamBounds, CallInv, BufInv, AloneInv, RequestInv, LineInv, PartInv,
         [Next]_vars, alone, alone'
  PROVE  PartInv'
<1> SUFFICES ASSUME buf'["monitor"] # <<>> PROVE PartInv' BY DEF PartInv
<1>1. CASE MonitorReads BY <1>1, PartTaken
<1>2. CASE ~MonitorReads
  <2> DEFINE b == buf["monitor"]
  <2>a. buf'["monitor"] = b /\ b # <<>> BY <1>2, MonitorAdds
  <2>b. /\ InPlace(b) /\ delivered < b[1].num /\ b[1].num <= frames
        /\ rx # <<>> => Follows(b[Len(b)], rx[1])
        /\ up /\ rx = <<>> => SentLast(b[Len(b)], dvr)
        /\ \A i \in 1 .. Len(rx) : Newer(rx[i], b[1].num)
        /\ dvr.frame # 0 /\ dvr.next = 1 => b[1].num < frames
    <3>1. Collected(b, frames) BY DEF CamBounds, BufBounds, Threads
    <3> QED BY <2>a, <3>1 DEF PartInv, Collected, WithinFrame
  <2>c. /\ rx \in Seq(Messages) /\ frames \in Nat /\ Len(rx) \in Nat
        /\ (rx # <<>> => Len(rx) > 0) /\ (rx = <<>> => Len(rx) = 0)
    BY LenProperties, Taken DEF CamTypes
  <2>d. b[1].num \in Nat
    <3>1. b[1] \in Messages BY <2>a, Taken DEF CamTypes, Threads
    <3> QED BY <3>1 DEF Messages
  <2> HIDE DEF b
  <2>1. CASE ~Device
    <3>1. frames' = frames BY <2>1, ThreadsOnNetwork
    <3>2. /\ delivered' = delivered
          /\ \/ rx' = rx /\ dvr' = dvr /\ up' = up
             \/ LosesAll /\ ~up'
      BY <1>2, <2>1, <2>a, PartsOnThreads DEF b
    <3>3. CASE rx' = rx /\ dvr' = dvr /\ up' = up
      BY <2>a, <2>b, <3>1, <3>2, <3>3 DEF PartInv
    <3>4. CASE LosesAll /\ ~up'
      BY <2>a, <2>b, <3>1, <3>2, <3>4 DEF PartInv, LosesAll, Quiet
    <3> QED BY <3>2, <3>3, <3>4
  <2>2. ASSUME NEW m \in Messages, rx' = Append(rx, m), frames' = frames,
               delivered' = delivered, up, Newer(m, b[1].num),
               \A z : SentLast(z, dvr) => Follows(z, m),
               ~(dvr'.frame # 0 /\ dvr'.next = 1)
        PROVE  PartInv'
    <3>1. /\ rx' # <<>> /\ Len(rx') = Len(rx) + 1 /\ rx'[Len(rx) + 1] = m
          /\ \A i \in 1 .. Len(rx) : rx'[i] = rx[i]
      BY <2>2, <2>c, Added
    <3>2. Follows(b[Len(b)], rx'[1])
      <4>1. CASE rx = <<>> BY <4>1, <2>2, <2>b, <2>c, <3>1
      <4>2. CASE rx # <<>> BY <4>2, <2>b, <2>c, <3>1
      <4> QED BY <4>1, <4>2
    <3>3. \A i \in 1 .. Len(rx') : Newer(rx'[i], b[1].num)
      BY <2>2, <2>b, <2>c, <3>1
    <3> QED BY <2>2, <2>a, <2>b, <3>1, <3>2, <3>3 DEF PartInv
  <2>3. CASE DvrAnswers
    <3> PICK m \in Messages :
               /\ m.kind = "reply" /\ rx' = Append(rx, m) /\ frames' = frames /\ dvr' = dvr
               /\ dvr.frame = 0 /\ SentLast(m, dvr)
               /\ \A z : SentLast(z, dvr) => ~Unfinished(z) /\ Follows(z, m)
      BY <2>3, NextAnswer
    <3>1. up /\ delivered' = delivered /\ Newer(m, b[1].num) BY <2>3 DEF DvrAnswers, Newer
    <3> QED BY <2>2, <3>1
  <2>4. CASE DvrBeginsFrame
    <3> PICK n \in 1 .. MaxParts :
               /\ dvr'.frame = frames + 1 /\ dvr'.next = 1
      BY <2>4 DEF DvrBeginsFrame
    <3>1. /\ rx' = rx /\ frames' = frames + 1 /\ delivered' = delivered /\ up' = up /\ up
          /\ dvr.frame = 0
      BY <2>4 DEF DvrBeginsFrame
    <3>2. rx = <<>> => SentLast(b[Len(b)], dvr') BY <2>b, <3>1 DEF SentLast
    <3>3. b[1].num < frames' BY <2>b, <2>c, <2>d, <3>1
    <3> QED BY <2>a, <2>b, <3>1, <3>2, <3>3 DEF PartInv
  <2>5. CASE DvrSendsPacket
    <3> PICK m \in Messages :
               /\ m.kind = "packet" /\ m.num = frames /\ m.part = dvr.next
               /\ rx' = Append(rx, m) /\ frames' = frames /\ SentLast(m, dvr')
               /\ ~(dvr'.frame # 0 /\ dvr'.next = 1)
               /\ \A z : SentLast(z, dvr) => Follows(z, m)
      BY <2>5, NextPacket
    <3>1. up /\ delivered' = delivered /\ dvr.frame # 0 BY <2>5 DEF DvrSendsPacket
    <3>2. Newer(m, b[1].num) BY <2>b, <3>1 DEF Newer
    <3> QED BY <2>2, <3>1, <3>2
  <2>6. CASE ConnectionBreaks
    <3>1. /\ rx' = rx /\ ~up' /\ dvr'.frame = 0 /\ delivered' = delivered /\ frames' = frames
      BY <2>6 DEF ConnectionBreaks, Quiet
    <3> QED BY <2>a, <2>b, <3>1 DEF PartInv
  <2> QED BY <2>1, <2>3, <2>4, <2>5, <2>6 DEF Device
<1> QED BY <1>1, <1>2

(* A monitor that has ended is replaced on a new connection only, and what *)
(* has disturbed a monitor remains on record.                              *)
LEMMA AloneOnce == [Next]_vars /\ alone' => alone
<1> SUFFICES ASSUME [Next]_vars, alone' PROVE alone OBVIOUS
<1>1. CASE UNCHANGED vars BY <1>1 DEF vars
<1>2. CASE Device
  BY <1>2 DEF Device, DvrAnswers, DvrBeginsFrame, DvrSendsPacket, ConnectionBreaks
<1>3. ASSUME NEW t \in Threads, SendMsg(t) PROVE alone
  BY <1>3 DEF SendMsg, Sends, Receives, ReceiveFails
<1>4. CASE Caller
  BY <1>4 DEF Caller, Begins, Connect, Login, Command, Snapshot, StartMonitor, StopMonitor, Close
<1>5. CASE CallGoesOn
  <2>1. CASE SendMsg("api") BY <2>1, <1>3 DEF Threads
  <2>2. CASE LoginReturns \/ CommandReturns \/ MonitorStarted
    BY <2>2 DEF LoginReturns, CommandReturns, MonitorStarted
  <2>3. CASE SnapshotSends \/ SnapshotReads \/ SnapshotFails \/ SnapshotReturns
    BY <2>3 DEF SnapshotSends, SnapshotReads, SnapshotFails, SnapshotReturns
  <2>4. CASE Terminates \/ StopMonitorJoins \/ CloseJoins
    BY <2>4 DEF Terminates, StopMonitorJoins, CloseJoins
  <2> QED BY <1>5, <2>1, <2>2, <2>3, <2>4 DEF CallGoesOn
<1>6. CASE KeepaliveLoop
  BY <1>3, <1>6 DEF KeepaliveLoop, KeepaliveWakes, KeepaliveReturns, Threads
<1>7. CASE MonitorLoop
  <2>1. CASE SendMsg("monitor") BY <2>1, <1>3 DEF Threads
  <2>2. CASE MonitorClaimed \/ MonitorStarts \/ MonitorLoops \/ MonitorReads
    BY <2>2 DEF MonitorClaimed, MonitorStarts, MonitorLoops, MonitorReads
  <2>3. CASE MonitorReceiveFails \/ MonitorGivesUp \/ MonitorGotNothing \/ MonitorCallReturns
    BY <2>3 DEF MonitorReceiveFails, MonitorGivesUp, MonitorGotNothing, MonitorCallReturns
  <2> QED BY <1>7, <2>1, <2>2, <2>3 DEF MonitorLoop
<1> QED BY <1>1, <1>2, <1>4, <1>5, <1>6, <1>7 DEF Next

LEMMA MonitorReplaced ==
  ASSUME CallInv, [Next]_vars, monitor = "ended", monitor' # "ended"
  PROVE  StopMonitorJoins \/ Terminates
<1>1. \A t \in Threads : ~SendMsg(t) BY DEF SendMsg, Sends, Receives, ReceiveFails
<1>2. ~UNCHANGED vars BY DEF vars
<1>3. ~Device BY DEF Device, DvrAnswers, DvrBeginsFrame, DvrSendsPacket, ConnectionBreaks
<1>4. ~Caller
  BY DEF Caller, Connect, Login, Command, Snapshot, Begins, StartMonitor, StopMonitor, Close
<1>5. ~KeepaliveLoop
  BY <1>1 DEF KeepaliveLoop, KeepaliveWakes, KeepaliveReturns, Threads
<1>6. ~MonitorLoop
  BY <1>1 DEF MonitorLoop, MonitorClaimed, MonitorStarts, MonitorLoops, MonitorReads,
              MonitorReceiveFails, MonitorGivesUp, MonitorGotNothing, MonitorCallReturns, Threads
<1>7. CallGoesOn BY <1>2, <1>3, <1>4, <1>5, <1>6 DEF Next
<1>8. ~LoginReturns /\ ~CommandReturns /\ ~CloseJoins /\ ~MonitorStarted
  BY DEF LoginReturns, CommandReturns, CloseJoins, MonitorStarted
<1>9. ~SnapshotSends /\ ~SnapshotReads /\ ~SnapshotFails /\ ~SnapshotReturns
  BY DEF SnapshotSends, SnapshotReads, SnapshotFails, SnapshotReturns
<1> QED BY <1>1, <1>7, <1>8, <1>9 DEF CallGoesOn, Threads

LEMMA FrameStep ==
  ASSUME CamTypes, CamBounds, CallInv, SocketInv, BufInv, AloneInv, FrameInv, [Next]_vars
  PROVE  FrameInv'
<1> SUFFICES ASSUME alone', monitor' # "ended" PROVE (RequestInv /\ LineInv /\ PartInv)'
  BY DEF FrameInv
<1>a. alone BY AloneOnce
<1>1. CASE monitor # "ended"
  <2>1. RequestInv /\ LineInv /\ PartInv BY <1>a, <1>1 DEF FrameInv
  <2> QED BY <1>a, <1>1, <2>1, RequestStep, LineStep, PartStep
<1>2. CASE monitor = "ended"
  <2>1. buf["monitor"] = <<>> BY <1>a, <1>2 DEF AloneInv, Ended
  <2>2. tx' = <<>> /\ rx' = <<>> /\ dvr' = Quiet /\ buf' = buf
    <3>1. CASE StopMonitorJoins BY <3>1 DEF StopMonitorJoins, SocketInv
    <3>2. CASE Terminates BY <3>2 DEF Terminates, Closed
    <3> QED BY <1>2, <3>1, <3>2, MonitorReplaced
  <2> QED BY <2>1, <2>2 DEF RequestInv, LineInv, PartInv, Quiet
<1> QED BY <1>1, <1>2

-----------------------------------------------------------------------------
(* The theorems.                                                           *)

LEMMA CamInit == Init => CamInv
<1> SUFFICES ASSUME Init PROVE CamInv OBVIOUS
<1> USE DEF Init
<1>1. FlagTypes BY DEF FlagTypes
<1>2. CamTypes BY CallTypes, MessageTypes, EmptySeq DEF CamTypes
<1>3. CountBounds /\ DvrBounds
  BY DvripBoundsAssumption DEF CountBounds, DvrBounds, NoCall, Quiet
<1>4. BufBounds /\ RxBounds BY DEF BufBounds, RxBounds, Collected
<1>5. FramesPerConnect BY DvripBoundsAssumption, TimesGrows DEF FramesPerConnect
<1>6. CallInv BY DEF CallInv, NoCall, Threads
<1>7. SocketInv BY DEF SocketInv, Ended
<1>8. PairInv BY DEF PairInv, RepliesMatch, NoCall, Quiet
<1>9. BufInv BY DEF BufInv, Threads
<1>10. AloneInv BY DEF AloneInv, Ended, Threads
<1>11. FrameInv BY DEF FrameInv, RequestInv, LineInv, PartInv, Quiet, Threads
<1> QED BY <1>1, <1>2, <1>3, <1>4, <1>5, <1>6, <1>7, <1>8, <1>9, <1>10, <1>11
        DEF CamInv, CamBounds

LEMMA CamStep == CamInv /\ [Next]_vars => CamInv'
<1> SUFFICES ASSUME CamInv, [Next]_vars PROVE CamInv' OBVIOUS
<1>1. FlagTypes' /\ CamTypes' BY FlagsStep, TypesStep DEF CamInv
<1>2. CamBounds'
  BY CountBoundsStep, BufBoundsStep, RxBoundsStep, DvrBoundsStep DEF CamInv, CamBounds
<1>3. FramesPerConnect' BY FramesPerConnectStep DEF CamInv, CamBounds
<1>4. CallInv' /\ SocketInv' /\ BufInv' /\ AloneInv'
  BY CallStep, SocketStep, BufStep, AloneStep DEF CamInv
<1>5. PairInv' /\ FrameInv' BY PairStep, FrameStep DEF CamInv
<1> QED BY <1>1, <1>2, <1>3, <1>4, <1>5 DEF CamInv

(* The inductive invariant holds in every state the connection, its        *)
(* threads and the DVR reach.                                              *)
THEOREM ConnectionKeepsInv == Spec => []CamInv
<1>1. Init => CamInv BY CamInit
<1>2. CamInv /\ [Next]_vars => CamInv' BY CamStep
<1> QED BY <1>1, <1>2, PTL DEF Spec

(* Threads, calls, messages and what is collected of a frame have their    *)
(* types, for every number of connections, frames and packets.             *)
THEOREM ConnectionTypes == Spec => []CamTypeOK
<1>1. CamInv => CamTypeOK
  <2> SUFFICES ASSUME CamInv PROVE CamTypeOK OBVIOUS
  <2>1. /\ {sock, monitoring, keepalive_run, recv_failed, up, paired, alone} \subseteq BOOLEAN
    BY DEF CamInv, FlagTypes
  <2>2. frames \in 0 .. MaxFrames * MaxConnects
    <3>1. /\ connects \in Nat /\ connects <= MaxConnects /\ frames \in Nat
          /\ MaxFrames \in Nat /\ MaxConnects \in Nat
      BY DvripBoundsAssumption DEF CamInv, CamTypes, CamBounds, CountBounds
    <3> DEFINE now == MaxFrames * connects
               all == MaxFrames * MaxConnects
    <3>2. now <= all /\ now \in Nat /\ all \in Nat BY <3>1, TimesGrows
    <3>3. frames <= now BY DEF CamInv, FramesPerConnect
    <3> HIDE DEF now, all
    <3>4. frames \in 0 .. all BY <3>1, <3>2, <3>3
    <3> QED BY <3>4 DEF all
  <2>3. /\ packet_count \in Nat /\ delivered \in 0 .. frames /\ connects \in 0 .. MaxConnects
        /\ dvr.frame \in 0 .. frames
    BY DvripBoundsAssumption DEF CamInv, CamTypes, CamBounds, CountBounds, DvrBounds
  <2>4. ASSUME NEW t \in Threads
        PROVE  /\ call[t].state \in {"none", "lock", "wait", "done"}
               /\ call[t].req \in 0 .. packet_count
               /\ Len(buf[t]) <= MaxParts
               /\ buf[t] # <<>> => buf[t][1].part = 1
    <3>1. call[t] \in Calls /\ call[t].req <= packet_count /\ packet_count \in Nat
      BY DEF CamInv, CamTypes, CamBounds, CountBounds
    <3>2. Collected(buf[t], frames) /\ buf[t] \in Seq(Messages)
      BY DEF CamInv, CamTypes, CamBounds, BufBounds
    <3>3. Len(buf[t]) \in Nat /\ (buf[t] = <<>> => Len(buf[t]) = 0) BY <3>2, LenProperties
    <3>4. Len(buf[t]) <= MaxParts
      BY <3>2, <3>3, DvripBoundsAssumption DEF Collected, WithinFrame
    <3> QED BY <3>1, <3>2, <3>4 DEF Calls, Collected
  <2>5. /\ \A i \in 1 .. Len(tx) : tx[i].kind \in {"ask", "start", "snap"}
        /\ \A i \in 1 .. Len(rx) : rx[i].kind \in {"reply", "packet"}
    <3>1. tx \in Seq(Requests) /\ rx \in Seq(Messages) BY DEF CamInv, CamTypes
    <3>2. /\ \A i \in 1 .. Len(tx) : tx[i] \in Requests
          /\ \A i \in 1 .. Len(rx) : rx[i] \in Messages
      BY <3>1, ElementOfSeq
    <3> QED BY <3>2 DEF Requests, Messages
  <2> QED BY <2>1, <2>2, <2>3, <2>4, <2>5 DEF CamTypeOK, CamInv, CamTypes
<1> QED BY <1>1, ConnectionKeepsInv, PTL

(* Whoever gets a reply on a connection without timeouts and frames gets   *)
(* the one to its own request, however the caller, the keep-alive thread   *)
(* and the monitor take turns.                                             *)
THEOREM RepliesAreOwn == Spec => []RepliesMatch
<1>1. CamInv => RepliesMatch BY DEF CamInv, PairInv, RepliesMatch
<1> QED BY <1>1, ConnectionKeepsInv, PTL

(* A monitor that is alone on its connection gives out whole frames, in    *)
(* their order, whatever came before it on the connection and whatever     *)
(* times out, for any number of packets of a frame.                        *)
THEOREM FramesComeOutWhole == Spec => []FramesAreWhole
<1>1. CamInv => FramesAreWhole
  <2> SUFFICES ASSUME CamInv, alone, monitor = "calls"
               PROVE  LET b == buf["monitor"] IN
                      /\ \A i \in 1 .. Len(b) : b[i] = Message("packet", b[1].num, i, b[1].parts)
                      /\ b[1].num > delivered
    BY DEF FramesAreWhole
  <2>1. buf["monitor"] # <<>> BY DEF CamInv, BufInv, WholeFrame
  <2>2. InPlace(buf["monitor"]) /\ delivered < buf["monitor"][1].num
    BY <2>1 DEF CamInv, FrameInv, PartInv
  <2>3. delivered \in Nat /\ buf["monitor"][1].num \in Nat
    <3>1. buf["monitor"] \in Seq(Messages) BY DEF CamInv, CamTypes, Threads
    <3>2. buf["monitor"][1] \in Messages BY <2>1, <3>1, Taken
    <3> QED BY <3>2 DEF CamInv, CamTypes, Messages
  <2> QED BY <2>2, <2>3 DEF InPlace
<1> QED BY <1>1, ConnectionKeepsInv, PTL
=============================================================================
