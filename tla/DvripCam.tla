------------------------------ MODULE DvripCam ------------------------------
(***************************************************************************)
(* DVRIPCam, src/src/dvrip.cpp: one TCP connection to a DVR, which up to   *)
(* three threads use: the caller's, the keep-alive thread of login and the *)
(* monitor thread of start_monitor.  docs/USAGE.md has one thread make the *)
(* calls.                                                                  *)
(*                                                                         *)
(* What the DVR sends is a sequence of messages: replies, and packets that *)
(* are parts of frames.  The header of a message and its payload are       *)
(* received in one step, so a timeout between the two, after which nothing *)
(* more would be understood, is not modelled; and a receive that is under  *)
(* way when its socket is closed fails.  discover, which has a socket of   *)
(* its own, and the data of commands are left out.  An operator may have a *)
(* faulty twin before it, which only mutations use.                        *)
(***************************************************************************)
EXTENDS Naturals, Sequences

CONSTANTS
  MaxConnects,  \* bound: connections
  MaxPackets,   \* bound: requests before a call or keep-alive is made
  MaxFrames,    \* bound: frames the DVR begins per connection so far
  MaxParts,     \* bound: packets of a frame
  MaxLength     \* bound: the same and the frames before it: later frames are shorter

ASSUME DvripBoundsAssumption ==
  /\ MaxConnects \in Nat /\ MaxPackets \in Nat
  /\ MaxFrames \in Nat /\ MaxParts \in Nat /\ MaxLength \in Nat

Threads == {"api", "keepalive", "monitor"}

Message(kind, num, part, parts) ==
  [kind |-> kind, num |-> num, part |-> part, parts |-> parts]

Nothing == Message("none", 0, 0, 0)     \* no answer yet
Ret101  == Message("ret101", 0, 0, 0)   \* what send_msg makes of a failed send
Empty   == Message("empty", 0, 0, 0)    \* and of a failed receive

VARIABLES
  sock,                     \* is it a descriptor
  monitoring, keepalive_run, recv_failed,
  packet_count,             \* the sequence number of the next request
  call,                     \* each thread's send_msg
  buf,                      \* each thread's reassemble_bin_payload
  api, keepalive, monitor,  \* where each thread is; "ended" is not yet joined
  up, tx, rx, dvr,          \* the connection, both directions, and the DVR
  connects, frames,         \* history: connections, frames the DVR began
  paired,                   \* history: see RepliesMatch
  alone,                    \* history: see FramesAreWhole
  delivered                 \* history: last frame given to the callback

flags   == <<monitoring, keepalive_run, recv_failed>>
threads == <<api, keepalive, monitor>>
network == <<up, tx, rx, dvr>>
history == <<connects, frames, paired, alone, delivered>>
vars    == <<sock, flags, packet_count, call, buf, threads, network, history>>

Quiet == [frame |-> 0, next |-> 0, parts |-> 0, live |-> FALSE]

CamTypeOK ==
  /\ {sock, monitoring, keepalive_run, recv_failed, up, paired, alone} \subseteq BOOLEAN
  /\ packet_count \in Nat /\ delivered \in 0 .. frames
  /\ connects \in 0 .. MaxConnects /\ frames \in 0 .. MaxFrames * MaxConnects
  /\ \A t \in Threads :
       /\ call[t].state \in {"none", "lock", "wait", "done"}
       /\ call[t].req \in 0 .. packet_count
       /\ Len(buf[t]) <= MaxParts
       /\ buf[t] # <<>> => buf[t][1].part = 1
  /\ api \in {"idle", "login", "command", "snapshot", "reading", "joinsKeepalive",
              "joinsMonitor", "closes", "terminated"}
  /\ keepalive \in {"none", "sleep", "asks", "ended"}
  /\ monitor \in {"none", "claims", "starts", "loops", "receives", "nothing",
                  "calls", "ended"}
  /\ \A i \in 1 .. Len(tx) : tx[i].kind \in {"ask", "start", "snap"}
  /\ \A i \in 1 .. Len(rx) : rx[i].kind \in {"reply", "packet"}
  /\ dvr.frame \in 0 .. frames

NoCall == [state |-> "none", req |-> 0, result |-> Nothing]

Init ==
  /\ sock = FALSE /\ monitoring = FALSE /\ keepalive_run = FALSE
  /\ recv_failed = FALSE /\ packet_count = 0
  /\ call = [t \in Threads |-> NoCall] /\ buf = [t \in Threads |-> <<>>]
  /\ api = "idle" /\ keepalive = "none" /\ monitor = "none"
  /\ up = FALSE /\ tx = <<>> /\ rx = <<>> /\ dvr = Quiet
  /\ connects = 0 /\ frames = 0 /\ paired = TRUE /\ alone = TRUE /\ delivered = 0
-----------------------------------------------------------------------------
(* The DVR takes requests in their order. *)

DvrAnswers ==
  /\ up /\ tx # <<>> /\ Head(tx).kind = "ask"
  /\ dvr.live \/ dvr.frame = 0
  /\ rx' = Append(rx, Message("reply", Head(tx).num, 1, 1))
  /\ tx' = Tail(tx)
  /\ UNCHANGED <<sock, flags, packet_count, call, buf, threads, up, dvr, history>>

(* A snapshot is one frame; after a start, frame follows frame. *)
DvrBeginsFrame ==
  /\ up /\ dvr.frame = 0 /\ frames < MaxFrames * connects
  /\ \/ tx # <<>> /\ Head(tx).kind \in {"start", "snap"} /\ tx' = Tail(tx)
     \/ dvr.live /\ UNCHANGED tx
  /\ \E n \in 1 .. MaxParts :
       /\ frames + n <= MaxLength
       /\ dvr' = [frame |-> frames + 1, next |-> 1, parts |-> n,
                  live |-> dvr.live \/ (tx' # tx /\ Head(tx).kind = "start")]
  /\ frames' = frames + 1
  /\ UNCHANGED <<sock, flags, packet_count, call, buf, threads, up, rx,
                 connects, paired, alone, delivered>>

DvrSendsPacket ==
  /\ up /\ dvr.frame # 0
  /\ rx' = Append(rx, Message("packet", dvr.frame, dvr.next, dvr.parts))
  /\ dvr' = IF dvr.next = dvr.parts
            THEN [Quiet EXCEPT !.live = dvr.live]
            ELSE [dvr EXCEPT !.next = @ + 1]
  /\ UNCHANGED <<sock, flags, packet_count, call, buf, threads, up, tx, history>>

(* What is under way to the DVR is lost; what has come from it can be read. *)
ConnectionBreaks ==
  /\ up /\ up' = FALSE /\ tx' = <<>> /\ dvr' = Quiet
  /\ UNCHANGED <<sock, flags, packet_count, call, buf, threads, rx, history>>
-----------------------------------------------------------------------------
(* The socket. *)

Opened ==
  /\ connects < MaxConnects /\ connects' = connects + 1
  /\ sock' = TRUE /\ up' = TRUE /\ tx' = <<>> /\ rx' = <<>> /\ dvr' = Quiet
  /\ paired' = (\A t \in Threads : call[t].state = "none")

Closed == sock' = FALSE /\ up' = FALSE /\ tx' = <<>> /\ rx' = <<>> /\ dvr' = Quiet

MutexIgnored == TRUE
MutexFree    == \A u \in Threads : call[u].state # "wait"

Transmits(kind) ==
  tx' = IF up THEN Append(tx, [kind |-> kind, num |-> packet_count]) ELSE tx

Asks(t) == call' = [call EXCEPT ![t] = [NoCall EXCEPT !.state = "lock"]]

Answered(t, m) == call' = [call EXCEPT ![t].state = "done", ![t].result = m]

(* send_msg, in three steps: it sends with send_mutex held ...             *)
Sends(t) ==
  /\ call[t].state = "lock" /\ MutexFree
  /\ packet_count' = packet_count + 1
  /\ \/ /\ sock
        /\ Transmits("ask")
        /\ call' = [call EXCEPT ![t].state = "wait", ![t].req = packet_count]
     \/ /\ ~sock \/ ~up
        /\ Answered(t, Ret101) /\ UNCHANGED tx
  /\ UNCHANGED <<sock, flags, buf, threads, up, rx, dvr, history>>

(* ... and releases it when it has received, whatever that is, ...         *)
Receives(t) ==
  /\ call[t].state = "wait" /\ rx # <<>>
  /\ Answered(t, Head(rx)) /\ rx' = Tail(rx)
  /\ UNCHANGED <<sock, flags, packet_count, buf, threads, up, tx, dvr, history>>

(* ... or when nothing has come in time, or ever will.                     *)
ReceiveFails(t) ==
  /\ call[t].state = "wait" /\ rx = <<>>
  /\ Answered(t, Empty)
  /\ recv_failed' = TRUE /\ paired' = FALSE
  /\ UNCHANGED <<sock, monitoring, keepalive_run, packet_count, buf, threads,
                 network, connects, frames, alone, delivered>>

Done(t) == call[t].state = "done" /\ call' = [call EXCEPT ![t] = NoCall]
-----------------------------------------------------------------------------
(* reassemble_bin_payload, one message at a time and without send_mutex. *)

Adds(b, m) == IF b # <<>> THEN Append(b, m)
              ELSE IF m.kind = "packet" /\ m.part = 1 THEN <<m>> ELSE <<>>

WholeFrame(b) == b # <<>> /\ Len(b) = b[1].parts

Reassembles(t) == /\ rx # <<>> /\ rx' = Tail(rx)
                  /\ buf' = [buf EXCEPT ![t] = Adds(@, Head(rx))]

Discards(t) == buf' = [buf EXCEPT ![t] = <<>>]

(* Nothing comes in time; or (GivesUp) packets come, but for too long.     *)
Fails(t)   == rx = <<>> /\ recv_failed' = TRUE /\ Discards(t)
GivesUp(t) == buf[t] # <<>> /\ ~WholeFrame(buf[t]) /\ Discards(t)
-----------------------------------------------------------------------------
(* Calls.  What disturbs a monitor that is running is recorded in alone.   *)

Ended(thread) == thread \in {"none", "ended"}

Begins(pc) ==
  /\ api = "idle" /\ packet_count < MaxPackets
  /\ api' = pc
  /\ alone' = (alone /\ Ended(monitor))

Connect ==
  /\ api = "idle" /\ Opened
  /\ alone' = (alone /\ Ended(monitor))
  /\ UNCHANGED <<flags, packet_count, call, buf, threads, frames, delivered>>

Login ==
  /\ Begins("login") /\ Asks("api")
  /\ IF sock THEN UNCHANGED <<sock, network, connects, paired>> ELSE Opened
  /\ UNCHANGED <<flags, packet_count, buf, keepalive, monitor, frames, delivered>>

(* A reply may also be a refusal, here and in MonitorClaimed.              *)
LoginReturns ==
  /\ api = "login" /\ Done("api")
  /\ \/ api' = "idle" /\ UNCHANGED <<keepalive, keepalive_run>>
     \/ /\ call["api"].result.kind = "reply" /\ keepalive = "none"
        /\ keepalive_run' = TRUE
        /\ keepalive' = "sleep" /\ api' = "idle"
  /\ UNCHANGED <<sock, monitoring, recv_failed, packet_count, buf, monitor,
                 network, history>>

Command ==
  /\ Begins("command") /\ Asks("api")
  /\ UNCHANGED <<sock, flags, packet_count, buf, keepalive, monitor, network,
                 connects, frames, paired, delivered>>

CommandReturns ==
  /\ api = "command" /\ Done("api") /\ api' = "idle"
  /\ UNCHANGED <<sock, flags, packet_count, buf, keepalive, monitor, network, history>>

Snapshot ==
  /\ Begins("snapshot")
  /\ UNCHANGED <<sock, flags, packet_count, call, buf, keepalive, monitor, network,
                 connects, frames, paired, delivered>>

(* A request without an answer. *)
SendsOnly(t, kind) ==
  /\ MutexFree
  /\ packet_count' = packet_count + 1
  /\ Transmits(kind)
  /\ paired' = FALSE

SnapshotSends ==
  /\ api = "snapshot" /\ SendsOnly("api", "snap") /\ api' = "reading"
  /\ UNCHANGED <<sock, flags, call, buf, keepalive, monitor, up, rx, dvr,
                 connects, frames, alone, delivered>>

SnapshotReads ==
  /\ api = "reading" /\ ~WholeFrame(buf["api"]) /\ Reassembles("api")
  /\ api' = IF buf'["api"] = <<>> THEN "idle" ELSE "reading"
  /\ UNCHANGED <<sock, flags, packet_count, call, keepalive, monitor, up, tx, dvr,
                 history>>

SnapshotFails ==
  /\ api = "reading" /\ ~WholeFrame(buf["api"]) /\ Fails("api") /\ api' = "idle"
  /\ UNCHANGED <<sock, monitoring, keepalive_run, packet_count, call, keepalive,
                 monitor, network, history>>

SnapshotReturns ==
  /\ api = "reading" /\ api' = "idle"
  /\ GivesUp("api") \/ (WholeFrame(buf["api"]) /\ Discards("api"))
  /\ UNCHANGED <<sock, flags, packet_count, call, keepalive, monitor, network, history>>

StaysSet == keepalive_run
Cleared  == FALSE

StartMonitor ==
  /\ api = "idle" /\ sock /\ ~monitoring
  /\ keepalive_run' = Cleared /\ api' = "joinsKeepalive"
  /\ UNCHANGED <<sock, monitoring, recv_failed, packet_count, call, buf, keepalive,
                 monitor, network, history>>

LeavesKeepalive == TRUE
KeepaliveJoined == Ended(keepalive)

MonitorStarted ==
  /\ api = "joinsKeepalive" /\ KeepaliveJoined /\ monitor = "none"
  /\ keepalive' = IF Ended(keepalive) THEN "none" ELSE keepalive
  /\ monitoring' = TRUE
  /\ monitor' = "claims" /\ Asks("monitor") /\ api' = "idle"
  /\ UNCHANGED <<sock, keepalive_run, recv_failed, packet_count, buf, network, history>>

(* A thread has ended by itself and was not joined: login and              *)
(* start_monitor assign to a joinable std::thread, and the process ends.   *)
Terminates ==
  /\ \/ /\ api = "login" /\ call["api"].state = "done"
        /\ call["api"].result.kind = "reply" /\ keepalive # "none"
     \/ api = "joinsKeepalive" /\ KeepaliveJoined /\ monitor # "none"
  /\ api' = "terminated" /\ keepalive' = "none" /\ monitor' = "none"
  /\ call' = [t \in Threads |-> NoCall]
  /\ Closed /\ monitoring' = FALSE
  /\ UNCHANGED <<keepalive_run, recv_failed, packet_count, buf, history>>

StopMonitor ==
  /\ api = "idle" /\ (sock \/ monitor # "none")
  /\ monitoring' = FALSE /\ Closed /\ api' = "joinsMonitor"
  /\ UNCHANGED <<keepalive_run, recv_failed, packet_count, call, buf, keepalive,
                 monitor, history>>

StopMonitorJoins ==
  /\ api = "joinsMonitor" /\ Ended(monitor)
  /\ monitor' = "none" /\ api' = "idle"
  /\ UNCHANGED <<sock, flags, packet_count, call, buf, keepalive, network, history>>

Close ==
  /\ api = "idle" /\ (sock \/ keepalive # "none")
  /\ keepalive_run' = FALSE /\ api' = "closes"
  /\ UNCHANGED <<sock, monitoring, recv_failed, packet_count, call, buf, keepalive,
                 monitor, network, history>>

CloseJoins ==
  /\ api = "closes" /\ Ended(keepalive)
  /\ keepalive' = "none" /\ Closed /\ api' = "idle"
  /\ UNCHANGED <<flags, packet_count, call, buf, monitor, history>>
-----------------------------------------------------------------------------
(* The keep-alive thread. *)

KeepaliveWakes ==
  /\ keepalive = "sleep"
  /\ IF keepalive_run /\ sock
     THEN packet_count < MaxPackets /\ keepalive' = "asks" /\ Asks("keepalive")
     ELSE keepalive' = "ended" /\ UNCHANGED call
  /\ UNCHANGED <<sock, flags, packet_count, buf, api, monitor, network, history>>

(* What has no Ret, as a video packet, or a Ret of 101 closes the socket,  *)
(* and so may any reply.                                                   *)
KeepaliveReturns ==
  /\ keepalive = "asks" /\ Done("keepalive")
  /\ \/ /\ call["keepalive"].result.kind = "reply"
        /\ keepalive' = "sleep" /\ UNCHANGED <<sock, network>>
     \/ keepalive' = "ended" /\ Closed
  /\ UNCHANGED <<flags, packet_count, buf, api, monitor, history>>
-----------------------------------------------------------------------------
(* The monitor thread. *)

MonitorEnds == monitor' = "ended" /\ monitoring' = FALSE

MonitorClaimed ==
  /\ monitor = "claims" /\ Done("monitor")
  /\ \/ MonitorEnds
     \/ /\ call["monitor"].result.kind = "reply"
        /\ monitor' = "starts" /\ UNCHANGED monitoring
  /\ UNCHANGED <<sock, keepalive_run, recv_failed, packet_count, buf, api, keepalive,
                 network, history>>

MonitorStarts ==
  /\ monitor = "starts" /\ SendsOnly("monitor", "start")
  /\ recv_failed' = FALSE /\ monitor' = "loops"
  /\ UNCHANGED <<sock, monitoring, keepalive_run, call, buf, api, keepalive, up, rx,
                 dvr, connects, frames, alone, delivered>>

MonitorLoops ==
  /\ monitor = "loops"
  /\ IF monitoring THEN monitor' = "receives" /\ UNCHANGED monitoring ELSE MonitorEnds
  /\ UNCHANGED <<sock, keepalive_run, recv_failed, packet_count, call, buf, api,
                 keepalive, network, history>>

MonitorReads ==
  /\ monitor = "receives" /\ Reassembles("monitor")
  /\ monitor' = IF WholeFrame(buf'["monitor"]) THEN "calls"
                ELSE IF buf'["monitor"] = <<>> THEN "nothing" ELSE "receives"
  /\ UNCHANGED <<sock, flags, packet_count, call, api, keepalive, up, tx, dvr, history>>

MonitorReceiveFails ==
  /\ monitor = "receives" /\ Fails("monitor") /\ monitor' = "nothing"
  /\ UNCHANGED <<sock, monitoring, keepalive_run, packet_count, call, api, keepalive,
                 network, history>>

MonitorGivesUp ==
  /\ monitor = "receives" /\ GivesUp("monitor") /\ monitor' = "nothing"
  /\ UNCHANGED <<sock, flags, packet_count, call, api, keepalive, network, history>>

NeverLost == FALSE
Lost      == recv_failed

MonitorGotNothing ==
  /\ monitor = "nothing"
  /\ IF monitoring /\ ~Lost
     THEN monitor' = "receives" /\ UNCHANGED monitoring
     ELSE MonitorEnds
  /\ UNCHANGED <<sock, keepalive_run, recv_failed, packet_count, call, buf, api,
                 keepalive, network, history>>

MonitorCallReturns ==
  /\ monitor = "calls" /\ monitor' = "loops"
  /\ delivered' = buf["monitor"][1].num /\ Discards("monitor")
  /\ UNCHANGED <<sock, flags, packet_count, call, api, keepalive, network,
                 connects, frames, paired, alone>>
-----------------------------------------------------------------------------
Device == DvrAnswers \/ DvrBeginsFrame \/ DvrSendsPacket \/ ConnectionBreaks

SendMsg(t) == Sends(t) \/ Receives(t) \/ ReceiveFails(t)

Caller == Connect \/ Login \/ Command \/ Snapshot \/ StartMonitor \/ StopMonitor \/ Close

CallGoesOn ==
  \/ SendMsg("api") \/ LoginReturns \/ CommandReturns
  \/ SnapshotSends \/ SnapshotReads \/ SnapshotFails \/ SnapshotReturns
  \/ MonitorStarted \/ Terminates \/ StopMonitorJoins \/ CloseJoins

KeepaliveLoop == SendMsg("keepalive") \/ KeepaliveWakes \/ KeepaliveReturns

MonitorLoop ==
  \/ SendMsg("monitor") \/ MonitorClaimed \/ MonitorStarts
  \/ MonitorLoops \/ MonitorReads \/ MonitorReceiveFails \/ MonitorGivesUp
  \/ MonitorGotNothing \/ MonitorCallReturns

Next == Device \/ Caller \/ CallGoesOn \/ KeepaliveLoop \/ MonitorLoop

Spec == Init /\ [][Next]_vars

(* The caller decides when to call and the DVR may fall silent; threads    *)
(* run, and no receive waits for longer than its timeout.  A thread is     *)
(* named by what each of its steps changes.                                *)
FairSpec ==
  /\ Spec
  /\ WF_<<api, call["api"], buf["api"]>>(CallGoesOn)
  /\ WF_<<keepalive, call["keepalive"]>>(KeepaliveLoop)
  /\ WF_<<monitor, call["monitor"], buf["monitor"]>>(MonitorLoop)
-----------------------------------------------------------------------------
(* Properties. *)

(* The keep-alive thread, the caller and the monitor's claim send requests *)
(* in any order.  On a connection that was made while none was under way,  *)
(* on which no receive has failed and which has carried no frames, each    *)
(* gets the reply to its own.                                              *)
RepliesMatch ==
  paired => \A t \in Threads :
    call[t].state = "done" /\ call[t].result.kind = "reply" =>
      call[t].result.num = call[t].req

(* While nothing is called that uses the connection of a running monitor,  *)
(* what the callback is given is one frame with all its packets in place,  *)
(* later than the frame before, after any timeouts, late replies,          *)
(* snapshots and reconnections.                                            *)
FramesAreWhole ==
  alone /\ monitor = "calls" =>
    LET b == buf["monitor"] IN
    /\ \A i \in 1 .. Len(b) : b[i] = Message("packet", b[1].num, i, b[1].parts)
    /\ b[1].num > delivered

(* Every call comes back: none waits for ever for a thread, the mutex or   *)
(* the DVR.                                                                *)
CallsReturn == (api # "idle") ~> (api \in {"idle", "terminated"})

(* include/dvrip.h, is_monitoring: when the connection is lost, at         *)
(* whatever point of the monitor's start or loop, it becomes false.        *)
LossEndsMonitor == (monitoring /\ ~up) ~> (~monitoring \/ up)
=============================================================================
