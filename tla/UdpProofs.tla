----------------------------- MODULE UdpProofs -----------------------------
(***************************************************************************)
(* Proofs about UdpStreamServer, for any senders, callbacks, hosts, frames *)
(* and bounds.  The invariant has four parts: where the API thread and the *)
(* receive thread can be together; where the target comes from; that every *)
(* chunk, sent, under way, kept or in a frame, is of a call that had the   *)
(* frame's id; and, as long as nothing is out of order, that what has been *)
(* fed is of calls before those on the wire, and these before the rest.    *)
(* Types are kept along with it.                                           *)
(***************************************************************************)
EXTENDS UdpStreamServer, FiniteSetTheorems, SequenceTheorems, TLAPS

USE DEF peer, lifecycle, reassembly, callback, target

-----------------------------------------------------------------------------
(* The receive thread lives between start and the return of stop.          *)

LifeOK ==
  /\ api \in {"idle", "joining", "joiningToClose"}
  /\ initialized \in BOOLEAN /\ running \in BOOLEAN /\ sock \in BOOLEAN
  /\ initialized => sock
  /\ running => initialized /\ api = "idle"
  /\ recv # "none" => initialized
  /\ recv # "none" => running \/ api # "idle"
  /\ calling # NoFn => recv = "call"

LEMMA LifeStep == LifeOK /\ [Next]_vars => LifeOK'
<1> SUFFICES ASSUME LifeOK, [Next]_vars PROVE LifeOK' OBVIOUS
<1> USE DEF LifeOK, RecvGoes, Joined
<1>1. CASE \E s \in Senders : SendJpeg(s) \/ SendChunk(s)
  <2>1. UNCHANGED <<lifecycle, recv, calling>> BY <1>1, Zenon DEF SendJpeg, SendChunk
  <2> QED BY <2>1
<1>2. CASE PeerRestarts \/ \E i \in 1 .. Len(net) : Lose(i)
  BY <1>2 DEF PeerRestarts, Lose
<1>3. CASE \E i \in 1 .. Len(net) : RecvChunk(i)
  <2>1. PICK i \in 1 .. Len(net) : RecvChunk(i) BY <1>3
  <2>2. recv = "recv" /\ UNCHANGED <<lifecycle, calling>> BY <2>1 DEF RecvChunk
  <2> QED BY <2>2
<1>4. CASE InitServer \/ Start \/ Stop
  BY <1>4 DEF InitServer, Start, Stop
<1>5. CASE StopJoins \/ Deinit
  <2>1. ~running BY <1>5 DEF StopJoins, Deinit
  <2>2. CASE StopJoins BY <2>2, <2>1 DEF StopJoins
  <2>3. CASE Deinit
    <3>1. recv = "none" BY <2>1, <2>3 DEF Deinit
    <3> QED BY <2>1, <2>3, <3>1 DEF Deinit
  <2> QED BY <1>5, <2>2, <2>3
<1>6. CASE SetOnJpegCallback \/ RecvLoops \/ RecvTimesOut \/ RecvInputReturns
  BY <1>6 DEF SetOnJpegCallback, RecvLoops, RecvTimesOut, RecvInputReturns
<1>7. CASE \E from \in Hosts \cup {Localhost} : RecvOther(from)
  BY <1>7 DEF RecvOther
<1>8. CASE RecvCopiesFn \/ RecvCallReturns
  BY <1>8 DEF RecvCopiesFn, RecvCallReturns
<1>9. CASE UNCHANGED vars
  BY <1>9 DEF vars
<1> QED BY <1>1, <1>2, <1>3, <1>4, <1>5, <1>6, <1>7, <1>8, <1>9 DEF Next

-----------------------------------------------------------------------------
(* The target is taken from the first host heard, at the moment it is.     *)

LEMMA HearKeepsTarget ==
  ASSUME TargetIsFirstHeard, initialized, initialized' = initialized,
         NEW host, host # Localhost, Hear(host)
  PROVE  TargetIsFirstHeard'
BY DEF TargetIsFirstHeard, get_target_ip, Hear, TakesFirst

LEMMA TargetStep == LifeOK /\ TargetIsFirstHeard /\ [Next]_vars => TargetIsFirstHeard'
<1> SUFFICES ASSUME LifeOK, TargetIsFirstHeard, [Next]_vars PROVE TargetIsFirstHeard' OBVIOUS
<1>1. CASE \E i \in 1 .. Len(net) : RecvChunk(i)
  <2>1. recv = "recv" /\ UNCHANGED lifecycle /\ Hear(Peer) BY <1>1 DEF RecvChunk
  <2> QED BY <2>1, HearKeepsTarget, HostsAssumption DEF LifeOK
<1>2. CASE \E from \in Hosts \cup {Localhost} : RecvOther(from)
  <2>1. PICK from \in Hosts \cup {Localhost} : RecvOther(from) BY <1>2
  <2>2. recv = "recv" /\ UNCHANGED lifecycle BY <2>1 DEF RecvOther
  <2>3. CASE Discarded(from)
    BY <2>1, <2>2, <2>3 DEF RecvOther, TargetIsFirstHeard, get_target_ip
  <2>4. CASE ~Discarded(from)
    BY <2>1, <2>2, <2>4, HearKeepsTarget DEF RecvOther, Discarded, LifeOK
  <2> QED BY <2>3, <2>4
<1>3. CASE InitServer \/ Deinit
  BY <1>3 DEF InitServer, Deinit, TargetIsFirstHeard, get_target_ip
<1>4. CASE UNCHANGED <<initialized, target>>
  BY <1>4 DEF TargetIsFirstHeard, get_target_ip
<1>5. \/ \E s \in Senders : SendJpeg(s) \/ SendChunk(s)
      \/ PeerRestarts \/ (\E i \in 1 .. Len(net) : Lose(i))
      \/ Start \/ Stop \/ StopJoins \/ SetOnJpegCallback \/ RecvLoops \/ RecvTimesOut
      \/ RecvInputReturns \/ RecvCopiesFn \/ RecvCallReturns \/ UNCHANGED vars
      => UNCHANGED <<initialized, target>>
  BY DEF SendJpeg, SendChunk, PeerRestarts, Lose, Start, Stop, StopJoins, SetOnJpegCallback,
     RecvLoops, RecvTimesOut, RecvInputReturns, RecvCopiesFn, RecvCallReturns, vars
<1> QED BY <1>1, <1>2, <1>3, <1>4, <1>5 DEF Next

-----------------------------------------------------------------------------
(* Chunks.  A packet belongs to a call of sendJpeg; the chunks that are     *)
(* kept and those of a frame are of calls with the same id, and their       *)
(* number is that of such a call.                                          *)

OfCall(p) ==
  /\ p.call \in 1 .. Len(sent) /\ p.fid = sent[p.call].fid
  /\ p.total = sent[p.call].total /\ p.idx \in 0 .. p.total - 1

HasId(c, id) == c \in 1 .. Len(sent) /\ sent[c].fid = id

WireOK ==
  /\ seq_jpeg \in Nat /\ sent \in Seq([fid : Nat, total : 1 .. MaxChunks])
  /\ sending \in [Senders -> Packet \cup {Idle}]
  /\ \A s \in Senders : sending[s] # Idle => OfCall(sending[s])
  /\ net \in Seq(Packet) /\ \A k \in 1 .. Len(net) : OfCall(net[k])

ChunksOK ==
  /\ \A i \in DOMAIN chunks : HasId(chunks[i], frame_id)
  /\ chunks # NoChunks => \E c \in 1 .. Len(sent) : HasId(c, frame_id) /\ sent[c].total = total

FrameOK ==
  frame \notin {NoFrame, Embedded} =>
    /\ \A i \in 1 .. Len(frame.parts) : HasId(frame.parts[i], frame.fid)
    /\ \E c \in 1 .. Len(sent) : HasId(c, frame.fid) /\ sent[c].total = Len(frame.parts)

PathOK == WireOK /\ ChunksOK /\ FrameOK

(* What is left of a sequence when one element is taken out: the elements   *)
(* after it come one place earlier.                                        *)
LEMMA RemoveAtShifts ==
  ASSUME NEW S, NEW seq \in Seq(S), NEW i \in 1 .. Len(seq)
  PROVE  /\ RemoveAt(seq, i) \in Seq(S) /\ Len(RemoveAt(seq, i)) = Len(seq) - 1
         /\ \A k \in 1 .. Len(seq) - 1 :
              RemoveAt(seq, i)[k] = IF k < i THEN seq[k] ELSE seq[k + 1]
<1> DEFINE a == SubSeq(seq, 1, i - 1)
           b == SubSeq(seq, i + 1, Len(seq))
<1>1. a \in Seq(S) /\ Len(a) = i - 1 /\ \A k \in 1 .. i - 1 : a[k] = seq[k]
      BY SubSeqProperties
<1>2. b \in Seq(S) /\ Len(b) = Len(seq) - i /\ \A k \in 1 .. Len(seq) - i : b[k] = seq[i + k]
      BY SubSeqProperties
<1> HIDE DEF a, b
<1>3. /\ a \o b \in Seq(S) /\ Len(a \o b) = Len(a) + Len(b)
      /\ \A k \in 1 .. Len(a) + Len(b) : (a \o b)[k] = IF k <= Len(a) THEN a[k] ELSE b[k - Len(a)]
      BY <1>1, <1>2, ConcatProperties
<1>4. ASSUME NEW k \in 1 .. Len(seq) - 1
      PROVE  (a \o b)[k] = IF k < i THEN seq[k] ELSE seq[k + 1]
  <2>1. CASE k < i BY <1>1, <1>2, <1>3, <2>1
  <2>2. CASE ~(k < i)
    <3>1. k - (i - 1) \in 1 .. Len(seq) - i BY <2>2
    <3>2. (a \o b)[k] = b[k - (i - 1)] BY <1>1, <1>2, <1>3, <2>2
    <3>3. i + (k - (i - 1)) = k + 1 /\ ~(k < i) BY <2>2
    <3>4. b[k - (i - 1)] = seq[k + 1] BY <1>2, <3>1, <3>3
    <3> QED BY <3>2, <3>3, <3>4
  <2> QED BY <2>1, <2>2
<1>5. Len(a \o b) = Len(seq) - 1 BY <1>1, <1>2, <1>3
<1> QED BY <1>3, <1>4, <1>5 DEF RemoveAt, a, b

LEMMA RemoveAtKeeps ==
  ASSUME NEW S, NEW seq \in Seq(S), NEW i \in 1 .. Len(seq)
  PROVE  /\ RemoveAt(seq, i) \in Seq(S)
         /\ \A k \in 1 .. Len(RemoveAt(seq, i)) :
              \E j \in 1 .. Len(seq) : RemoveAt(seq, i)[k] = seq[j]
<1> DEFINE left == RemoveAt(seq, i)
<1>1. Len(seq) \in Nat BY LenProperties
<1>2. /\ left \in Seq(S) /\ Len(left) = Len(seq) - 1
      /\ \A k \in 1 .. Len(seq) - 1 : left[k] = IF k < i THEN seq[k] ELSE seq[k + 1]
      BY RemoveAtShifts
<1> HIDE DEF left
<1>3. ASSUME NEW k \in 1 .. Len(left) PROVE \E j \in 1 .. Len(seq) : left[k] = seq[j]
  <2>1. k \in 1 .. Len(seq) /\ k + 1 \in 1 .. Len(seq) BY <1>1, <1>2
  <2> QED BY <1>2, <2>1
<1> QED BY <1>2, <1>3 DEF left

(* A call that begins changes nothing about the calls before it. *)
LEMMA SendJpegStep ==
  ASSUME PathOK, NEW s \in Senders, SendJpeg(s)
  PROVE  PathOK'
<1>1. PICK id \in FrameIds \cup {0}, n \in 1 .. MaxChunks :
        LET fid == IF id = 0 THEN seq_jpeg ELSE id IN
        /\ seq_jpeg' = IF id = 0 THEN seq_jpeg + 1 ELSE seq_jpeg
        /\ sending' = [sending EXCEPT ![s] =
                         [fid |-> fid, idx |-> 0, total |-> n, call |-> Len(sent) + 1]]
        /\ sent' = Append(sent, [fid |-> fid, total |-> n])
      BY DEF SendJpeg
<1> DEFINE fid == IF id = 0 THEN seq_jpeg ELSE id
<1>2. fid \in Nat /\ seq_jpeg' \in Nat BY <1>1, FrameIdsAssumption DEF PathOK, WireOK
<1>3. sent' \in Seq([fid : Nat, total : 1 .. MaxChunks]) /\ Len(sent') = Len(sent) + 1
      BY <1>1, <1>2 DEF PathOK, WireOK
<1>4. \A c \in 1 .. Len(sent) : sent'[c] = sent[c] BY <1>1 DEF PathOK, WireOK
<1>5. sent'[Len(sent) + 1] = [fid |-> fid, total |-> n] BY <1>1 DEF PathOK, WireOK
<1>6. /\ \A c \in 1 .. Len(sent) : c \in 1 .. Len(sent')
      /\ \A q : OfCall(q) => OfCall(q)'
      /\ \A c, x : HasId(c, x) => HasId(c, x)'
  <2>1. Len(sent) \in Nat BY DEF PathOK, WireOK
  <2>2. \A c \in 1 .. Len(sent) : c \in 1 .. Len(sent') BY <1>3, <2>1
  <2> QED BY <1>4, <2>2 DEF OfCall, HasId
<1>7. PICK p \in Packet : sending' = [sending EXCEPT ![s] = p] /\ OfCall(p)'
  <2>1. Len(sent) \in Nat /\ Len(sent) + 1 \in 1 .. MaxCalls /\ Len(sent) + 1 \in 1 .. Len(sent')
        BY <1>3, UdpBoundsAssumption DEF PathOK, WireOK, SendJpeg
  <2>2. PICK p : p = [fid |-> fid, idx |-> 0, total |-> n, call |-> Len(sent) + 1] OBVIOUS
  <2>3. p \in Packet BY <1>2, <2>1, <2>2 DEF Packet, Call
  <2>4. 0 \in 0 .. n - 1 BY UdpBoundsAssumption
  <2>5. OfCall(p)' BY <1>5, <2>1, <2>2, <2>4 DEF OfCall
  <2> QED BY <1>1, <2>2, <2>3, <2>5
<1>8. WireOK'
  <2>1. sending' \in [Senders -> Packet \cup {Idle}]
        BY <1>7 DEF PathOK, WireOK
  <2>2. (\A t \in Senders : sending[t] # Idle => OfCall(sending[t]))'
    <3> SUFFICES ASSUME NEW t \in Senders, sending'[t] # Idle PROVE OfCall(sending[t])'
        OBVIOUS
    <3>1. CASE t = s
      <4>1. sending'[t] = p BY <1>7, <3>1 DEF PathOK, WireOK
      <4> QED BY <1>7, <4>1 DEF OfCall
    <3>2. CASE t # s
      <4>1. sending'[t] = sending[t] BY <1>7, <3>2 DEF PathOK, WireOK
      <4>2. OfCall(sending[t]) BY <4>1 DEF PathOK, WireOK
      <4> QED BY <1>3, <1>4, <1>6, <4>1, <4>2 DEF OfCall
    <3> QED BY <3>1, <3>2
  <2>3. net' \in Seq(Packet) /\ (\A k \in 1 .. Len(net) : OfCall(net[k]))'
    <3>1. net \in Seq(Packet) /\ net' = net BY DEF PathOK, WireOK, SendJpeg
    <3>2. ASSUME NEW k \in 1 .. Len(net) PROVE OfCall(net[k])'
      <4>1. OfCall(net[k]) BY DEF PathOK, WireOK
      <4> QED BY <1>4, <1>6, <3>1, <4>1 DEF OfCall
    <3> QED BY <3>1, <3>2
  <2> QED BY <1>2, <1>3, <2>1, <2>2, <2>3 DEF WireOK
<1>9. UNCHANGED <<frame_id, total, chunks, frame>> BY DEF SendJpeg
<1>10. ChunksOK'
  <2>1. \A i \in DOMAIN chunks : HasId(chunks[i], frame_id)' BY <1>6, <1>9 DEF ChunksOK, PathOK
  <2>2. chunks # NoChunks => \E c \in 1 .. Len(sent') : HasId(c, frame_id)' /\ sent'[c].total = total
        BY <1>4, <1>6, <1>9 DEF ChunksOK, PathOK
  <2> QED BY <1>9, <2>1, <2>2 DEF ChunksOK
<1>11. FrameOK'
  <2> SUFFICES ASSUME frame \notin {NoFrame, Embedded}
               PROVE  /\ \A i \in 1 .. Len(frame.parts) : HasId(frame.parts[i], frame.fid)'
                      /\ \E c \in 1 .. Len(sent') :
                           HasId(c, frame.fid)' /\ sent'[c].total = Len(frame.parts)
      BY <1>9 DEF FrameOK
  <2> QED BY <1>4, <1>6, <1>9 DEF FrameOK, PathOK
<1> QED BY <1>8, <1>10, <1>11 DEF PathOK

(* The next packet of a call is one of that call. *)
LEMMA SendChunkStep ==
  ASSUME PathOK, NEW s \in Senders, SendChunk(s)
  PROVE  PathOK'
<1> DEFINE p == sending[s]
<1>1. /\ p # Idle /\ net' = Append(net, p) /\ seq_jpeg' = seq_jpeg + 1 /\ sent' = sent
      /\ sending' = [sending EXCEPT ![s] = IF IsLast(p) THEN Idle ELSE [p EXCEPT !.idx = @ + 1]]
      /\ UNCHANGED <<frame_id, total, chunks, frame>>
      BY DEF SendChunk
<1>2. p \in Packet /\ OfCall(p) BY <1>1 DEF PathOK, WireOK
<1>3. net' \in Seq(Packet) /\ \A k \in 1 .. Len(net') : OfCall(net'[k])
      BY <1>1, <1>2 DEF PathOK, WireOK
<1>4. ChunksOK' /\ FrameOK' BY <1>1 DEF PathOK, ChunksOK, FrameOK, HasId
<1>5. seq_jpeg' \in Nat /\ \A q : OfCall(q)' <=> OfCall(q) BY <1>1 DEF PathOK, WireOK, OfCall
<1>6. ASSUME sending' \in [Senders -> Packet \cup {Idle}],
             \A t \in Senders : sending'[t] # Idle => OfCall(sending'[t])
      PROVE  PathOK'
  <2>1. WireOK' BY <1>1, <1>3, <1>5, <1>6 DEF PathOK, WireOK, OfCall
  <2> QED BY <1>4, <2>1 DEF PathOK
<1>7. CASE IsLast(p)
  <2>1. /\ sending' \in [Senders -> Packet \cup {Idle}]
        /\ \A t \in Senders : sending'[t] # Idle => OfCall(sending'[t])
        BY <1>1, <1>7 DEF PathOK, WireOK
  <2> QED BY <1>6, <2>1
<1>8. CASE ~IsLast(p)
  <2> DEFINE q == [p EXCEPT !.idx = @ + 1]
  <2>1. q \in Packet /\ q.idx = p.idx + 1 /\ q.fid = p.fid /\ q.total = p.total /\ q.call = p.call
        BY <1>2 DEF Packet
  <2>2. OfCall(q)
        BY <1>2, <1>8, <2>1, UdpBoundsAssumption DEF OfCall, IsLast, Packet
  <2>3. sending' = [sending EXCEPT ![s] = q] BY <1>1, <1>8
  <2> HIDE DEF q
  <2>4. /\ sending' \in [Senders -> Packet \cup {Idle}]
        /\ \A t \in Senders : sending'[t] # Idle => OfCall(sending'[t])
        BY <2>1, <2>2, <2>3 DEF PathOK, WireOK
  <2> QED BY <1>6, <2>4
<1> QED BY <1>7, <1>8

(* A chunk of a call joins those with its id, or starts over; a frame comes *)
(* out with as many parts as its call has.                                 *)
LEMMA FeedStep ==
  ASSUME PathOK, NEW p \in Packet, OfCall(p), Feed(p), UNCHANGED sent
  PROVE  ChunksOK' /\ FrameOK'
<1> DEFINE base == IF StartsOver(p) THEN NoChunks ELSE chunks
           n    == IF StartsOver(p) THEN p.total ELSE total
           kept == [i \in DOMAIN base \cup {p.idx} |->
                      IF i = p.idx THEN p.call ELSE base[i]]
<1>1. \A i \in DOMAIN base : HasId(base[i], p.fid)
      BY DEF StartsOver, NoChunks, PathOK, ChunksOK
<1>2. \A i \in DOMAIN kept : HasId(kept[i], p.fid)
      BY <1>1 DEF OfCall, HasId
<1>3. \E c \in 1 .. Len(sent) : HasId(c, p.fid) /\ sent[c].total = n
      BY DEF OfCall, HasId, StartsOver, PathOK, ChunksOK
<1>4. n \in Nat
  <2>1. PICK c \in 1 .. Len(sent) : sent[c].total = n BY <1>3
  <2>2. sent \in Seq([fid : Nat, total : 1 .. MaxChunks]) BY DEF PathOK, WireOK
  <2>3. sent[c] \in [fid : Nat, total : 1 .. MaxChunks] BY <2>1, <2>2, ElementOfSeq
  <2> QED BY <2>1, <2>3, UdpBoundsAssumption
<1>5. frame_id' = p.fid BY DEF Feed
<1> HIDE DEF base, n, kept
<1>6. CASE ~Complete(n, kept)
  <2>1. chunks' = kept /\ total' = n /\ frame' = frame
        BY <1>6 DEF Feed, base, n, kept, NothingComplete
  <2> QED BY <1>2, <1>3, <1>5, <2>1 DEF ChunksOK, FrameOK, PathOK, HasId
<1>7. CASE Complete(n, kept) /\ DOMAIN kept # 0 .. n - 1
  <2>1. chunks' = NoChunks /\ frame' = frame
        BY <1>7 DEF Feed, base, n, kept, NothingComplete
  <2> QED BY <2>1 DEF ChunksOK, FrameOK, PathOK, HasId, NoChunks
<1>8. CASE Complete(n, kept) /\ DOMAIN kept = 0 .. n - 1
  <2> DEFINE parts == [i \in 1 .. n |-> kept[i - 1]]
  <2>1. chunks' = NoChunks /\ frame' = [fid |-> p.fid, parts |-> parts]
        BY <1>8 DEF Feed, base, n, kept
  <2>2. Len(parts) = n BY <1>4
  <2>3. \A i \in 1 .. n : HasId(parts[i], p.fid)
        BY <1>2, <1>4, <1>8
  <2> HIDE DEF parts
  <2>4. FrameOK' BY <1>3, <2>1, <2>2, <2>3 DEF FrameOK, HasId
  <2>5. ChunksOK' BY <2>1 DEF ChunksOK, NoChunks
  <2> QED BY <2>4, <2>5
<1> QED BY <1>6, <1>7, <1>8

LEMMA PathStep == PathOK /\ [Next]_vars => PathOK'
<1> SUFFICES ASSUME PathOK, [Next]_vars PROVE PathOK' OBVIOUS
<1>1. CASE \E s \in Senders : SendJpeg(s) \/ SendChunk(s)
  BY <1>1, SendJpegStep, SendChunkStep
<1>2. CASE PeerRestarts
  BY <1>2 DEF PeerRestarts, PathOK, WireOK, ChunksOK, FrameOK, OfCall, HasId
<1>3. CASE \E i \in 1 .. Len(net) : Lose(i)
  <2>1. PICK i \in 1 .. Len(net) : Lose(i) BY <1>3
  <2>2. net' \in Seq(Packet) /\ \A k \in 1 .. Len(net') : OfCall(net'[k])
        BY <2>1, RemoveAtKeeps DEF Lose, PathOK, WireOK
  <2> QED BY <2>1, <2>2 DEF Lose, PathOK, WireOK, ChunksOK, FrameOK, OfCall, HasId
<1>4. CASE \E i \in 1 .. Len(net) : RecvChunk(i)
  <2>1. PICK i \in 1 .. Len(net) : RecvChunk(i) BY <1>4
  <2>2. net' \in Seq(Packet) /\ \A k \in 1 .. Len(net') : OfCall(net'[k])
        BY <2>1, RemoveAtKeeps DEF RecvChunk, PathOK, WireOK
  <2>3. UNCHANGED peer /\ Feed(net[i]) BY <2>1 DEF RecvChunk
  <2>4. ChunksOK' /\ FrameOK' BY <2>3, FeedStep DEF PathOK, WireOK
  <2> QED BY <2>2, <2>3, <2>4 DEF PathOK, WireOK, OfCall
<1>5. CASE \E from \in Hosts \cup {Localhost} : RecvOther(from)
  BY <1>5 DEF RecvOther, PathOK, WireOK, ChunksOK, FrameOK, OfCall, HasId
<1>6. CASE RecvCopiesFn \/ RecvCallReturns
  BY <1>6 DEF RecvCopiesFn, RecvCallReturns, PathOK, WireOK, ChunksOK, FrameOK, OfCall, HasId
<1>7. CASE UNCHANGED <<peer, net, reassembly, frame>>
  BY <1>7 DEF PathOK, WireOK, ChunksOK, FrameOK, OfCall, HasId
<1>8. InitServer \/ Start \/ Stop \/ StopJoins \/ Deinit \/ SetOnJpegCallback \/ RecvLoops
      \/ RecvTimesOut \/ RecvInputReturns \/ UNCHANGED vars
      => UNCHANGED <<peer, net, reassembly, frame>>
  BY DEF InitServer, Start, Stop, StopJoins, Deinit, SetOnJpegCallback, RecvLoops,
     RecvTimesOut, RecvInputReturns, vars
<1> QED BY <1>1, <1>2, <1>3, <1>4, <1>5, <1>6, <1>7, <1>8 DEF Next

-----------------------------------------------------------------------------
(* While datagrams come in order and once, and calls one after the other   *)
(* with ids of their own (orderly): what is fed comes before what is on    *)
(* the wire, that in order, and before what is still to be sent.           *)
Earlier(p, q) == p.call < q.call \/ (p.call = q.call /\ p.idx < q.idx)
Comes(p)      == \A r \in received : r[1] < p.call \/ (r[1] = p.call /\ r[2] < p.idx)

InOrder ==
  /\ \A c, d \in 1 .. Len(sent) : sent[c].fid = sent[d].fid => c = d
  /\ \A s, t \in Senders : sending[s] # Idle /\ sending[t] # Idle => s = t
  /\ \A s \in Senders : sending[s] # Idle =>
       Comes(sending[s]) /\ \A k \in 1 .. Len(net) : Earlier(net[k], sending[s])
  /\ \A k \in 1 .. Len(net) :
       Comes(net[k]) /\ \A j \in 1 .. k - 1 : Earlier(net[j], net[k])

ReceivedOK ==
  /\ received \subseteq (1 .. Len(sent)) \X Nat
  /\ \A r \in received : r[2] \in 0 .. sent[r[1]].total - 1

(* The reassembler has the chunks of the last call of which any have come, *)
(* unless all have.                                                        *)
Had(c)       == {i \in 0 .. sent[c].total - 1 : <<c, i>> \in received}
LastHeard(c) == Had(c) # {} /\ \A d \in c + 1 .. Len(sent) : Had(d) = {}
Keeps(c)     == /\ frame_id = sent[c].fid /\ total = sent[c].total
                /\ DOMAIN chunks = Had(c) /\ \A i \in Had(c) : chunks[i] = c

ReassemblyOK ==
  IF chunks = NoChunks
  THEN \A c \in 1 .. Len(sent) : LastHeard(c) => Arrived(c)
  ELSE \E c \in 1 .. Len(sent) : LastHeard(c) /\ ~Arrived(c) /\ Keeps(c)

OrderOK ==
  orderly => /\ InOrder /\ ReceivedOK /\ ReassemblyOK
             /\ assembled \in Seq(Frame) /\ LossIsLocal

(* A call with an id of its own, begun while no other is, comes after all  *)
(* that is on the wire and has been fed.                                   *)
LEMMA OrderSendJpeg ==
  ASSUME PathOK, OrderOK, NEW s \in Senders, SendJpeg(s)
  PROVE  OrderOK'
<1> SUFFICES ASSUME orderly' PROVE (InOrder /\ ReceivedOK /\ ReassemblyOK
                                     /\ assembled \in Seq(Frame) /\ LossIsLocal)'
    BY DEF OrderOK
<1>1. PICK id \in FrameIds \cup {0}, n \in 1 .. MaxChunks :
        LET fid == IF id = 0 THEN seq_jpeg ELSE id IN
        /\ sending' = [sending EXCEPT ![s] =
                         [fid |-> fid, idx |-> 0, total |-> n, call |-> Len(sent) + 1]]
        /\ sent' = Append(sent, [fid |-> fid, total |-> n])
        /\ orderly' = /\ orderly
                      /\ \A t \in Senders : sending[t] = Idle
                      /\ \A i \in 1 .. Len(sent) : sent[i].fid # fid
      BY DEF SendJpeg
<1>20. PICK fid : fid = IF id = 0 THEN seq_jpeg ELSE id OBVIOUS
<1>21. PICK new : new = Len(sent) + 1 OBVIOUS
<1>22. PICK p : p = [fid |-> fid, idx |-> 0, total |-> n, call |-> new] OBVIOUS
<1>2. /\ orderly /\ (\A t \in Senders : sending[t] = Idle)
      /\ \A i \in 1 .. Len(sent) : sent[i].fid # fid
      BY <1>1, <1>20, Zenon
<1>3. InOrder /\ ReceivedOK /\ ReassemblyOK /\ assembled \in Seq(Frame) /\ LossIsLocal
      BY <1>2 DEF OrderOK
<1>4. sending' = [sending EXCEPT ![s] = p] /\ sent' = Append(sent, [fid |-> fid, total |-> n])
      BY <1>1, <1>20, <1>21, <1>22
<1>5. fid \in Nat /\ n \in Nat /\ n > 0
      BY <1>20, FrameIdsAssumption, UdpBoundsAssumption DEF PathOK, WireOK
<1>6. p.call = new /\ p.idx = 0 BY <1>22
<1>7. /\ Len(sent) \in Nat /\ Len(sent') = new
      /\ \A c \in 1 .. Len(sent) : sent'[c] = sent[c]
      /\ sent'[new].fid = fid /\ sent'[new].total = n
      BY <1>4, <1>5, <1>21 DEF PathOK, WireOK
<1>8. \A t \in Senders : t # s => sending'[t] = Idle
      BY <1>2, <1>4 DEF PathOK, WireOK
<1>9. sending'[s] = p BY <1>4 DEF PathOK, WireOK
<1>10. UNCHANGED <<net, received, frame_id, total, chunks, assembled>> BY DEF SendJpeg
<1>11. ReceivedOK' BY <1>3, <1>7, <1>10, <1>21 DEF ReceivedOK
<1>12. \A r \in received : r[1] < new BY <1>3, <1>7, <1>21 DEF ReceivedOK
<1>13. InOrder'
  <2>1. (\A c, d \in 1 .. Len(sent) : sent[c].fid = sent[d].fid => c = d)'
        BY <1>2, <1>3, <1>7, <1>21 DEF InOrder
  <2>2. (\A t, u \in Senders : sending[t] # Idle /\ sending[u] # Idle => t = u)'
        BY <1>8
  <2>3. Comes(p)' BY <1>6, <1>10, <1>12 DEF Comes
  <2>4. \A k \in 1 .. Len(net) : Earlier(net[k], p)
        BY <1>6, <1>7, <1>21 DEF Earlier, PathOK, WireOK, OfCall
  <2>5. (\A t \in Senders : sending[t] # Idle =>
           Comes(sending[t]) /\ \A k \in 1 .. Len(net) : Earlier(net[k], sending[t]))'
        BY <1>8, <1>9, <1>10, <2>3, <2>4 DEF Comes, Earlier
  <2>6. (\A k \in 1 .. Len(net) :
           Comes(net[k]) /\ \A j \in 1 .. k - 1 : Earlier(net[j], net[k]))'
        BY <1>3, <1>10 DEF InOrder, Comes, Earlier
  <2> QED BY <2>1, <2>2, <2>5, <2>6 DEF InOrder
<1>14. \A c \in 1 .. Len(sent) : (Had(c)' = Had(c)) /\ (Arrived(c)' <=> Arrived(c))
  BY <1>7, <1>10 DEF Had, Arrived
<1>15. Had(new)' = {} /\ ~Arrived(new)'
  <2>1. \A i : <<new, i>> \notin received' BY <1>7, <1>10, <1>12
  <2>2. Had(new)' = {} BY <2>1 DEF Had
  <2>3. 0 \in 0 .. sent'[new].total - 1 BY <1>5, <1>7
  <2> QED BY <2>1, <2>2, <2>3 DEF Arrived
<1>16. 1 .. Len(sent') = (1 .. Len(sent)) \cup {new} BY <1>7, <1>21
<1>17. ReassemblyOK'
  <2>1. \A c \in 1 .. Len(sent) : LastHeard(c)' <=> LastHeard(c)
    <3> SUFFICES ASSUME NEW c \in 1 .. Len(sent) PROVE LastHeard(c)' <=> LastHeard(c)
        OBVIOUS
    <3>1. c + 1 .. Len(sent') = (c + 1 .. Len(sent)) \cup {new} BY <1>7, <1>21
    <3>2. \A d \in c + 1 .. Len(sent) : Had(d)' = Had(d) BY <1>7, <1>14
    <3> QED BY <1>14, <1>15, <3>1, <3>2, Zenon DEF LastHeard
  <2>2. ~LastHeard(new)' BY <1>15 DEF LastHeard
  <2>3. \A c \in 1 .. Len(sent) : Keeps(c)' <=> Keeps(c)
        BY <1>7, <1>10, <1>14 DEF Keeps
  <2>4. CASE chunks = NoChunks
        BY <1>3, <1>10, <1>14, <1>16, <2>1, <2>2, <2>4 DEF ReassemblyOK
  <2>5. CASE chunks # NoChunks
        BY <1>3, <1>10, <1>14, <1>16, <2>1, <2>3, <2>5 DEF ReassemblyOK
  <2> QED BY <2>4, <2>5
<1>18. LossIsLocal'
  <2>1. {c \in 1 .. Len(sent) : Arrived(c)}' = {c \in 1 .. Len(sent) : Arrived(c)}
        BY <1>14, <1>15, <1>16
  <2>2. \A k \in 1 .. Len(assembled) : CallOf(assembled[k]) \in 1 .. Len(sent)
        BY <1>2, <1>3 DEF LossIsLocal
  <2>3. ASSUME NEW k \in 1 .. Len(assembled)
        PROVE  /\ IsPartOf(assembled[k], CallOf(assembled[k]))
               /\ Len(assembled[k].parts) = sent'[CallOf(assembled[k])].total
               /\ \A l \in 1 .. k - 1 : CallOf(assembled[l]) < CallOf(assembled[k])
        BY <1>2, <1>3, <1>7, <2>2 DEF LossIsLocal
  <2>4. {CallOf(assembled[k]) : k \in 1 .. Len(assembled)} = {c \in 1 .. Len(sent) : Arrived(c)}
        BY <1>2, <1>3 DEF LossIsLocal
  <2> QED BY <1>10, <2>1, <2>3, <2>4 DEF LossIsLocal, IsPartOf, CallOf
<1> QED BY <1>3, <1>10, <1>11, <1>13, <1>17, <1>18

(* The packet that is sent is the last on the wire; the next comes after it. *)
LEMMA OrderSendChunk ==
  ASSUME PathOK, OrderOK, NEW s \in Senders, SendChunk(s)
  PROVE  OrderOK'
<1> DEFINE p == sending[s]
<1>1. /\ p # Idle /\ net' = Append(net, p)
      /\ sending' = [sending EXCEPT ![s] = IF IsLast(p) THEN Idle ELSE [p EXCEPT !.idx = @ + 1]]
      /\ UNCHANGED <<sent, reassembly, orderly>>
      BY DEF SendChunk
<1> SUFFICES ASSUME orderly PROVE (InOrder /\ ReceivedOK /\ ReassemblyOK
                                    /\ assembled \in Seq(Frame) /\ LossIsLocal)'
    BY <1>1 DEF OrderOK
<1>2. InOrder /\ ReceivedOK /\ ReassemblyOK /\ assembled \in Seq(Frame) /\ LossIsLocal
      BY DEF OrderOK
<1>3. (ReceivedOK /\ ReassemblyOK /\ assembled \in Seq(Frame) /\ LossIsLocal)'
  <2>1. /\ UNCHANGED <<sent, received, chunks, frame_id, total, assembled>>
        /\ \A c : (Had(c)' = Had(c)) /\ (Arrived(c)' <=> Arrived(c)) BY <1>1 DEF Had, Arrived
  <2>2. ReassemblyOK' BY <1>2, <2>1 DEF ReassemblyOK, LastHeard, Keeps
  <2>3. LossIsLocal' BY <1>2, <2>1 DEF LossIsLocal
  <2> QED BY <1>2, <2>1, <2>2, <2>3 DEF ReceivedOK
<1>4. p \in Packet /\ OfCall(p) BY <1>1 DEF PathOK, WireOK
<1>5. /\ Comes(p) /\ \A k \in 1 .. Len(net) : Earlier(net[k], p)
      /\ \A t \in Senders : t # s => sending[t] = Idle
      BY <1>1, <1>2 DEF InOrder
<1> HIDE DEF p
<1>6. /\ Len(net) \in Nat /\ Len(net') = Len(net) + 1 /\ net'[Len(net) + 1] = p
      /\ \A k \in 1 .. Len(net) : net'[k] = net[k]
      BY <1>1, <1>4 DEF PathOK, WireOK
<1>7. \A q : Comes(q)' <=> Comes(q) BY <1>1 DEF Comes
<1>8. (\A k \in 1 .. Len(net) :
         Comes(net[k]) /\ \A j \in 1 .. k - 1 : Earlier(net[j], net[k]))'
  <2> SUFFICES ASSUME NEW k \in 1 .. Len(net) + 1
               PROVE  Comes(net'[k]) /\ \A j \in 1 .. k - 1 : Earlier(net'[j], net'[k])
      BY <1>6, <1>7 DEF Comes, Earlier
  <2>1. CASE k = Len(net) + 1 BY <1>5, <1>6, <2>1
  <2>2. CASE k # Len(net) + 1
    <3>1. k \in 1 .. Len(net) /\ \A j \in 1 .. k - 1 : j \in 1 .. Len(net) BY <1>6, <2>2
    <3> QED BY <1>2, <1>6, <3>1 DEF InOrder
  <2> QED BY <2>1, <2>2
<1>9. \A t \in Senders : t # s => sending'[t] = Idle BY <1>1, <1>5 DEF PathOK, WireOK
<1>10. ASSUME sending'[s] # Idle
       PROVE  Comes(sending'[s]) /\ \A k \in 1 .. Len(net) + 1 : Earlier(net'[k], sending'[s])
  <2>1. sending'[s] = IF IsLast(p) THEN Idle ELSE [p EXCEPT !.idx = @ + 1]
        BY <1>1 DEF PathOK, WireOK
  <2> DEFINE q == [p EXCEPT !.idx = @ + 1]
  <2>2. sending'[s] = q BY <1>10, <2>1
  <2>3. q.call = p.call /\ q.idx = p.idx + 1 /\ p.idx \in Nat /\ p.call \in Nat
        BY <1>4 DEF Packet, Call
  <2> HIDE DEF q
  <2>4. Earlier(p, q) BY <2>3 DEF Earlier
  <2>5. \A r \in received : r[1] \in Nat /\ r[2] \in Nat BY <1>2 DEF ReceivedOK
  <2>6. Comes(q) BY <1>5, <2>3, <2>5 DEF Comes
  <2>7. ASSUME NEW k \in 1 .. Len(net) PROVE Earlier(net[k], q)
    <3>1. net[k] \in Packet /\ Earlier(net[k], p) BY <1>5 DEF PathOK, WireOK
    <3>2. net[k].idx \in Nat /\ net[k].call \in Nat BY <3>1 DEF Packet, Call
    <3> QED BY <2>3, <3>1, <3>2 DEF Earlier
  <2> QED BY <1>6, <2>2, <2>4, <2>6, <2>7
<1>11. InOrder'
  <2>1. (\A t \in Senders : sending[t] # Idle =>
           Comes(sending[t]) /\ \A k \in 1 .. Len(net) : Earlier(net[k], sending[t]))'
    <3> SUFFICES ASSUME NEW t \in Senders, sending'[t] # Idle
                 PROVE  Comes(sending'[t]) /\ \A k \in 1 .. Len(net) + 1 : Earlier(net'[k], sending'[t])
        BY <1>6, <1>7 DEF Comes, Earlier
    <3>1. t = s BY <1>9
    <3> QED BY <1>10, <3>1
  <2>2. (\A t, u \in Senders : sending[t] # Idle /\ sending[u] # Idle => t = u)' BY <1>9
  <2>3. (\A c, d \in 1 .. Len(sent) : sent[c].fid = sent[d].fid => c = d)'
        BY <1>1, <1>2 DEF InOrder
  <2> QED BY <1>8, <2>1, <2>2, <2>3 DEF InOrder
<1> QED BY <1>3, <1>11


(* When a packet is gone from the wire, what is left is in order, if what  *)
(* has been fed comes before it.                                           *)
LEMMA OrderRemove ==
  ASSUME PathOK, InOrder, NEW i \in 1 .. Len(net), net' = RemoveAt(net, i),
         UNCHANGED <<sent, sending>>,
         \A q : \/ \E k \in 1 .. Len(net) : k # i /\ q = net[k]
                \/ \E s \in Senders : q = sending[s] /\ q # Idle
                => Comes(q)'
  PROVE  InOrder'
<1>1. net \in Seq(Packet) /\ Len(net) \in Nat BY DEF PathOK, WireOK
<1>2. /\ Len(net') = Len(net) - 1
      /\ \A k \in 1 .. Len(net) - 1 : net'[k] = IF k < i THEN net[k] ELSE net[k + 1]
      BY <1>1, RemoveAtShifts
<1>3. ASSUME NEW k \in 1 .. Len(net')
      PROVE  /\ \E m \in 1 .. Len(net) : m # i /\ net'[k] = net[m]
             /\ \A j \in 1 .. k - 1 : Earlier(net'[j], net'[k])
  <2>1. k \in 1 .. Len(net) /\ k + 1 \in 1 .. Len(net) BY <1>1, <1>2
  <2>2. CASE k < i
    <3>1. \A j \in 1 .. k : net'[j] = net[j]
      <4> SUFFICES ASSUME NEW j \in 1 .. k PROVE net'[j] = net[j] OBVIOUS
      <4>1. j \in 1 .. Len(net) - 1 /\ j < i BY <1>1, <1>2, <2>2
      <4> QED BY <1>2, <4>1
    <3> QED BY <2>1, <2>2, <3>1 DEF InOrder
  <2>3. CASE ~(k < i)
    <3>1. net'[k] = net[k + 1] /\ k + 1 # i BY <1>2, <2>3
    <3>2. ASSUME NEW j \in 1 .. k - 1 PROVE Earlier(net'[j], net'[k])
      <4>1. CASE j < i
        <5>1. net'[j] = net[j] /\ j \in 1 .. (k + 1) - 1 BY <1>1, <1>2, <4>1
        <5> QED BY <2>1, <3>1, <5>1 DEF InOrder
      <4>2. CASE ~(j < i)
        <5>1. net'[j] = net[j + 1] /\ j + 1 \in 1 .. (k + 1) - 1 BY <1>1, <1>2, <4>2
        <5> QED BY <2>1, <3>1, <5>1 DEF InOrder
      <4> QED BY <4>1, <4>2
    <3> QED BY <2>1, <3>1, <3>2
  <2> QED BY <2>2, <2>3
<1>4. (\A k \in 1 .. Len(net) :
         Comes(net[k]) /\ \A j \in 1 .. k - 1 : Earlier(net[j], net[k]))'
  <2>1. ASSUME NEW k \in 1 .. Len(net'), NEW q, q = net'[k] PROVE Comes(q)' BY <1>3, <2>1
  <2> QED BY <1>3, <2>1 DEF Earlier, Comes
<1>5. ASSUME NEW s \in Senders, sending[s] # Idle, NEW q, q = sending[s]
      PROVE  Comes(q)' /\ \A k \in 1 .. Len(net') : Earlier(net'[k], q)
      BY <1>3, <1>5 DEF InOrder
<1>6. (\A s \in Senders : sending[s] # Idle =>
         Comes(sending[s]) /\ \A k \in 1 .. Len(net) : Earlier(net[k], sending[s]))'
      BY <1>5 DEF Comes, Earlier
<1>7. (\A s, t \in Senders : sending[s] # Idle /\ sending[t] # Idle => s = t)'
      BY DEF InOrder
<1>8. (\A c, d \in 1 .. Len(sent) : sent[c].fid = sent[d].fid => c = d)'
      BY DEF InOrder
<1> QED BY <1>4, <1>6, <1>7, <1>8 DEF InOrder

(* The next chunk of a call, or the first of a later one, adds to the       *)
(* chunks of that call and to no others, and the frame comes out when it is *)
(* the last that was missing.                                              *)
LEMMA OrderFeed ==
  ASSUME PathOK, ReceivedOK, ReassemblyOK, assembled \in Seq(Frame), LossIsLocal,
         \A c, d \in 1 .. Len(sent) : sent[c].fid = sent[d].fid => c = d,
         NEW p \in Packet, OfCall(p), Comes(p), Feed(p), UNCHANGED sent, orderly, orderly'
  PROVE  (ReceivedOK /\ ReassemblyOK /\ assembled \in Seq(Frame) /\ LossIsLocal)'
<1> DEFINE base == IF StartsOver(p) THEN NoChunks ELSE chunks
           n    == IF StartsOver(p) THEN p.total ELSE total
           kept == [i \in DOMAIN base \cup {p.idx} |->
                      IF i = p.idx THEN p.call ELSE base[i]]
           f    == [fid |-> p.fid, parts |-> [i \in 1 .. n |-> kept[i - 1]]]
<1>1. received' = received \cup {<<p.call, p.idx>>} BY DEF Feed
<1>2. /\ p.call \in 1 .. Len(sent) /\ p.fid = sent[p.call].fid
      /\ p.total = sent[p.call].total /\ p.idx \in 0 .. p.total - 1
      BY DEF OfCall
<1>3. /\ p.idx \in Nat /\ p.call \in Nat /\ p.call \in Call /\ p.total \in Nat /\ p.fid \in Nat
      /\ Len(sent) \in Nat
      /\ \A r \in received : r[1] \in Nat /\ r[2] \in Nat
      BY UdpBoundsAssumption DEF Packet, Call, PathOK, WireOK, ReceivedOK
<1>4. <<p.call, p.idx>> \notin received /\ ~Arrived(p.call)
  <2>1. <<p.call, p.idx>> \notin received BY <1>3 DEF Comes
  <2> QED BY <1>2, <2>1 DEF Arrived
<1>5. \A c \in p.call + 1 .. Len(sent) : Had(c) = {}
  BY <1>3 DEF Comes, Had
<1>6. \A c \in 1 .. Len(sent) : c # p.call => (Had(c)' = Had(c)) /\ (Arrived(c)' <=> Arrived(c))
  BY <1>1 DEF Had, Arrived
<1>7. Had(p.call)' = Had(p.call) \cup {p.idx}
  BY <1>1, <1>2 DEF Had
<1>8. ReceivedOK' BY <1>1, <1>2, <1>3 DEF ReceivedOK
<1>9. /\ n = p.total /\ DOMAIN base = Had(p.call)
      /\ \A i \in Had(p.call) : base[i] = p.call
  <2>1. CASE chunks = NoChunks
    <3>1. StartsOver(p) BY <2>1 DEF StartsOver
    <3>2. LastHeard(p.call) => Arrived(p.call) BY <1>2, <2>1 DEF ReassemblyOK
    <3>3. Had(p.call) = {} BY <1>4, <1>5, <3>2 DEF LastHeard
    <3> QED BY <3>1, <3>3 DEF NoChunks
  <2>2. CASE chunks # NoChunks
    <3>1. PICK c \in 1 .. Len(sent) : LastHeard(c) /\ ~Arrived(c) /\ Keeps(c)
          BY <2>2 DEF ReassemblyOK
    <3>2. CASE c = p.call
      <4>1. ~StartsOver(p) BY <1>2, <2>2, <3>1, <3>2 DEF StartsOver, Keeps
      <4> QED BY <1>2, <3>1, <3>2, <4>1 DEF Keeps
    <3>3. CASE c # p.call
      <4>1. StartsOver(p) BY <1>2, <3>1, <3>3 DEF StartsOver, Keeps
      <4>2. c < p.call BY <1>3, <1>5, <3>1, <3>3 DEF LastHeard
      <4>3. Had(p.call) = {} BY <1>2, <1>3, <3>1, <4>2 DEF LastHeard
      <4> QED BY <4>1, <4>3 DEF NoChunks
    <3> QED BY <3>2, <3>3
  <2> QED BY <2>1, <2>2
<1> HIDE DEF base, n
<1>10. DOMAIN kept = Had(p.call)' /\ \A i \in Had(p.call)' : kept[i] = p.call
  BY <1>7, <1>9
<1>11. Arrived(p.call)' <=> DOMAIN kept = 0 .. n - 1
  BY <1>2, <1>9, <1>10 DEF Arrived, Had
<1>12. Complete(n, kept) <=> DOMAIN kept = 0 .. n - 1
  <2>1. DOMAIN kept \subseteq 0 .. n - 1 BY <1>2, <1>9, <1>10 DEF Had
  <2>2. IsFiniteSet(0 .. n - 1) /\ Cardinality(0 .. n - 1) = n
    <3>1. n \in Nat /\ n - 1 \in Int /\ 0 \in Int BY <1>3, <1>9
    <3>2. /\ IsFiniteSet(0 .. n - 1)
          /\ Cardinality(0 .. n - 1) = IF 0 > n - 1 THEN 0 ELSE (n - 1) - 0 + 1
          BY <3>1, FS_Interval
    <3> QED BY <3>1, <3>2
  <2>3. n = Cardinality(DOMAIN kept) => DOMAIN kept = 0 .. n - 1
        BY <2>1, <2>2, FS_Subset
  <2> QED BY <2>2, <2>3 DEF Complete
<1>13. frame_id' = p.fid BY DEF Feed
<1>14. LastHeard(p.call)' /\ \A c \in 1 .. Len(sent) : LastHeard(c)' => c = p.call
  <2>1. LastHeard(p.call)'
    <3>1. \A d \in p.call + 1 .. Len(sent') : d \in 1 .. Len(sent) /\ d # p.call BY <1>3
    <3>2. \A d \in p.call + 1 .. Len(sent') : Had(d)' = {} BY <1>5, <1>6, <3>1
    <3>3. Had(p.call)' # {} BY <1>7
    <3> QED BY <3>2, <3>3, Zenon DEF LastHeard
  <2>2. ASSUME NEW c \in 1 .. Len(sent), LastHeard(c)', c # p.call PROVE FALSE
    <3>1. Had(c) # {} BY <1>6, <2>2 DEF LastHeard
    <3>2. c < p.call BY <1>3, <1>5, <2>2, <3>1
    <3>3. Had(p.call)' # {} BY <1>7
    <3>4. p.call \in c + 1 .. Len(sent') BY <1>2, <1>3, <3>2
    <3> QED BY <2>2, <3>3, <3>4, Zenon DEF LastHeard
  <2> QED BY <2>1, <2>2
<1>15. CASE ~Complete(n, kept)
  <2>1. chunks' = kept /\ total' = n /\ assembled' = assembled
        BY <1>15 DEF Feed, base, n, NothingComplete
  <2> HIDE DEF kept
  <2>2. chunks' # NoChunks BY <1>7, <1>10, <2>1 DEF NoChunks
  <2>3. Keeps(p.call)' BY <1>2, <1>9, <1>10, <1>13, <2>1 DEF Keeps
  <2>4. ReassemblyOK' BY <1>2, <1>11, <1>12, <1>14, <1>15, <2>2, <2>3 DEF ReassemblyOK
  <2>5. {c \in 1 .. Len(sent) : Arrived(c)}' = {c \in 1 .. Len(sent) : Arrived(c)}
        BY <1>4, <1>6, <1>11, <1>12, <1>15
  <2>6. LossIsLocal'
    <3>1. {CallOf(assembled[k]) : k \in 1 .. Len(assembled)} = {c \in 1 .. Len(sent) : Arrived(c)}
          BY DEF LossIsLocal
    <3>2. \A k \in 1 .. Len(assembled) :
            /\ IsPartOf(assembled[k], CallOf(assembled[k]))
            /\ Len(assembled[k].parts) = sent[CallOf(assembled[k])].total
            /\ \A l \in 1 .. k - 1 : CallOf(assembled[l]) < CallOf(assembled[k])
          BY DEF LossIsLocal
    <3> QED BY <2>1, <2>5, <3>1, <3>2 DEF LossIsLocal, IsPartOf, CallOf
  <2> QED BY <1>8, <2>1, <2>4, <2>6
<1>16. CASE Complete(n, kept)
  <2>1. chunks' = NoChunks /\ assembled' = Append(assembled, f)
        BY <1>12, <1>16 DEF Feed, base, n
  <2>2. ReassemblyOK' BY <1>11, <1>12, <1>14, <1>16, <2>1 DEF ReassemblyOK
  <2>3. /\ f.fid = p.fid /\ Len(f.parts) = p.total /\ f.parts \in Seq(Call)
        /\ \A i \in 1 .. Len(f.parts) : f.parts[i] = p.call
    <3> HIDE DEF kept
    <3>1. n \in Nat BY <1>3, <1>9
    <3>2. \A i \in 0 .. n - 1 : kept[i] = p.call BY <1>10, <1>12, <1>16
    <3>3. \A i \in 1 .. n : kept[i - 1] = p.call BY <3>1, <3>2
    <3> DEFINE parts == [i \in 1 .. n |-> kept[i - 1]]
    <3>4. parts \in Seq(Call) /\ Len(parts) = p.total /\ \A i \in 1 .. p.total : parts[i] = p.call
      <4>1. parts \in [1 .. n -> Call] /\ \A i \in 1 .. n : parts[i] = p.call BY <1>3, <3>3
      <4> HIDE DEF parts
      <4>2. parts \in Seq(Call) BY <3>1, <4>1, SeqDef
      <4>3. Len(parts) = n BY <3>1, <4>1, <4>2, LenProperties
      <4> QED BY <1>9, <4>1, <4>2, <4>3
    <3>5. f.fid = p.fid /\ f.parts = parts OBVIOUS
    <3> HIDE DEF parts, f
    <3> QED BY <3>4, <3>5
  <2>4. f \in Frame /\ CallOf(f) = p.call /\ IsPartOf(f, p.call)
    <3>1. f \in Frame BY <1>3, <2>3 DEF Frame
    <3> HIDE DEF f
    <3>2. 1 \in 1 .. Len(f.parts) BY <1>2, <1>3, <2>3
    <3> QED BY <2>3, <3>1, <3>2 DEF CallOf, IsPartOf
  <2> HIDE DEF f, kept
  <2>5. /\ assembled' \in Seq(Frame) /\ Len(assembled') = Len(assembled) + 1
        /\ Len(assembled) \in Nat /\ assembled'[Len(assembled) + 1] = f
        /\ \A k \in 1 .. Len(assembled) : assembled'[k] = assembled[k]
        BY <2>1, <2>4
  <2>6. {c \in 1 .. Len(sent) : Arrived(c)}'
          = {c \in 1 .. Len(sent) : Arrived(c)} \cup {p.call}
        BY <1>2, <1>6, <1>11, <1>12, <1>16
  <2>7. ASSUME NEW k \in 1 .. Len(assembled) PROVE CallOf(assembled[k]) < p.call
    <3> DEFINE c == CallOf(assembled[k])
    <3>1. c \in 1 .. Len(sent) /\ Arrived(c) BY DEF LossIsLocal
    <3> HIDE DEF c
    <3>2. sent[c].total \in 1 .. MaxChunks
      <4>1. sent \in Seq([fid : Nat, total : 1 .. MaxChunks]) BY DEF PathOK, WireOK
      <4>2. sent[c] \in [fid : Nat, total : 1 .. MaxChunks] BY <3>1, <4>1, ElementOfSeq
      <4> QED BY <4>2
    <3>3. <<c, 0>> \in received BY <3>1, <3>2, UdpBoundsAssumption DEF Arrived
    <3>4. c <= p.call BY <3>1, <3>3, <1>3 DEF Comes
    <3>5. c < p.call BY <1>3, <1>4, <3>1, <3>4
    <3> QED BY <3>5 DEF c
  <2>8. {CallOf(assembled'[k]) : k \in 1 .. Len(assembled')}
          = {CallOf(assembled[k]) : k \in 1 .. Len(assembled)} \cup {p.call}
        BY <2>4, <2>5
  <2>9. ASSUME NEW k \in 1 .. Len(assembled')
        PROVE  /\ IsPartOf(assembled'[k], CallOf(assembled'[k]))
               /\ Len(assembled'[k].parts) = sent[CallOf(assembled'[k])].total
               /\ \A l \in 1 .. k - 1 : CallOf(assembled'[l]) < CallOf(assembled'[k])
    <3>1. CASE k = Len(assembled) + 1 BY <1>2, <2>3, <2>4, <2>5, <2>7, <3>1
    <3>2. CASE k # Len(assembled) + 1
      <4>1. k \in 1 .. Len(assembled) /\ \A l \in 1 .. k - 1 : l \in 1 .. Len(assembled)
            BY <2>5, <3>2
      <4> QED BY <2>5, <4>1 DEF LossIsLocal
    <3> QED BY <3>1, <3>2
  <2>10. LossIsLocal'
    <3>1. {CallOf(assembled[k]) : k \in 1 .. Len(assembled)} = {c \in 1 .. Len(sent) : Arrived(c)}
          BY DEF LossIsLocal
    <3> QED BY <2>6, <2>8, <2>9, <3>1 DEF LossIsLocal, IsPartOf, CallOf
  <2> QED BY <1>8, <2>2, <2>5, <2>10
<1> QED BY <1>15, <1>16


(* A datagram that overtakes another, or comes a second time, ends the     *)
(* order; one that does neither is the first on the wire, and goes.        *)
LEMMA OrderReceive ==
  ASSUME PathOK, OrderOK, NEW i \in 1 .. Len(net), RecvChunk(i)
  PROVE  OrderOK'
<1> SUFFICES ASSUME orderly' PROVE (InOrder /\ ReceivedOK /\ ReassemblyOK
                                     /\ assembled \in Seq(Frame) /\ LossIsLocal)'
    BY DEF OrderOK
<1>1. /\ orderly' = (orderly /\ i = 1 /\ net' # net) /\ net' \in {net, RemoveAt(net, i)}
      /\ Feed(net[i]) /\ UNCHANGED <<sent, sending>>
      BY DEF RecvChunk
<1>2. orderly /\ i = 1 /\ net' # net BY <1>1, Zenon
<1>3. InOrder /\ ReceivedOK /\ ReassemblyOK /\ assembled \in Seq(Frame) /\ LossIsLocal
      BY <1>2 DEF OrderOK
<1>4. PICK p : p = net[1] OBVIOUS
<1>5. p \in Packet /\ OfCall(p) /\ Comes(p) BY <1>2, <1>3, <1>4 DEF PathOK, WireOK, InOrder
<1>6. Feed(p) BY <1>1, <1>2, <1>4
<1>7. (ReceivedOK /\ ReassemblyOK /\ assembled \in Seq(Frame) /\ LossIsLocal)'
      BY <1>1, <1>2, <1>3, <1>5, <1>6, OrderFeed DEF InOrder
<1>8. received' = received \cup {<<p.call, p.idx>>} BY <1>6 DEF Feed
<1>9. ASSUME NEW q, Comes(q), Earlier(p, q) PROVE Comes(q)'
      BY <1>8, <1>9 DEF Comes, Earlier
<1>10. ASSUME NEW q, NEW k \in 1 .. Len(net), k # 1, q = net[k] PROVE Comes(q)'
  <2>1. Comes(q) /\ 1 \in 1 .. k - 1 BY <1>3, <1>10 DEF InOrder
  <2>2. Earlier(p, q) BY <1>3, <1>4, <1>10, <2>1 DEF InOrder
  <2> QED BY <1>9, <2>1, <2>2
<1>11. ASSUME NEW q, NEW s \in Senders, q = sending[s], q # Idle PROVE Comes(q)'
  <2>1. Comes(q) /\ Earlier(p, q) BY <1>2, <1>3, <1>4, <1>11 DEF InOrder
  <2> QED BY <1>9, <2>1
<1>12. InOrder'
  <2>1. net' = RemoveAt(net, 1) BY <1>1, <1>2
  <2>2. 1 \in 1 .. Len(net) BY <1>2
  <2> QED BY <1>1, <1>3, <1>10, <1>11, <2>1, <2>2, OrderRemove
<1> QED BY <1>7, <1>12

LEMMA OrderStep == PathOK /\ OrderOK /\ [Next]_vars => OrderOK'
<1> SUFFICES ASSUME PathOK, OrderOK, [Next]_vars PROVE OrderOK' OBVIOUS
<1>1. CASE \E s \in Senders : SendJpeg(s) \/ SendChunk(s)
  BY <1>1, OrderSendJpeg, OrderSendChunk
<1>2. CASE PeerRestarts
  <2>1. /\ sending' = [s \in Senders |-> Idle]
        /\ UNCHANGED <<sent, net, reassembly, orderly>>
        BY <1>2 DEF PeerRestarts
  <2>2. \A s \in Senders : sending'[s] = Idle BY <2>1
  <2>3. InOrder => InOrder' BY <2>1, <2>2 DEF InOrder, Comes, Earlier
  <2>4. UNCHANGED <<received, chunks, frame_id, total, assembled>> BY <2>1
  <2>5. ReassemblyOK' <=> ReassemblyOK BY <2>1 DEF ReassemblyOK, LastHeard, Keeps, Had, Arrived
  <2>6. LossIsLocal' <=> LossIsLocal BY <2>1 DEF LossIsLocal, Arrived, IsPartOf, CallOf
  <2> QED BY <2>1, <2>3, <2>5, <2>6 DEF OrderOK, ReceivedOK
<1>3. CASE \E i \in 1 .. Len(net) : Lose(i)
  <2>1. PICK i \in 1 .. Len(net) : Lose(i) BY <1>3
  <2>2. net' = RemoveAt(net, i) /\ UNCHANGED <<peer, reassembly, orderly>> BY <2>1 DEF Lose
  <2>3. \A q : Comes(q)' <=> Comes(q) BY <2>2 DEF Comes
  <2>4. ASSUME InOrder PROVE InOrder'
    <3>1. \A q : \/ \E k \in 1 .. Len(net) : k # i /\ q = net[k]
                 \/ \E s \in Senders : q = sending[s] /\ q # Idle
                 => Comes(q)'
          BY <2>3, <2>4 DEF InOrder
    <3> QED BY <2>2, <2>4, <3>1, OrderRemove
  <2>5. ReassemblyOK' <=> ReassemblyOK BY <2>2 DEF ReassemblyOK, LastHeard, Keeps, Had, Arrived
  <2>6. LossIsLocal' <=> LossIsLocal BY <2>2 DEF LossIsLocal, Arrived, IsPartOf, CallOf
  <2> QED BY <2>2, <2>4, <2>5, <2>6 DEF OrderOK, ReceivedOK
<1>4. CASE \E i \in 1 .. Len(net) : RecvChunk(i)
  BY <1>4, OrderReceive
<1>5. CASE UNCHANGED <<peer, net, reassembly, orderly>>
  <2>1. InOrder' <=> InOrder BY <1>5 DEF InOrder, Comes, Earlier
  <2>2. ReassemblyOK' <=> ReassemblyOK BY <1>5 DEF ReassemblyOK, LastHeard, Keeps, Had, Arrived
  <2>3. LossIsLocal' <=> LossIsLocal BY <1>5 DEF LossIsLocal, Arrived, IsPartOf, CallOf
  <2> QED BY <1>5, <2>1, <2>2, <2>3 DEF OrderOK, ReceivedOK
<1>6. (\E from \in Hosts \cup {Localhost} : RecvOther(from)) \/ RecvCopiesFn \/ RecvCallReturns
      \/ InitServer \/ Start \/ Stop \/ StopJoins \/ Deinit \/ SetOnJpegCallback \/ RecvLoops
      \/ RecvTimesOut \/ RecvInputReturns \/ UNCHANGED vars
      => UNCHANGED <<peer, net, reassembly, orderly>>
  BY DEF RecvOther, RecvCopiesFn, RecvCallReturns, InitServer, Start, Stop, StopJoins, Deinit,
     SetOnJpegCallback, RecvLoops, RecvTimesOut, RecvInputReturns, vars
<1> QED BY <1>1, <1>2, <1>3, <1>4, <1>5, <1>6 DEF Next

LEMMA InitOrder == Init => OrderOK
<1> SUFFICES ASSUME Init PROVE OrderOK OBVIOUS
<1>1. /\ sending = [s \in Senders |-> Idle] /\ net = <<>> /\ sent = <<>> /\ received = {}
      /\ assembled = <<>> /\ chunks = NoChunks
      BY DEF Init
<1>2. Len(sent) = 0 /\ Len(net) = 0 /\ Len(assembled) = 0 /\ assembled \in Seq(Frame)
      BY <1>1, EmptySeq
<1>3. InOrder /\ ReceivedOK BY <1>1, <1>2 DEF InOrder, ReceivedOK
<1>4. ReassemblyOK BY <1>1, <1>2 DEF ReassemblyOK
<1>5. LossIsLocal BY <1>2 DEF LossIsLocal
<1> QED BY <1>2, <1>3, <1>4, <1>5 DEF OrderOK


-----------------------------------------------------------------------------
(* Types: what the reassembler keeps is in the range of its packets.        *)

KeptTypes ==
  /\ frame_id \in Nat /\ total \in 0 .. MaxChunks
  /\ DOMAIN chunks \subseteq 0 .. MaxChunks - 1 /\ \A i \in DOMAIN chunks : chunks[i] \in Call
  /\ received \subseteq Call \X Nat /\ assembled \in Seq(Frame)
  /\ frame \in Frame \cup {NoFrame, Embedded}
  /\ recv \in {"none", "loop", "recv", "input", "copy", "call"}
  /\ recv = "copy" => frame # NoFrame

OtherTypes ==
  /\ restarts \in 0 .. MaxRestarts /\ Len(net) <= NetSize /\ orderly \in BOOLEAN
  /\ on_jpeg_fn \in Callbacks \cup {NoFn} /\ calling \in Callbacks \cup {NoFn}
  /\ target_ip \in {Peer, NoHost}
  /\ target_ip_discovered \in Hosts \cup {NoHost} /\ first \in Hosts \cup {NoHost}

LEMMA FeedTypes ==
  ASSUME KeptTypes, NEW p \in Packet, p.idx \in 0 .. p.total - 1, Feed(p)
  PROVE  KeptTypes'
<1> DEFINE base == IF StartsOver(p) THEN NoChunks ELSE chunks
           n    == IF StartsOver(p) THEN p.total ELSE total
           kept == [i \in DOMAIN base \cup {p.idx} |->
                      IF i = p.idx THEN p.call ELSE base[i]]
<1>1. /\ p.fid \in Nat /\ p.call \in Call /\ p.total \in 1 .. MaxChunks
      /\ p.idx \in Nat /\ p.idx \in 0 .. MaxChunks - 1
      BY UdpBoundsAssumption DEF Packet
<1>2. DOMAIN base \subseteq 0 .. MaxChunks - 1 /\ \A i \in DOMAIN base : base[i] \in Call
      BY DEF KeptTypes, NoChunks
<1>3. n \in 0 .. MaxChunks BY <1>1 DEF KeptTypes
<1> HIDE DEF base, n
<1>4. DOMAIN kept \subseteq 0 .. MaxChunks - 1 /\ \A i \in DOMAIN kept : kept[i] \in Call
      BY <1>1, <1>2
<1> HIDE DEF kept
<1>5. frame_id' \in Nat BY <1>1 DEF Feed
<1>6. received' \subseteq Call \X Nat
  <2>1. received' = received \cup {<<p.call, p.idx>>} \/ received' = {} BY DEF Feed
  <2> QED BY <1>1, <2>1 DEF KeptTypes
<1>7. <<>> \in Seq(Frame) OBVIOUS
<1>8. CASE ~Complete(n, kept)
  <2>1. /\ chunks' = kept /\ total' = n /\ frame' = frame /\ recv' = "loop"
        /\ assembled' \in {assembled, <<>>}
        BY <1>8 DEF Feed, base, n, kept, NothingComplete, RecvGoes
  <2> QED BY <1>3, <1>4, <1>5, <1>6, <1>7, <2>1 DEF KeptTypes
<1>9. CASE Complete(n, kept) /\ DOMAIN kept # 0 .. n - 1
  <2>1. /\ chunks' = NoChunks /\ total' = 0 /\ frame' = frame /\ recv' = "loop"
        /\ assembled' \in {assembled, <<>>}
        BY <1>9 DEF Feed, base, n, kept, NothingComplete, RecvGoes
  <2>2. assembled' \in Seq(Frame) BY <1>7, <2>1 DEF KeptTypes
  <2>3. frame' \in Frame \cup {NoFrame, Embedded} BY <2>1 DEF KeptTypes
  <2>4. total' \in 0 .. MaxChunks BY <2>1, UdpBoundsAssumption
  <2>5. DOMAIN chunks' = {} BY <2>1 DEF NoChunks
  <2> QED BY <1>5, <1>6, <2>1, <2>2, <2>3, <2>4, <2>5 DEF KeptTypes
<1>10. CASE Complete(n, kept) /\ DOMAIN kept = 0 .. n - 1
  <2> DEFINE parts == [i \in 1 .. n |-> kept[i - 1]]
             f     == [fid |-> p.fid, parts |-> parts]
  <2>1. /\ chunks' = NoChunks /\ total' = 0 /\ frame' = f /\ recv' = "copy"
        /\ assembled' \in {Append(assembled, f), <<>>}
        BY <1>10 DEF Feed, base, n, kept, RecvGoes
  <2>2. n \in Nat /\ \A i \in 1 .. n : kept[i - 1] \in Call BY <1>3, <1>4, <1>10
  <2>3. parts \in Seq(Call) BY <2>2
  <2> HIDE DEF parts
  <2>4. f \in Frame BY <1>1, <2>3 DEF Frame
  <2> HIDE DEF f
  <2>5. f # NoFrame BY <2>4, NoFrameAssumption
  <2>6. Append(assembled, f) \in Seq(Frame) BY <2>4, AppendProperties DEF KeptTypes
  <2>7. assembled' \in Seq(Frame) BY <1>7, <2>1, <2>6
  <2> QED BY <1>5, <1>6, <2>1, <2>4, <2>5, <2>7, UdpBoundsAssumption DEF KeptTypes, NoChunks
<1> QED BY <1>8, <1>9, <1>10

LEMMA KeptStep == PathOK /\ KeptTypes /\ [Next]_vars => KeptTypes'
<1> SUFFICES ASSUME PathOK, KeptTypes, [Next]_vars PROVE KeptTypes' OBVIOUS
<1>1. CASE \E i \in 1 .. Len(net) : RecvChunk(i)
  <2>1. PICK i \in 1 .. Len(net) : RecvChunk(i) BY <1>1
  <2>2. PICK p : p = net[i] OBVIOUS
  <2>3. p \in Packet /\ p.idx \in 0 .. p.total - 1
        BY <2>2, ElementOfSeq DEF PathOK, WireOK, OfCall
  <2>4. Feed(p) BY <2>1, <2>2 DEF RecvChunk
  <2> QED BY <2>3, <2>4, FeedTypes
<1>2. CASE UNCHANGED <<reassembly, frame, recv>>
  BY <1>2 DEF KeptTypes
<1>3. \/ \E s \in Senders : SendJpeg(s) \/ SendChunk(s)
      \/ PeerRestarts \/ (\E i \in 1 .. Len(net) : Lose(i))
      \/ InitServer \/ Stop \/ StopJoins \/ Deinit \/ SetOnJpegCallback \/ UNCHANGED vars
      => UNCHANGED <<reassembly, frame, recv>>
  BY DEF SendJpeg, SendChunk, PeerRestarts, Lose, InitServer, Stop, StopJoins, Deinit,
     SetOnJpegCallback, vars
<1>4. CASE Start \/ RecvLoops \/ RecvTimesOut \/ RecvInputReturns
  BY <1>4 DEF Start, RecvLoops, RecvTimesOut, RecvInputReturns, RecvGoes, KeptTypes
<1>5. CASE \E from \in Hosts \cup {Localhost} : RecvOther(from)
  <2>1. /\ UNCHANGED reassembly /\ recv' \in {"loop", "input"}
        /\ frame' = frame \/ frame' \in {NoFrame, Embedded}
        BY <1>5 DEF RecvOther, RecvGoes
  <2> QED BY <2>1 DEF KeptTypes
<1>6. CASE RecvCopiesFn \/ RecvCallReturns
  <2>1. /\ UNCHANGED reassembly /\ recv' \in {"loop", "call"} /\ frame' \in {frame, NoFrame}
        BY <1>6 DEF RecvCopiesFn, RecvCallReturns, RecvGoes
  <2> QED BY <2>1 DEF KeptTypes
<1> QED BY <1>1, <1>2, <1>3, <1>4, <1>5, <1>6 DEF Next

LEMMA HearTypes ==
  ASSUME OtherTypes, NEW host \in Hosts, Hear(host)
  PROVE  /\ target_ip' \in {Peer, NoHost}
         /\ target_ip_discovered' \in Hosts \cup {NoHost} /\ first' \in Hosts \cup {NoHost}
BY DEF Hear, OtherTypes

LEMMA OtherStep == PathOK /\ OtherTypes /\ [Next]_vars => OtherTypes'
<1> SUFFICES ASSUME PathOK, OtherTypes, [Next]_vars PROVE OtherTypes' OBVIOUS
<1>1. net \in Seq(Packet) /\ Len(net) \in Nat BY LenProperties DEF PathOK, WireOK
<1>2. CASE \E s \in Senders : SendJpeg(s)
  <2>1. UNCHANGED <<restarts, net, on_jpeg_fn, calling, target>> BY <1>2 DEF SendJpeg
  <2>2. orderly' \in BOOLEAN BY <1>2, Zenon DEF SendJpeg
  <2> QED BY <2>1, <2>2 DEF OtherTypes
<1>3. CASE \E s \in Senders : SendChunk(s)
  <2>1. PICK s \in Senders : SendChunk(s) BY <1>3
  <2>2. /\ Len(net) < NetSize /\ net' = Append(net, sending[s])
        /\ UNCHANGED <<restarts, orderly, on_jpeg_fn, calling, target>>
        BY <2>1 DEF SendChunk
  <2>3. sending[s] \in Packet BY <2>1 DEF SendChunk, PathOK, WireOK
  <2>4. Len(net') = Len(net) + 1 BY <1>1, <2>2, <2>3, AppendProperties
  <2>5. Len(net') <= NetSize BY <1>1, <2>2, <2>4, UdpBoundsAssumption
  <2> QED BY <2>2, <2>5 DEF OtherTypes
<1>4. CASE PeerRestarts
  BY <1>4, UdpBoundsAssumption DEF PeerRestarts, OtherTypes
<1>5. \A i \in 1 .. Len(net) : Len(RemoveAt(net, i)) <= NetSize
  <2> SUFFICES ASSUME NEW i \in 1 .. Len(net) PROVE Len(RemoveAt(net, i)) <= NetSize OBVIOUS
  <2>1. Len(RemoveAt(net, i)) = Len(net) - 1 BY <1>1, RemoveAtShifts
  <2> QED BY <1>1, <2>1, UdpBoundsAssumption DEF OtherTypes
<1>6. CASE \E i \in 1 .. Len(net) : Lose(i)
  BY <1>5, <1>6 DEF Lose, OtherTypes
<1>7. CASE \E i \in 1 .. Len(net) : RecvChunk(i)
  <2>1. PICK i \in 1 .. Len(net) : RecvChunk(i) BY <1>7
  <2>2. Len(net') <= NetSize BY <1>5, <2>1 DEF RecvChunk, OtherTypes
  <2>3. orderly' \in BOOLEAN BY <2>1, Zenon DEF RecvChunk
  <2>4. Hear(Peer) /\ Peer \in Hosts BY <2>1, HostsAssumption DEF RecvChunk
  <2>5. UNCHANGED <<restarts, on_jpeg_fn, calling>> BY <2>1 DEF RecvChunk
  <2> QED BY <2>2, <2>3, <2>4, <2>5, HearTypes DEF OtherTypes
<1>8. CASE \E from \in Hosts \cup {Localhost} : RecvOther(from)
  <2>1. PICK from \in Hosts \cup {Localhost} : RecvOther(from) BY <1>8
  <2>2. UNCHANGED <<restarts, net, orderly, on_jpeg_fn, calling>> BY <2>1 DEF RecvOther
  <2>3. CASE Discarded(from)
    BY <2>1, <2>2, <2>3 DEF RecvOther, OtherTypes
  <2>4. CASE ~Discarded(from)
    <3>1. from \in Hosts /\ Hear(from) BY <2>1, <2>4 DEF RecvOther, Discarded
    <3> QED BY <2>2, <3>1, HearTypes DEF OtherTypes
  <2> QED BY <2>3, <2>4
<1>9. CASE InitServer \/ Deinit \/ SetOnJpegCallback \/ RecvCopiesFn \/ RecvCallReturns
  <2>1. /\ UNCHANGED <<restarts, net, orderly, target_ip>>
        /\ on_jpeg_fn' = on_jpeg_fn \/ on_jpeg_fn' \in Callbacks \cup {NoFn}
        /\ calling' \in {calling, on_jpeg_fn, NoFn}
        /\ target_ip_discovered' \in {target_ip_discovered, NoHost} /\ first' \in {first, NoHost}
        BY <1>9 DEF InitServer, Deinit, SetOnJpegCallback, RecvCopiesFn, RecvCallReturns
  <2> QED BY <2>1 DEF OtherTypes
<1>10. CASE UNCHANGED <<restarts, net, orderly, on_jpeg_fn, calling, target>>
  BY <1>10 DEF OtherTypes
<1>11. Start \/ Stop \/ StopJoins \/ RecvLoops \/ RecvTimesOut \/ RecvInputReturns \/ UNCHANGED vars
       => UNCHANGED <<restarts, net, orderly, on_jpeg_fn, calling, target>>
  BY DEF Start, Stop, StopJoins, RecvLoops, RecvTimesOut, RecvInputReturns, vars
<1> QED BY <1>2, <1>3, <1>4, <1>6, <1>7, <1>8, <1>9, <1>10, <1>11 DEF Next

-----------------------------------------------------------------------------
(* The theorems. *)

IInv == LifeOK /\ TargetIsFirstHeard /\ PathOK /\ OrderOK

LEMMA InitIInv == Init => IInv
<1> SUFFICES ASSUME Init PROVE IInv OBVIOUS
<1>1. LifeOK /\ TargetIsFirstHeard BY DEF Init, LifeOK, TargetIsFirstHeard, get_target_ip
<1>2. WireOK BY DEF Init, WireOK
<1>3. ChunksOK /\ FrameOK BY DEF Init, ChunksOK, FrameOK, NoChunks
<1> QED BY <1>1, <1>2, <1>3, InitOrder DEF IInv, PathOK

LEMMA Invariant == Spec => []IInv
<1>1. IInv /\ [Next]_vars => IInv' BY LifeStep, TargetStep, PathStep, OrderStep DEF IInv
<1> QED BY <1>1, InitIInv, PTL DEF Spec

(* stop and deinit end the receive thread, and its callbacks with it, before *)
(* they return and before the socket is closed.                            *)
THEOREM StopEnds == Spec => []StopEndsReceiving
<1>1. IInv => StopEndsReceiving BY DEF IInv, LifeOK, StopEndsReceiving
<1> QED BY <1>1, Invariant, PTL

(* The target of what is sent (get_target_ip, maybe_set_discovered_ip).     *)
THEOREM TargetIsRight == Spec => []TargetIsFirstHeard
<1>1. IInv => TargetIsFirstHeard BY DEF IInv
<1> QED BY <1>1, Invariant, PTL

(* JpegReassembler, whatever the network does to any number of frames of   *)
(* any number of chunks: a frame whose id was used once is the one sent.   *)
THEOREM FramesIntact == Spec => []FrameIntact
<1>1. IInv => FrameIntact
  <2> SUFFICES ASSUME IInv, frame \notin {NoFrame, Embedded}
               PROVE  LET calls == {c \in 1 .. Len(sent) : sent[c].fid = frame.fid} IN
                      /\ calls # {}
                      /\ \A c \in calls : calls = {c} =>
                           IsPartOf(frame, c) /\ Len(frame.parts) = sent[c].total
      BY DEF FrameIntact
  <2> DEFINE calls == {c \in 1 .. Len(sent) : sent[c].fid = frame.fid}
  <2>1. \A c : HasId(c, frame.fid) <=> c \in calls BY DEF HasId
  <2>2. \A i \in 1 .. Len(frame.parts) : frame.parts[i] \in calls
        BY <2>1 DEF IInv, PathOK, FrameOK
  <2>3. \E c \in calls : sent[c].total = Len(frame.parts)
        BY <2>1 DEF IInv, PathOK, FrameOK
  <2> QED BY <2>2, <2>3 DEF IsPartOf
<1> QED BY <1>1, Invariant, PTL

(* As long as datagrams come in order and once and sendJpeg is called for  *)
(* one frame after the other, each with an id of its own: the frames that  *)
(* come out of JpegReassembler are exactly those of which every chunk has  *)
(* come, each once and in the order in which they were sent.               *)
THEOREM LossesAreLocal == Spec => []LossIsLocal
<1>1. IInv => LossIsLocal BY DEF IInv, OrderOK, LossIsLocal
<1> QED BY <1>1, Invariant, PTL

(* Every variable keeps its type, whatever comes from the network: a chunk *)
(* that is kept has a place in its frame, and a frame is one of its own.   *)
THEOREM TypeCorrect == Spec => []UdpTypeOK
<1> DEFINE Types == KeptTypes /\ OtherTypes
<1>1. Init => Types
  <2> SUFFICES ASSUME Init PROVE Types OBVIOUS
  <2>1. KeptTypes BY UdpBoundsAssumption DEF Init, KeptTypes, NoChunks
  <2>2. net = <<>> /\ Len(net) = 0 BY DEF Init
  <2>3. OtherTypes BY <2>2, UdpBoundsAssumption DEF Init, OtherTypes
  <2> QED BY <2>1, <2>3
<1>2. IInv /\ Types /\ [Next]_vars => Types' BY KeptStep, OtherStep DEF IInv
<1>3. IInv /\ Types => UdpTypeOK
  <2> SUFFICES ASSUME IInv, Types PROVE UdpTypeOK OBVIOUS
  <2>1. {initialized, running, sock, orderly} \subseteq BOOLEAN
        BY Zenon DEF IInv, LifeOK, OtherTypes
  <2>2. Range(chunks) \subseteq Call BY DEF Range, KeptTypes
  <2>3. api \in {"idle", "joining", "joiningToClose"} BY DEF IInv, LifeOK
  <2>4. /\ seq_jpeg \in Nat /\ sending \in [Senders -> Packet \cup {Idle}] /\ net \in Seq(Packet)
        /\ sent \in Seq([fid : Nat, total : 1 .. MaxChunks])
        BY DEF IInv, PathOK, WireOK
  <2> QED BY <2>1, <2>2, <2>3, <2>4 DEF UdpTypeOK, KeptTypes, OtherTypes
<1> HIDE DEF Types
<1> QED BY <1>1, <1>2, <1>3, Invariant, PTL DEF Spec
=============================================================================
