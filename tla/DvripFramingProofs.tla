------------------------- MODULE DvripFramingProofs -------------------------
(***************************************************************************)
(* The monitor looks for headers where headers begin, gives its callback   *)
(* whole frames, and loses no others than those that are broken, for any   *)
(* packets, of any length and number.  The invariant follows the place in  *)
(* the stream: At(k) says how much of which packet has come, FrameOK(k)    *)
(* what is in buf by then, and CountOK(k) which frames have come out.  A   *)
(* receive that failed leaves the stream anywhere, and FailedOK says that  *)
(* the monitor does not read on from there.                                *)
(* What is read as what keeps its type in any case, by an invariant of its *)
(* own, TypesOK.                                                           *)
(***************************************************************************)
EXTENDS DvripFraming, FiniteSetTheorems, SequenceTheorems, TLAPS

Packets == [type : {"first", "more", "jpeg", "unknown"}, len : 0 .. MaxLen, total : 0 .. MaxTotal]

SentOK ==
  /\ sent \in Seq(Packets) /\ Len(sent) <= MaxPackets /\ left \in Nat
  /\ \A k \in 1 .. Len(sent) : /\ sent[k].type # "more" => sent[k].len > 0
                               /\ sent[k].type = "first" => sent[k].total > 0

(* The pieces of a frame are as many as its first packet says, in packets  *)
(* that follow each other.                                                 *)
Size(b, last) == Cardinality(Pieces(b, last))

FramesSent ==
  \A b \in 1 .. Len(sent) : \A last \in b .. Len(sent) : Unbroken(b, last) =>
    /\ Size(b, last) <= sent[b].total
    /\ last = Len(sent) => Size(b, last) + left = sent[b].total
    /\ last < Len(sent) /\ Size(b, last) < sent[b].total => sent[last + 1].type = "more"

(* The first i units of packet k have been received, and no more.          *)
InHeader(k) ==
  \/ pkt = <<>> /\ next = <<k, 1>>
  \/ Len(pkt) = 1 /\ pkt[1] = <<k, 1>> /\ next = <<k, 2>> /\ k \in 1 .. Len(sent)
  \/ /\ Len(pkt) = 2 /\ pkt[1] = <<k, 1>> /\ pkt[2] = <<k, 2>> /\ k \in 1 .. Len(sent)
     /\ next = IF sent[k].len = 0 THEN <<k + 1, 1>> ELSE <<k, 3>>

InPayload(k) ==
  /\ k \in 1 .. Len(sent) /\ want = sent[k].len
  /\ \A n \in 1 .. Len(pkt) : pkt[n] = <<k, HeaderLen + n>>
  /\ next = IF Len(pkt) < want THEN <<k, HeaderLen + 1 + Len(pkt)>> ELSE <<k + 1, 1>>

Reading == monitor \in {"header", "payload"}

At(k) ==
  /\ monitor = "header" => want = HeaderLen /\ InHeader(k)
  /\ monitor = "payload" => InPayload(k)
  /\ ~Reading => next = <<k, 1>>

(* The frame in buf has come up to packet k: as much of it is missing as   *)
(* remaining says.                                                         *)
Content == {buf[n] : n \in 1 .. Len(buf)}
Ordered == \A n \in 1 .. Len(buf) : \A m \in 1 .. n - 1 : Precedes(buf[m], buf[n])

HasPart(k) ==
  /\ began \in 1 .. k - 1 /\ Unbroken(began, k - 1)
  /\ Len(buf) + remaining = sent[began].total /\ Size(began, k - 1) = Len(buf)
  /\ Content = Pieces(began, k - 1) /\ Ordered
  /\ \A d \in delivered : d < began

HasAll(k) ==
  /\ began \in 1 .. k - 1 /\ Content = Pieces(began, k - 1) /\ Ordered
  /\ Len(buf) = IF sent[began].type = "jpeg" THEN sent[began].len ELSE sent[began].total
  /\ \A d \in delivered : d < began

FrameOK(k) ==
  /\ remaining \in Nat /\ buf \in Seq(Nat \X Nat)
  /\ Reading /\ remaining # 0 => HasPart(k)
  /\ Reading /\ remaining = 0 => buf = <<>>
  /\ monitor = "calls" => HasAll(k)
  /\ delivered \subseteq 1 .. k - 1

(* Without a timeout: all whole frames have been delivered, up to the one  *)
(* that the callback is being given, and no other is unfinished than the   *)
(* one in buf.                                                             *)
Unfinished(k) == {b \in 1 .. k - 1 : Unbroken(b, k - 1) /\ Size(b, k - 1) < sent[b].total}

CountOK(k) ==
  /\ monitor # "ended" => Whole(k) = IF monitor = "calls" THEN delivered \union {began} ELSE delivered
  /\ Unfinished(k) = IF Reading /\ remaining # 0 THEN {began} ELSE {}

AlignedOK ==
  ~slow /\ ~recv_failed =>
    \E k \in 1 .. Len(sent) + 1 : At(k) /\ FrameOK(k) /\ (~disturbed => CountOK(k))

FailedOK == recv_failed => monitor \in {"nothing", "ended"}

CalmOK == slow \/ recv_failed => disturbed

PlaceOK == monitor \in {"header", "payload", "nothing", "calls", "ended"}

ReadOK == next \in Nat \X Nat /\ want \in Nat /\ pkt \in Seq(Nat \X Nat) /\ Len(pkt) <= want

IInv == SentOK /\ FramesSent /\ PlaceOK /\ ReadOK /\ FailedOK /\ CalmOK /\ AlignedOK

-----------------------------------------------------------------------------
(* The pieces of a packet, and of the packets up to the next.               *)

LEMMA SentTypes ==
  ASSUME SentOK, NEW k \in 1 .. Len(sent)
  PROVE  /\ k \in Nat /\ k <= MaxPackets /\ k <= Len(sent) /\ Len(sent) \in Nat
         /\ sent[k].len \in Nat /\ sent[k].len <= MaxLen /\ sent[k].total \in Nat
         /\ sent[k].type # "more" => sent[k].len > 0
         /\ sent[k].type = "first" => sent[k].total > 0
         /\ sent[k].type \in {"first", "more", "jpeg", "unknown"}
<1>1. sent[k] \in Packets /\ Len(sent) \in Nat BY DEF SentOK
<1> QED BY <1>1, FramingAssumption DEF Packets, SentOK

Video(k) == IF sent[k].type = "first" THEN sent[k].len - 1 ELSE sent[k].len

LEMMA PacketSize ==
  ASSUME SentOK, NEW k \in 1 .. Len(sent)
  PROVE  /\ PiecesOf(k) \in SUBSET Units /\ IsFiniteSet(PiecesOf(k))
         /\ Cardinality(PiecesOf(k)) = Video(k) /\ Video(k) \in Nat
         /\ \A u \in PiecesOf(k) : u[1] = k
<1> DEFINE skip == IF sent[k].type = "first" THEN HeaderLen + 1 ELSE HeaderLen
           top  == HeaderLen + sent[k].len
<1>1. /\ sent[k].len \in Nat /\ sent[k].len <= MaxLen /\ k \in 1 .. MaxPackets
      /\ sent[k].type = "first" => sent[k].len > 0
      BY SentTypes, FramingAssumption
<1>2. /\ skip + 1 \in Int /\ top \in Int /\ Video(k) \in Nat
      /\ skip + 1 .. top \subseteq 1 .. HeaderLen + MaxLen
      /\ (IF skip + 1 > top THEN 0 ELSE top - (skip + 1) + 1) = Video(k)
      BY <1>1, FramingAssumption DEF HeaderLen, Video
<1> HIDE DEF skip, top
<1>3. IsFiniteSet(skip + 1 .. top) /\ Cardinality(skip + 1 .. top) = Video(k)
      BY <1>2, FS_Interval
<1>4. IsFiniteSet({k}) /\ Cardinality({k}) = 1 BY FS_Singleton
<1>5. PiecesOf(k) = {k} \X (skip + 1 .. top) BY DEF PiecesOf, skip, top
<1>6. IsFiniteSet(PiecesOf(k)) /\ Cardinality(PiecesOf(k)) = 1 * Video(k)
  <2>1. PICK places : places = skip + 1 .. top OBVIOUS
  <2>2. IsFiniteSet(places) /\ Cardinality(places) = Video(k) /\ PiecesOf(k) = {k} \X places
        BY <1>3, <1>5, <2>1
  <2>3. IsFiniteSet({k} \X places) /\ Cardinality({k} \X places) = Cardinality({k}) * Cardinality(places)
        BY <1>4, <2>2, FS_Product
  <2> QED BY <1>4, <2>2, <2>3
<1>7. 1 * Video(k) = Video(k) BY <1>2
<1>8. PiecesOf(k) \in SUBSET Units BY <1>1, <1>2, <1>5 DEF Units
<1> QED BY <1>2, <1>5, <1>6, <1>7, <1>8

LEMMA PiecesFinite ==
  ASSUME SentOK, NEW b \in 1 .. Len(sent), NEW last \in Nat, last <= Len(sent)
  PROVE  IsFiniteSet(Pieces(b, last)) /\ Size(b, last) \in Nat
<1>1. Pieces(b, last) \in SUBSET Units
  <2>1. \A k \in b .. last : k \in 1 .. Len(sent) BY DEF SentOK
  <2>2. \A k \in b .. last : PiecesOf(k) \in SUBSET Units BY <2>1, PacketSize
  <2> QED BY <2>2 DEF Pieces
<1>2. IsFiniteSet(1 .. MaxPackets) /\ IsFiniteSet(1 .. HeaderLen + MaxLen)
      BY FramingAssumption, FS_Interval DEF HeaderLen
<1>3. IsFiniteSet(Units) BY <1>2, FS_Product DEF Units
<1> QED BY <1>1, <1>3, FS_Subset, FS_CardinalityType DEF Size

LEMMA PiecesOfOne ==
  ASSUME SentOK, NEW k \in 1 .. Len(sent)
  PROVE  Pieces(k, k) = PiecesOf(k) /\ Size(k, k) = Video(k)
<1>1. k .. k = {k} BY DEF SentOK
<1>2. Pieces(k, k) = PiecesOf(k) BY <1>1 DEF Pieces
<1> QED BY <1>2, PacketSize DEF Size

LEMMA PiecesGrow ==
  ASSUME SentOK, NEW b \in 1 .. Len(sent), NEW last \in b .. Len(sent), last + 1 <= Len(sent)
  PROVE  /\ Pieces(b, last + 1) = Pieces(b, last) \cup PiecesOf(last + 1)
         /\ Size(b, last + 1) = Size(b, last) + Video(last + 1)
         /\ \A u \in Pieces(b, last) : u[1] <= last
<1>1. /\ b .. last + 1 = (b .. last) \cup {last + 1} /\ last \in Nat
      /\ \A k \in b .. last : k \in 1 .. Len(sent) /\ k <= last
      BY DEF SentOK
<1>2. Pieces(b, last + 1) = Pieces(b, last) \cup PiecesOf(last + 1)
      BY <1>1 DEF Pieces
<1>3. \A k \in b .. last : \A u \in PiecesOf(k) : u[1] = k BY <1>1, PacketSize
<1>4. \A u \in Pieces(b, last) : u[1] <= last BY <1>1, <1>3 DEF Pieces
<1>5. last + 1 \in 1 .. Len(sent) BY <1>1
<1>6. \A u \in PiecesOf(last + 1) : u[1] = last + 1 BY <1>5, PacketSize
<1>7. Pieces(b, last) \cap PiecesOf(last + 1) = {} BY <1>1, <1>4, <1>6
<1>8. IsFiniteSet(Pieces(b, last)) /\ Size(b, last) \in Nat BY <1>1, PiecesFinite
<1>9. IsFiniteSet(PiecesOf(last + 1)) /\ Cardinality(PiecesOf(last + 1)) = Video(last + 1)
      BY <1>5, PacketSize
<1>10. Cardinality(Pieces(b, last) \cup PiecesOf(last + 1))
         = Cardinality(Pieces(b, last)) + Cardinality(PiecesOf(last + 1))
  <2>1. Cardinality(Pieces(b, last) \cup PiecesOf(last + 1))
          = Cardinality(Pieces(b, last)) + Cardinality(PiecesOf(last + 1)) - 0
        BY <1>7, <1>8, <1>9, FS_Union, FS_EmptySet
  <2> QED BY <1>8, <1>9, <2>1, PacketSize, <1>5 DEF Size
<1> QED BY <1>2, <1>4, <1>9, <1>10 DEF Size

(* The same of the packets after a step.                                    *)
LEMMA SizesNext ==
  (SentOK => /\ \A k \in 1 .. Len(sent) : Size(k, k) = Video(k)
             /\ \A b \in 1 .. Len(sent) : \A last \in b .. Len(sent) : last + 1 <= Len(sent) =>
                  Size(b, last + 1) = Size(b, last) + Video(last + 1))'
<1>1. SentOK => /\ \A k \in 1 .. Len(sent) : Size(k, k) = Video(k)
                /\ \A b \in 1 .. Len(sent) : \A last \in b .. Len(sent) : last + 1 <= Len(sent) =>
                     Size(b, last + 1) = Size(b, last) + Video(last + 1)
      BY PiecesOfOne, PiecesGrow
<1> QED BY <1>1, PTL

-----------------------------------------------------------------------------
(* More is sent: what has been received stays where it was.                 *)

LEMMA SendKeeps ==
  ASSUME IInv, SendFirst \/ SendMore \/ SendSingle \/ SendEmpty
  PROVE  IInv'
<1>1. PICK packet \in Packets, rest \in Nat :
        /\ Sends(packet, rest)
        /\ packet.type # "more" => left = 0 /\ packet.len > 0
        /\ packet.type = "first" =>
             /\ packet.total > 0 /\ packet.len - 1 <= packet.total
             /\ rest = packet.total - (packet.len - 1)
        /\ packet.type = "more" => packet.len <= left /\ rest = left - packet.len
  <2>0. left \in Nat BY DEF IInv, SentOK
  <2>1. CASE SendFirst
    <3>1. PICK len \in 1 .. MaxLen, total \in 1 .. MaxTotal :
            /\ left = 0 /\ len - 1 <= total /\ Sends(Packet("first", len, total), total - (len - 1))
      BY <2>1 DEF SendFirst
    <3>2. Packet("first", len, total) \in Packets /\ total - (len - 1) \in Nat
      BY <3>1, FramingAssumption DEF Packet, Packets
    <3> QED BY <3>1, <3>2, FramingAssumption DEF Packet
  <2>2. CASE SendMore
    <3>1. PICK len \in 1 .. MaxLen : len <= left /\ Sends(Packet("more", len, 0), left - len)
      BY <2>2 DEF SendMore
    <3>2. Packet("more", len, 0) \in Packets /\ left - len \in Nat
      BY <2>0, <3>1, FramingAssumption DEF Packet, Packets
    <3> QED BY <3>1, <3>2 DEF Packet
  <2>3. CASE SendSingle
    <3>1. PICK type \in {"jpeg", "unknown"}, len \in 1 .. MaxLen :
            left = 0 /\ Sends(Packet(type, len, 0), 0)
      BY <2>3 DEF SendSingle
    <3>2. Packet(type, len, 0) \in Packets
      BY FramingAssumption DEF Packet, Packets
    <3> QED BY <3>1, <3>2, FramingAssumption DEF Packet
  <2>4. CASE SendEmpty
    <3>1. Packet("more", 0, 0) \in Packets
      BY FramingAssumption DEF Packet, Packets
    <3> QED BY <2>0, <2>4, <3>1 DEF SendEmpty, Packet
  <2> QED BY <2>1, <2>2, <2>3, <2>4
<1>2. /\ sent' = Append(sent, packet) /\ left' = rest /\ Len(sent) < MaxPackets
      /\ UNCHANGED <<next, monitor, flags, want, pkt, remaining, buf, history>>
  BY <1>1 DEF Sends
<1>3. PICK new : new = Len(sent) + 1 OBVIOUS
<1>4. /\ sent \in Seq(Packets) /\ Len(sent) \in Nat /\ new \in Nat /\ sent' \in Seq(Packets)
      /\ Len(sent') = new /\ sent'[new] = packet
      /\ \A k \in 1 .. Len(sent) : sent'[k] = sent[k]
  BY <1>2, <1>3 DEF IInv, SentOK
<1>5. SentOK' /\ IInv /\ SentOK
  <2>1. \A k \in 1 .. Len(sent') : k \in 1 .. Len(sent) \/ k = new BY <1>3, <1>4
  <2> QED BY <1>1, <1>2, <1>3, <1>4, <2>1, FramingAssumption DEF IInv, SentOK
<1>6. /\ \A b \in 1 .. Len(sent) : \A last \in Nat : last <= Len(sent) =>
           /\ Size(b, last)' = Size(b, last) /\ Pieces(b, last)' = Pieces(b, last)
           /\ Unbroken(b, last)' <=> Unbroken(b, last)
  <2>1. \A k \in 1 .. Len(sent) : PiecesOf(k)' = PiecesOf(k) BY <1>4 DEF PiecesOf
  <2> SUFFICES ASSUME NEW b \in 1 .. Len(sent), NEW last \in Nat, last <= Len(sent)
               PROVE  /\ Size(b, last)' = Size(b, last) /\ Pieces(b, last)' = Pieces(b, last)
                      /\ Unbroken(b, last)' <=> Unbroken(b, last)
      OBVIOUS
  <2>2. \A k \in b .. last : k \in 1 .. Len(sent) BY <1>4
  <2>3. Pieces(b, last)' = Pieces(b, last) BY <2>1, <2>2 DEF Pieces
  <2>4. Unbroken(b, last)' <=> Unbroken(b, last) BY <1>4 DEF Unbroken
  <2> QED BY <2>3, <2>4 DEF Size
<1>7. FramesSent'
  <2> SUFFICES ASSUME NEW b \in 1 .. new, NEW last \in b .. new, Unbroken(b, last)'
               PROVE  /\ Size(b, last)' <= sent'[b].total
                      /\ last = new => Size(b, last)' + left' = sent'[b].total
                      /\ last < new /\ Size(b, last)' < sent'[b].total => sent'[last + 1].type = "more"
      BY <1>4 DEF FramesSent
  <2>1. CASE last # new
    <3>1. b \in 1 .. Len(sent) /\ last \in b .. Len(sent) /\ last \in Nat BY <1>3, <1>4, <2>1
    <3>2. Size(b, last)' = Size(b, last) /\ Unbroken(b, last) /\ sent'[b] = sent[b]
          BY <1>4, <1>6, <3>1
    <3>3. Size(b, last) <= sent[b].total BY <3>1, <3>2 DEF IInv, FramesSent
    <3>4. CASE last < Len(sent)
      <4>1. Size(b, last) < sent[b].total => sent[last + 1].type = "more"
            BY <3>1, <3>2, <3>4 DEF IInv, FramesSent
      <4>2. last + 1 \in 1 .. Len(sent) BY <1>4, <3>1, <3>4
      <4> QED BY <1>4, <2>1, <3>2, <3>3, <4>1, <4>2
    <3>5. CASE last = Len(sent)
      <4>1. Size(b, last) + left = sent[b].total BY <3>1, <3>2, <3>5 DEF IInv, FramesSent
      <4>2. Size(b, last) \in Nat /\ sent[b].total \in Nat /\ left \in Nat
            BY <1>5, <3>1, PiecesFinite, SentTypes DEF SentOK
      <4>3. Size(b, last) < sent[b].total => packet.type = "more" BY <1>1, <4>1, <4>2
      <4>4. last + 1 = new BY <1>3, <3>5
      <4> QED BY <1>4, <2>1, <3>2, <3>3, <4>3, <4>4
    <3> QED BY <1>4, <3>1, <3>4, <3>5
  <2>2. CASE last = new /\ b = new
    <3>1. packet.type = "first" BY <1>4, <2>2 DEF Unbroken
    <3>2. Size(new, new)' = Video(new)' BY <1>3, <1>4, <1>5, SizesNext
    <3>3. Video(new)' = packet.len - 1 BY <1>4, <3>1 DEF Video
    <3>4. packet.len \in Nat /\ packet.total \in Nat BY FramingAssumption DEF Packets
    <3> QED BY <1>1, <1>2, <1>4, <2>2, <3>1, <3>2, <3>3, <3>4
  <2>3. CASE last = new /\ b # new
    <3>0. PICK m : m = Len(sent) OBVIOUS
    <3>1. b \in 1 .. m /\ m \in b .. m /\ m \in Nat /\ new = m + 1 BY <1>3, <1>4, <2>3, <3>0
    <3>2. packet.type = "more" /\ packet.len > 0 /\ Unbroken(b, m)
      <4>1. new \in b + 1 .. new BY <3>1
      <4>2. packet.type = "more" /\ packet.len > 0 BY <1>4, <2>3, <4>1 DEF Unbroken
      <4>3. \A n \in b + 1 .. m : n \in b + 1 .. new BY <3>1
      <4>4. Unbroken(b, m)' BY <2>3, <4>3 DEF Unbroken
      <4> QED BY <1>6, <3>0, <3>1, <4>2, <4>4
    <3>3. sent'[b] = sent[b] BY <1>4, <3>0, <3>1
    <3>4. Size(b, m) + left = sent[b].total BY <3>0, <3>1, <3>2 DEF IInv, FramesSent
    <3>5. Size(b, new)' = Size(b, m) + packet.len
      <4>1. b \in 1 .. Len(sent') /\ m \in b .. Len(sent') /\ m + 1 <= Len(sent')
            BY <1>4, <3>1
      <4>2. Size(b, m + 1)' = Size(b, m)' + Video(m + 1)' BY <1>5, <4>1, SizesNext
      <4>3. Size(b, m)' = Size(b, m) BY <1>6, <3>0, <3>1
      <4>4. Video(m + 1)' = packet.len BY <1>4, <3>1, <3>2 DEF Video
      <4> QED BY <3>1, <4>2, <4>3, <4>4
    <3>6. Size(b, m) \in Nat /\ left \in Nat
          BY <1>5, <3>0, <3>1, PiecesFinite DEF SentOK
    <3>7. packet.len \in Nat BY FramingAssumption DEF Packets
    <3>8. sent[b].total \in Nat BY <1>5, <3>0, <3>1, SentTypes
    <3> QED BY <1>1, <1>2, <1>4, <2>3, <3>1, <3>2, <3>3, <3>4, <3>5, <3>6, <3>7, <3>8
  <2> QED BY <2>1, <2>2, <2>3
<1>8. ASSUME NEW k \in 1 .. new
      PROVE  /\ k \in 1 .. Len(sent') + 1 /\ (At(k) => At(k)') /\ (FrameOK(k) => FrameOK(k)')
             /\ Whole(k)' = Whole(k) /\ Unfinished(k)' = Unfinished(k)
  <2>1. \A b \in 1 .. k - 1 : b \in 1 .. Len(sent) /\ sent'[b] = sent[b] BY <1>3, <1>4
  <2>2. \A last : last <= k - 1 /\ last \in Nat => last <= Len(sent) BY <1>3, <1>4
  <2>3. At(k) => At(k)' BY <1>2, <1>3, <1>4 DEF At, Reading, InHeader, InPayload
  <2>4. FrameOK(k) => FrameOK(k)'
    <3>1. k - 1 \in Nat /\ k - 1 <= Len(sent) BY <1>3, <1>4
    <3>2. HasPart(k) => HasPart(k)'
          BY <1>2, <1>6, <2>1, <3>1 DEF HasPart, Content, Ordered, Precedes, history
    <3>3. HasAll(k) => HasAll(k)'
          BY <1>2, <1>6, <2>1, <3>1 DEF HasAll, Content, Ordered, Precedes, history
    <3> QED BY <1>2, <3>2, <3>3 DEF FrameOK, Reading, history
  <2>5. Whole(k)' = Whole(k)
    <3>1. \A b \in 1 .. k - 1 : \A last \in b .. k - 1 :
            /\ Unbroken(b, last)' <=> Unbroken(b, last)
            /\ Cardinality(Pieces(b, last))' = Cardinality(Pieces(b, last))
          BY <1>3, <1>4, <1>6
    <3> QED BY <2>1, <3>1 DEF Whole
  <2>6. Unfinished(k)' = Unfinished(k)
    <3>1. k - 1 \in Nat /\ k - 1 <= Len(sent) BY <1>3, <1>4
    <3> QED BY <1>6, <2>1, <3>1 DEF Unfinished
  <2> QED BY <1>3, <1>4, <2>3, <2>4, <2>5, <2>6
<1>9. AlignedOK'
  <2> SUFFICES ASSUME ~slow, ~recv_failed
               PROVE  \E k \in 1 .. Len(sent') + 1 : At(k)' /\ FrameOK(k)' /\ (~disturbed => CountOK(k)')
      BY <1>2 DEF AlignedOK, flags, history
  <2>1. PICK k \in 1 .. new : At(k) /\ FrameOK(k) /\ (~disturbed => CountOK(k))
        BY <1>3 DEF IInv, AlignedOK
  <2>2. CountOK(k) => CountOK(k)' BY <1>2, <1>8 DEF CountOK, Reading, history
  <2> QED BY <1>8, <2>1, <2>2
<1> QED BY <1>2, <1>5, <1>7, <1>9 DEF IInv, PlaceOK, ReadOK, FailedOK, CalmOK, flags, history

-----------------------------------------------------------------------------
(* A packet is received.                                                    *)

LEMMA SentStays == UNCHANGED dvr => (SentOK' <=> SentOK) /\ (FramesSent' <=> FramesSent)
BY DEF dvr, SentOK, FramesSent, Unbroken, Size, Pieces, PiecesOf

LEMMA FrameStays ==
  ASSUME UNCHANGED <<dvr, remaining, buf, history>>,
         monitor' = monitor \/ (Reading /\ Reading'), NEW k
  PROVE  (FrameOK(k)' <=> FrameOK(k)) /\ (CountOK(k)' <=> CountOK(k))
<1>1. (Reading' <=> Reading) /\ (monitor' = "calls" <=> monitor = "calls")
      /\ (monitor' = "ended" <=> monitor = "ended")
      BY DEF Reading
<1>2. FrameOK(k)' <=> FrameOK(k)
  <2>1. /\ Content' = Content /\ (Ordered' <=> Ordered) /\ began' = began /\ delivered' = delivered
        /\ buf' = buf /\ remaining' = remaining /\ sent' = sent
        BY DEF dvr, history, Content, Ordered
  <2>2. \A b, last : /\ Pieces(b, last)' = Pieces(b, last) /\ Size(b, last)' = Size(b, last)
                     /\ Unbroken(b, last)' <=> Unbroken(b, last)
        BY DEF dvr, Pieces, PiecesOf, Size, Unbroken
  <2>3. HasPart(k)' <=> HasPart(k) BY <2>1, <2>2 DEF HasPart
  <2>4. HasAll(k)' <=> HasAll(k) BY <2>1, <2>2 DEF HasAll
  <2> QED BY <1>1, <2>1, <2>3, <2>4 DEF FrameOK
<1>3. Whole(k)' = Whole(k) BY DEF dvr, Whole, Unbroken, Pieces, PiecesOf
<1>4. Unfinished(k)' = Unfinished(k) BY DEF dvr, Unfinished, Unbroken, Size, Pieces, PiecesOf
<1>5. CountOK(k)' <=> CountOK(k) BY <1>1, <1>3, <1>4 DEF history, CountOK
<1> QED BY <1>2, <1>5

LEMMA ReceiveKeeps ==
  ASSUME IInv, Receives
  PROVE  IInv'
<1> USE DEF HeaderLen
<1>1. /\ pkt' = Append(pkt, next) /\ next' = After(next) /\ Len(pkt) < want
      /\ Len(pkt) \in Nat /\ Len(pkt') = Len(pkt) + 1 /\ next[1] <= Len(sent)
      /\ \A n \in 1 .. Len(pkt) : pkt'[n] = pkt[n]
      /\ pkt'[Len(pkt) + 1] = next
      /\ UNCHANGED <<dvr, monitor, flags, want, remaining, buf, history>>
  BY DEF Receives, Receiving, IInv, ReadOK
<1>2. ReadOK'
  BY <1>1 DEF After, IInv, ReadOK
<1>3. ASSUME NEW k \in 1 .. Len(sent) + 1, want = HeaderLen, InHeader(k) PROVE InHeader(k)'
  <2>1. k \in 1 .. Len(sent) /\ sent[k].len \in Nat
    <3>1. CASE pkt = <<>> /\ next = <<k, 1>>
      BY <1>1, <3>1, SentTypes DEF IInv, SentOK
    <3>2. CASE k \in 1 .. Len(sent)
      BY <3>2, SentTypes DEF IInv
    <3> QED BY <1>3, <3>1, <3>2 DEF InHeader
  <2>2. CASE pkt = <<>> /\ next = <<k, 1>>
    BY <1>1, <2>1, <2>2 DEF InHeader, After, dvr
  <2>3. CASE Len(pkt) = 1 /\ pkt[1] = <<k, 1>> /\ next = <<k, 2>>
    <3>1. Len(pkt') = 2 /\ pkt'[1] = <<k, 1>> /\ pkt'[2] = <<k, 2>>
      BY <1>1, <2>3 DEF IInv, ReadOK
    <3>2. next' = IF sent[k].len = 0 THEN <<k + 1, 1>> ELSE <<k, 3>>
      BY <1>1, <2>1, <2>3 DEF After
    <3> QED BY <1>1, <2>1, <3>1, <3>2 DEF InHeader, dvr
  <2> QED BY <1>1, <1>3, <2>2, <2>3 DEF InHeader
<1>4. ASSUME NEW k \in 1 .. Len(sent) + 1, InPayload(k) PROVE InPayload(k)'
  <2>1. /\ k \in 1 .. Len(sent) /\ want = sent[k].len /\ want \in Nat
        /\ next = <<k, 3 + Len(pkt)>>
    BY <1>1, <1>4 DEF InPayload, IInv, ReadOK
  <2>2. next' = IF Len(pkt) + 1 < want THEN <<k, 4 + Len(pkt)>> ELSE <<k + 1, 1>>
    <3>1. /\ next[1] = k /\ next[2] = 3 + Len(pkt) /\ next' = After(next)
          /\ Len(pkt) \in Nat /\ sent[k].len \in Nat
      BY <1>1, <2>1
    <3>2. next[2] < HeaderLen + sent[k].len <=> Len(pkt) + 1 < want
      BY <2>1, <3>1
    <3>3. next[2] + 1 = 4 + Len(pkt)
      BY <3>1
    <3> QED BY <3>1, <3>2, <3>3 DEF After
  <2>3. \A n \in 1 .. Len(pkt') : pkt'[n] = <<k, HeaderLen + n>>
    <3> SUFFICES ASSUME NEW n \in 1 .. Len(pkt') PROVE pkt'[n] = <<k, HeaderLen + n>>
        OBVIOUS
    <3>1. CASE n \in 1 .. Len(pkt) BY <1>1, <1>4, <3>1 DEF InPayload
    <3>2. CASE n = Len(pkt) + 1 BY <1>1, <2>1, <3>2
    <3> QED BY <1>1, <3>1, <3>2
  <2>4. next' = IF Len(pkt') < want THEN <<k, HeaderLen + 1 + Len(pkt')>> ELSE <<k + 1, 1>>
    <3>1. HeaderLen + 1 + Len(pkt') = 4 + Len(pkt) BY <1>1
    <3> QED BY <1>1, <2>2, <3>1
  <2> QED BY <1>1, <2>1, <2>3, <2>4 DEF InPayload, dvr
<1>5. Reading BY DEF Receives, Receiving, Reading
<1>6. ASSUME NEW k \in 1 .. Len(sent) + 1, At(k) PROVE At(k)'
  BY <1>1, <1>3, <1>4, <1>5, <1>6 DEF At, Reading
<1>7. AlignedOK'
  BY <1>1, <1>6, FrameStays DEF IInv, AlignedOK, flags, history, dvr
<1> QED BY <1>1, <1>2, <1>7, SentStays DEF IInv, PlaceOK, FailedOK, CalmOK, dvr, flags, history

LEMMA HeaderKeeps ==
  ASSUME IInv, HasHeader
  PROVE  IInv'
<1> USE DEF HeaderLen
<1>1. PICK len \in Lengths : /\ monitor' = "payload" /\ want' = len /\ pkt' = <<>>
                             /\ UNCHANGED <<dvr, next, flags, remaining, buf, history>>
  BY DEF HasHeader, Asks
<1>2. len \in Nat
  <2>1. CASE \E k \in 1 .. Len(sent) : pkt = <<<<k, 1>>, <<k, 2>>>>
    <3>1. PICK k \in 1 .. Len(sent) : pkt = <<<<k, 1>>, <<k, 2>>>>
      BY <2>1
    <3>2. pkt[1][1] = k
      BY <3>1
    <3>3. len = sent[k].len
      BY <2>1, <3>2 DEF Lengths
    <3> QED BY <3>3, SentTypes DEF IInv
  <2>2. CASE ~\E k \in 1 .. Len(sent) : pkt = <<<<k, 1>>, <<k, 2>>>>
    BY <2>2, FramingAssumption DEF Lengths
  <2> QED BY <2>1, <2>2
<1>3. ASSUME NEW k \in 1 .. Len(sent) + 1, At(k) PROVE At(k)'
  <2>1. InHeader(k) /\ Len(pkt) = 2
    BY <1>3 DEF At, HasHeader, Received
  <2>2. /\ pkt = <<<<k, 1>>, <<k, 2>>>> /\ k \in 1 .. Len(sent)
        /\ next = IF sent[k].len = 0 THEN <<k + 1, 1>> ELSE <<k, 3>>
    <3>1. /\ Len(pkt) = 2 /\ pkt[1] = <<k, 1>> /\ pkt[2] = <<k, 2>> /\ k \in 1 .. Len(sent)
          /\ next = IF sent[k].len = 0 THEN <<k + 1, 1>> ELSE <<k, 3>>
      <4>1. pkt # <<>> /\ Len(pkt) # 1 BY <2>1
      <4> QED BY <2>1, <4>1 DEF InHeader
    <3>2. pkt = <<<<k, 1>>, <<k, 2>>>>
      BY <3>1 DEF IInv, ReadOK
    <3> QED BY <3>1, <3>2
  <2>3. len = sent[k].len
    BY <2>2 DEF Lengths
  <2>4. InPayload(k)' BY <1>1, <1>2, <2>2, <2>3 DEF InPayload, dvr
  <2> QED BY <1>1, <2>4 DEF At, Reading
<1>4. Reading /\ Reading' BY <1>1 DEF HasHeader, Received, Reading
<1>5. AlignedOK'
  BY <1>1, <1>3, <1>4, FrameStays DEF IInv, AlignedOK, flags, history, dvr
<1>6. ~recv_failed
  BY DEF IInv, FailedOK, HasHeader, Received
<1> QED BY <1>1, <1>2, <1>5, <1>6, SentStays
        DEF IInv, PlaceOK, ReadOK, FailedOK, CalmOK, dvr, flags, history

(* A receive that fails, or is cut, leaves nothing to be said of the place. *)
LEMMA FailKeeps ==
  ASSUME IInv, ReceiveFails \/ DeadlinePasses
  PROVE  IInv'
BY SentStays DEF ReceiveFails, DeadlinePasses, Receiving, IInv, PlaceOK, ReadOK, FailedOK, CalmOK,
   AlignedOK, flags

-----------------------------------------------------------------------------
(* One packet more: which frames it ends, and which it goes on with.         *)

LEMMA Continued ==
  ASSUME IInv, NEW k \in 1 .. Len(sent), NEW b \in 1 .. k - 1, Unbroken(b, k)
  PROVE  /\ sent[k].type = "more" /\ sent[k].len > 0
         /\ Size(b, k) = Size(b, k - 1) + sent[k].len
         /\ Size(b, k) <= sent[b].total
         /\ b \in Unfinished(k)
<1> USE DEF IInv
<1>1. /\ k \in Nat /\ k <= Len(sent) /\ Len(sent) \in Nat /\ b \in Nat
      /\ b \in 1 .. Len(sent) /\ k - 1 \in b .. Len(sent) /\ (k - 1) + 1 = k /\ k - 1 \in Nat
      /\ k \in b + 1 .. k /\ k \in b .. Len(sent)
      BY SentTypes
<1>2. sent[k].type = "more" /\ sent[k].len > 0 BY <1>1 DEF Unbroken
<1>3. Unbroken(b, k - 1) BY <1>1 DEF Unbroken
<1>4. Size(b, (k - 1) + 1) = Size(b, k - 1) + Video((k - 1) + 1) BY <1>1, PiecesGrow
<1>5. Size(b, k) = Size(b, k - 1) + sent[k].len BY <1>1, <1>2, <1>4 DEF Video
<1>6. Size(b, k) <= sent[b].total BY <1>1 DEF FramesSent
<1>7. Size(b, k - 1) \in Nat /\ sent[k].len \in Nat /\ sent[b].total \in Nat
      BY <1>1, PiecesFinite, SentTypes
<1>8. Size(b, k - 1) < sent[b].total BY <1>2, <1>5, <1>6, <1>7
<1> QED BY <1>2, <1>3, <1>5, <1>6, <1>8 DEF Unfinished

LEMMA WholeGrows ==
  ASSUME IInv, NEW k \in 1 .. Len(sent)
  PROVE  Whole(k + 1) = Whole(k) \cup {b \in 1 .. k :
           (b = k /\ sent[b].type = "jpeg") \/ (Unbroken(b, k) /\ Size(b, k) = sent[b].total)}
<1>1. k \in Nat /\ (k + 1) - 1 = k /\ k - 1 \in Nat BY SentTypes DEF IInv
<1>2. \A b \in 1 .. k - 1 : b .. k = (b .. k - 1) \cup {k} BY <1>1
<1>3. k .. k = {k} /\ 1 .. k = (1 .. k - 1) \cup {k} /\ k \notin 1 .. k - 1 BY <1>1
<1> DEFINE Ends(b, last) == Unbroken(b, last) /\ Size(b, last) = sent[b].total
<1>4. Whole(k + 1) = {b \in 1 .. k : sent[b].type = "jpeg" \/ \E last \in b .. k : Ends(b, last)}
      BY <1>1 DEF Whole, Size
<1>5. Whole(k) = {b \in 1 .. k - 1 : sent[b].type = "jpeg" \/ \E last \in b .. k - 1 : Ends(b, last)}
      BY DEF Whole, Size
<1> HIDE DEF Ends
<1>6. Whole(k + 1) = Whole(k) \cup {b \in 1 .. k : (b = k /\ sent[b].type = "jpeg") \/ Ends(b, k)}
      BY <1>2, <1>3, <1>4, <1>5
<1> QED BY <1>6 DEF Ends

LEMMA UnfinishedGrows ==
  ASSUME IInv, NEW k \in 1 .. Len(sent)
  PROVE  Unfinished(k + 1) = {b \in 1 .. k : Unbroken(b, k) /\ Size(b, k) < sent[b].total}
<1>1. (k + 1) - 1 = k BY SentTypes DEF IInv
<1> QED BY <1>1 DEF Unfinished

(* A packet that neither begins nor goes on with a frame.                   *)
LEMMA NothingNew ==
  ASSUME IInv, NEW k \in 1 .. Len(sent), sent[k].type \in {"more", "unknown"},
         sent[k].len = 0 \/ Unfinished(k) = {}
  PROVE  Whole(k + 1) = Whole(k) /\ Unfinished(k + 1) = {}
<1>1. \A b \in 1 .. k : ~Unbroken(b, k)
  <2> SUFFICES ASSUME NEW b \in 1 .. k, Unbroken(b, k) PROVE FALSE OBVIOUS
  <2>1. b # k BY DEF Unbroken
  <2>2. b \in 1 .. k - 1 BY <2>1, SentTypes DEF IInv
  <2> QED BY <2>2, Continued
<1>2. {b \in 1 .. k : (b = k /\ sent[b].type = "jpeg") \/ (Unbroken(b, k) /\ Size(b, k) = sent[b].total)} = {}
      BY <1>1
<1>3. {b \in 1 .. k : Unbroken(b, k) /\ Size(b, k) < sent[b].total} = {} BY <1>1
<1> QED BY <1>2, <1>3, WholeGrows, UnfinishedGrows

(* What is added to buf comes after what is there.                          *)
LEMMA BufGrows ==
  ASSUME buf \in Seq(Nat \X Nat), Ordered, NEW data \in Seq(Nat \X Nat), buf' = buf \o data,
         NEW k \in Nat, NEW skip \in Nat,
         \A n \in 1 .. Len(data) : data[n] = <<k, skip + n>>,
         \A u \in Content : u[1] < k
  PROVE  /\ buf' \in Seq(Nat \X Nat) /\ Len(buf') = Len(buf) + Len(data)
         /\ Ordered' /\ Content' = Content \cup ({k} \X (skip + 1 .. skip + Len(data)))
<1>1. /\ Len(buf) \in Nat /\ Len(data) \in Nat
      /\ buf' \in Seq(Nat \X Nat) /\ Len(buf') = Len(buf) + Len(data)
      /\ \A n \in 1 .. Len(buf) + Len(data) : buf'[n] = IF n <= Len(buf) THEN buf[n] ELSE data[n - Len(buf)]
      BY ConcatProperties, LenProperties
<1>2. \A n \in 1 .. Len(buf) : buf'[n] = buf[n] /\ n \in 1 .. Len(buf') BY <1>1
<1>3. \A n \in 1 .. Len(data) : buf'[Len(buf) + n] = <<k, skip + n>> /\ Len(buf) + n \in 1 .. Len(buf')
  <2> SUFFICES ASSUME NEW n \in 1 .. Len(data)
               PROVE  buf'[Len(buf) + n] = <<k, skip + n>> /\ Len(buf) + n \in 1 .. Len(buf')
      OBVIOUS
  <2>1. Len(buf) + n \in 1 .. Len(buf) + Len(data) /\ ~(Len(buf) + n <= Len(buf))
        /\ (Len(buf) + n) - Len(buf) = n BY <1>1
  <2>2. buf'[Len(buf) + n] = data[n] BY <1>1, <2>1
  <2> QED BY <1>1, <2>1, <2>2
<1>4. ASSUME NEW n \in 1 .. Len(buf')
      PROVE  n \in 1 .. Len(buf) \/ \E m \in 1 .. Len(data) : n = Len(buf) + m
  <2>1. n \in 1 .. Len(buf) \/ (n - Len(buf) \in 1 .. Len(data) /\ n = Len(buf) + (n - Len(buf)))
        BY <1>1
  <2> QED BY <2>1
<1>5. Content' = Content \cup ({k} \X (skip + 1 .. skip + Len(data)))
  <2>1. ASSUME NEW u \in Content' PROVE u \in Content \cup ({k} \X (skip + 1 .. skip + Len(data)))
    <3>1. PICK n \in 1 .. Len(buf') : u = buf'[n] BY <2>1 DEF Content
    <3>2. CASE n \in 1 .. Len(buf) BY <1>2, <3>1, <3>2 DEF Content
    <3>3. ASSUME NEW m \in 1 .. Len(data), n = Len(buf) + m
          PROVE  u \in {k} \X (skip + 1 .. skip + Len(data))
      <4>1. u = <<k, skip + m>> BY <1>3, <3>1, <3>3
      <4>2. skip + m \in skip + 1 .. skip + Len(data) BY <1>1
      <4> QED BY <4>1, <4>2
    <3> QED BY <1>4, <3>2, <3>3
  <2>2. ASSUME NEW u \in Content PROVE u \in Content' BY <1>2 DEF Content
  <2>3. ASSUME NEW u \in {k} \X (skip + 1 .. skip + Len(data)) PROVE u \in Content'
    <3>1. PICK at \in skip + 1 .. skip + Len(data) : u = <<k, at>> BY <2>3
    <3>2. PICK n \in 1 .. Len(data) : at = skip + n
      <4>1. at - skip \in 1 .. Len(data) /\ at = skip + (at - skip) BY <1>1, <3>1
      <4> QED BY <4>1
    <3>3. buf'[Len(buf) + n] = u BY <1>3, <3>1, <3>2
    <3> QED BY <1>3, <3>2, <3>3 DEF Content
  <2> QED BY <2>1, <2>2, <2>3
<1>6. Ordered'
  <2> SUFFICES ASSUME NEW n \in 1 .. Len(buf'), NEW m \in 1 .. n - 1
               PROVE  Precedes(buf'[m], buf'[n])
      BY DEF Ordered, Precedes
  <2>1. CASE n \in 1 .. Len(buf)
    <3>1. m \in 1 .. Len(buf) BY <1>1, <2>1
    <3>2. buf'[m] = buf[m] /\ buf'[n] = buf[n] BY <1>2, <2>1, <3>1
    <3> QED BY <2>1, <3>2 DEF Ordered
  <2>2. ASSUME NEW i \in 1 .. Len(data), n = Len(buf) + i PROVE Precedes(buf'[m], buf'[n])
    <3>1. buf'[n] = <<k, skip + i>> BY <1>3, <2>2
    <3>2. CASE m \in 1 .. Len(buf)
      <4>1. buf'[m] = buf[m] /\ buf[m] \in Content BY <1>2, <3>2 DEF Content
      <4>2. buf'[m][1] < k BY <4>1
      <4>3. buf'[n][1] = k BY <3>1
      <4> QED BY <4>2, <4>3 DEF Precedes
    <3>3. ASSUME NEW j \in 1 .. Len(data), m = Len(buf) + j PROVE Precedes(buf'[m], buf'[n])
      <4>1. buf'[m] = <<k, skip + j>> BY <1>3, <3>3
      <4>2. j < i
        <5>1. Len(buf) + j <= (Len(buf) + i) - 1 /\ i \in Nat /\ j \in Nat BY <1>1, <2>2, <3>3
        <5> QED BY <1>1, <5>1
      <4>3. skip + j < skip + i BY <1>1, <4>2
      <4> QED BY <3>1, <4>1, <4>3 DEF Precedes
    <3>4. m \in 1 .. Len(buf') BY <1>1
    <3> QED BY <1>4, <3>2, <3>3, <3>4
  <2> QED BY <1>4, <2>1, <2>2
<1> QED BY <1>1, <1>5, <1>6

-----------------------------------------------------------------------------
(* What has been received as payload is packet k, and the next packet is    *)
(* k + 1.                                                                   *)

LEMMA PayloadEnds ==
  ASSUME IInv, Received("payload"), NEW k \in 1 .. Len(sent) + 1, At(k)
  PROVE  /\ k \in 1 .. Len(sent) /\ k + 1 \in 1 .. Len(sent) + 1 /\ next = <<k + 1, 1>>
         /\ Len(pkt) = sent[k].len /\ want = sent[k].len /\ want \in Nat
         /\ pkt \in Seq(Nat \X Nat) /\ \A n \in 1 .. Len(pkt) : pkt[n] = <<k, HeaderLen + n>>
<1>1. InPayload(k) BY DEF At, Received
<1>2. ~(Len(pkt) < want) /\ Len(pkt) = want BY DEF Received, IInv, ReadOK
<1>3. k + 1 \in 1 .. Len(sent) + 1 BY <1>1, SentTypes DEF InPayload, IInv
<1> QED BY <1>1, <1>2, <1>3 DEF InPayload, IInv, ReadOK

LEMMA RestToCome ==
  ASSUME NEW size \in Nat, NEW all \in Nat, NEW total \in Nat, NEW len \in Nat,
         size + total = all + len, len < total
  PROVE  size < all /\ size + (total - len) = all
OBVIOUS

(* The packet belongs to the frame that begins at b: the frame is whole now, *)
(* or more of it is to come, or it is given up.                             *)
LEMMA AddsKeeps ==
  ASSUME IInv, NEW k \in 1 .. Len(sent), NEW b \in 1 .. k, NEW data, NEW total \in Nat,
         Adds(data, total), UNCHANGED <<dvr, delivered>>, began' = b, Len(data) \in Nat,
         Unbroken(b, k), buf' \in Seq(Nat \X Nat), Ordered', Content' = Pieces(b, k),
         Len(buf') = Size(b, k), Size(b, k) + total = sent[b].total + Len(data), Len(data) # 0 \/ b = k,
         delivered \subseteq 1 .. k - 1, \A d \in delivered : d < b,
         ~disturbed => Whole(k) = delivered /\ Unfinished(k) \subseteq {b}
  PROVE  FrameOK(k + 1)' /\ (~disturbed' => CountOK(k + 1)')
<1>1. /\ k \in Nat /\ b \in Nat /\ b \in 1 .. Len(sent) /\ k \in b .. Len(sent) /\ k <= Len(sent)
      /\ (k + 1) - 1 = k /\ sent[b].total \in Nat
      BY SentTypes DEF IInv
<1>2. Size(b, k) <= sent[b].total /\ Size(b, k) \in Nat BY <1>1, PiecesFinite DEF IInv, FramesSent
<1>3. /\ sent' = sent
      /\ \A c, last : /\ Pieces(c, last)' = Pieces(c, last) /\ Size(c, last)' = Size(c, last)
                      /\ Unbroken(c, last)' <=> Unbroken(c, last)
      BY DEF dvr, Pieces, PiecesOf, Size, Unbroken
<1>4. Whole(k + 1)' = Whole(k + 1) /\ Unfinished(k + 1)' = Unfinished(k + 1)
  <2>1. Whole(k + 1)' = Whole(k + 1) BY <1>3 DEF Whole
  <2>2. Unfinished(k + 1)' = Unfinished(k + 1) BY <1>3 DEF Unfinished
  <2> QED BY <2>1, <2>2
<1>5. sent[b].type = "first" BY DEF Unbroken
<1>6. delivered' \subseteq 1 .. k /\ (\A d \in delivered' : d < b) /\ began' = b
      BY <1>1
<1>7. ASSUME ~disturbed, NEW c \in 1 .. k, Unbroken(c, k) PROVE c = b
  <2>1. CASE c = k
    <3>1. sent[k].type = "first" BY <1>7, <2>1 DEF Unbroken
    <3>2. ~(b \in 1 .. k - 1) BY <3>1, Continued
    <3> QED BY <1>1, <2>1, <3>2
  <2>2. CASE c # k
    <3>1. c \in 1 .. k - 1 BY <1>1, <2>2
    <3> QED BY <1>7, <3>1, Continued
  <2> QED BY <2>1, <2>2
<1>8. CASE Completes(data, total)
  <2>1. monitor' = "calls" /\ remaining' = 0 /\ disturbed' = disturbed BY <1>8 DEF Adds
  <2>2. Size(b, k) = sent[b].total BY <1>1, <1>2, <1>8 DEF Completes
  <2>3. HasAll(k + 1)'
        BY <1>1, <1>3, <1>5, <1>6, <2>2 DEF HasAll, Content
  <2>4. FrameOK(k + 1)' BY <1>6, <2>1, <2>3 DEF FrameOK, Reading
  <2>5. ASSUME ~disturbed PROVE Whole(k + 1) = delivered \cup {b} /\ Unfinished(k + 1) = {}
    <3>1. {c \in 1 .. k : (c = k /\ sent[c].type = "jpeg") \/ (Unbroken(c, k) /\ Size(c, k) = sent[c].total)} = {b}
      <4>1. sent[k].type # "jpeg"
        <5>1. CASE b = k BY <1>5, <5>1
        <5>2. CASE b # k BY <1>1, <5>2, Continued
        <5> QED BY <5>1, <5>2
      <4> QED BY <1>7, <2>2, <2>5, <4>1
    <3>2. {c \in 1 .. k : Unbroken(c, k) /\ Size(c, k) < sent[c].total} = {}
          BY <1>2, <1>7, <2>2, <2>5
    <3> QED BY <2>5, <3>1, <3>2, WholeGrows, UnfinishedGrows
  <2> QED BY <1>4, <2>1, <2>4, <2>5 DEF CountOK, Reading
<1>9. CASE ~Completes(data, total)
  <2>1. /\ remaining' = total - Len(data) /\ total - Len(data) \in Nat \ {0}
        /\ \/ monitor' = "header" /\ disturbed' = disturbed
           \/ monitor' = "nothing" /\ disturbed'
        BY <1>9 DEF Adds, Completes, Asks
  <2>2. Size(b, k) < sent[b].total /\ Size(b, k) + remaining' = sent[b].total
    <3>1. /\ Size(b, k) + total = sent[b].total + Len(data) /\ Len(data) < total
          /\ Size(b, k) \in Nat /\ sent[b].total \in Nat /\ Len(data) \in Nat
          BY <1>1, <1>2, <2>1
    <3>2. PICK len \in Nat : len = Len(data) BY <3>1
    <3>3. PICK size \in Nat, all \in Nat : size = Size(b, k) /\ all = sent[b].total BY <3>1
    <3>4. size + total = all + len BY <3>1, <3>2, <3>3
    <3>5. len < total BY <3>1, <3>2
    <3>6. size < all /\ size + (total - len) = all BY <3>4, <3>5, RestToCome
    <3> QED BY <2>1, <3>2, <3>3, <3>6
  <2>3. HasPart(k + 1)' BY <1>1, <1>3, <1>6, <2>2 DEF HasPart, Content
  <2>4. FrameOK(k + 1)' BY <1>6, <2>1, <2>3 DEF FrameOK, Reading
  <2>5. ASSUME ~disturbed PROVE Whole(k + 1) = delivered /\ Unfinished(k + 1) = {b}
    <3>1. {c \in 1 .. k : (c = k /\ sent[c].type = "jpeg") \/ (Unbroken(c, k) /\ Size(c, k) = sent[c].total)} = {}
      <4>1. sent[k].type # "jpeg"
        <5>1. CASE b = k BY <1>5, <5>1
        <5>2. CASE b # k BY <1>1, <5>2, Continued
        <5> QED BY <5>1, <5>2
      <4> QED BY <1>2, <1>7, <2>2, <2>5, <4>1
    <3>2. {c \in 1 .. k : Unbroken(c, k) /\ Size(c, k) < sent[c].total} = {b}
          BY <1>7, <2>2, <2>5
    <3> QED BY <2>5, <3>1, <3>2, WholeGrows, UnfinishedGrows
  <2>6. CASE monitor' = "header" /\ disturbed' = disturbed
        BY <1>4, <2>1, <2>4, <2>5, <2>6 DEF CountOK, Reading
  <2>7. CASE monitor' = "nothing" /\ disturbed' BY <2>4, <2>7
  <2> QED BY <2>1, <2>6, <2>7
<1> QED BY <1>8, <1>9

(* What the next place is, and that counting does not depend on the monitor. *)
LEMMA NextPlace ==
  ASSUME NEW k \in Nat, next' = <<k, 1>>,
         \/ monitor' = "header" /\ want' = HeaderLen /\ pkt' = <<>>
         \/ monitor' \in {"nothing", "calls", "ended"}
  PROVE  At(k)'
BY DEF At, InHeader, Reading

LEMMA CountsStay ==
  ASSUME UNCHANGED dvr, NEW k
  PROVE  Whole(k)' = Whole(k) /\ Unfinished(k)' = Unfinished(k)
<1>1. Whole(k)' = Whole(k) BY DEF dvr, Whole, Unbroken, Pieces, PiecesOf
<1>2. Unfinished(k)' = Unfinished(k) BY DEF dvr, Unfinished, Unbroken, Size, Pieces, PiecesOf
<1> QED BY <1>1, <1>2

LEMMA BeginsKeeps ==
  ASSUME IInv, BeginsFrame
  PROVE  IInv'
<1>1. /\ Received("payload") /\ want # 0 /\ remaining = 0 /\ began' = pkt[1][1]
      /\ UNCHANGED <<dvr, next, flags, delivered, slow>>
      BY DEF BeginsFrame
<1>2. PICK meaning \in Meaning :
        \/ meaning[1] = "first" /\ Adds(Tail(pkt), meaning[2])
        \/ meaning[1] = "jpeg" /\ Adds(pkt, 0)
        \/ /\ meaning[1] \in {"more", "unknown"} /\ monitor' = "nothing"
           /\ UNCHANGED <<want, pkt, remaining, buf, disturbed>>
      BY DEF BeginsFrame
<1>3. /\ \/ monitor' = "header" /\ want' = HeaderLen /\ pkt' = <<>>
         \/ monitor' \in {"nothing", "calls"} /\ UNCHANGED <<want, pkt>>
      /\ disturbed' = disturbed \/ disturbed'
      BY <1>2 DEF Adds, Asks
<1>4. ReadOK'
  <2>1. next' = next /\ ReadOK BY <1>1 DEF IInv
  <2>2. CASE want' = HeaderLen /\ pkt' = <<>> BY <2>1, <2>2 DEF ReadOK, HeaderLen
  <2>3. CASE UNCHANGED <<want, pkt>> BY <2>1, <2>3 DEF ReadOK
  <2> QED BY <1>3, <2>2, <2>3
<1>5. ~recv_failed BY <1>1 DEF IInv, FailedOK, Received
<1>6. CalmOK' BY <1>1, <1>3, <1>5 DEF IInv, CalmOK, flags
<1>7. ASSUME ~slow, NEW k \in 1 .. Len(sent) + 1, At(k), FrameOK(k), ~disturbed => CountOK(k)
      PROVE  k + 1 \in 1 .. Len(sent) + 1 /\ At(k + 1)' /\ FrameOK(k + 1)' /\ (~disturbed' => CountOK(k + 1)')
  <2>1. /\ k \in 1 .. Len(sent) /\ k + 1 \in 1 .. Len(sent) + 1 /\ next' = <<k + 1, 1>>
        /\ Len(pkt) = sent[k].len /\ want = sent[k].len /\ sent[k].len # 0
        /\ pkt \in Seq(Nat \X Nat) /\ \A n \in 1 .. Len(pkt) : pkt[n] = <<k, HeaderLen + n>>
        BY <1>1, <1>7, PayloadEnds
  <2>2. /\ k \in Nat /\ sent[k].len \in Nat /\ sent[k].total \in Nat /\ k + 1 \in Nat
        /\ (k + 1) - 1 = k
        BY <2>1, SentTypes DEF IInv
  <2>3. At(k + 1)' BY <1>3, <2>1, <2>2, NextPlace
  <2>4. pkt[1] = <<k, HeaderLen + 1>> /\ pkt # <<>> BY <2>1, <2>2
  <2>5. meaning = <<sent[k].type, sent[k].total>> /\ began' = k
        BY <1>1, <2>4 DEF Meaning
  <2>6. /\ buf = <<>> /\ buf \in Seq(Nat \X Nat) /\ delivered \subseteq 1 .. k - 1
        /\ ~disturbed => Whole(k) = delivered /\ Unfinished(k) = {}
        BY <1>1, <1>7 DEF FrameOK, CountOK, Reading, Received
  <2>7. Content = {} /\ Ordered BY <2>6 DEF Content, Ordered
  <2>8. Pieces(k, k) = PiecesOf(k) /\ Size(k, k) = Video(k)
        BY <2>1, PiecesOfOne DEF IInv
  <2>9. delivered' = delivered /\ delivered' \subseteq 1 .. k /\ UNCHANGED dvr
        BY <1>1, <2>2, <2>6
  <2>10. CASE sent[k].type = "first"
    <3>1. PICK data : data = Tail(pkt) OBVIOUS
    <3>2. PICK total \in Nat : total = sent[k].total BY <2>2
    <3>3. Adds(data, total) BY <1>2, <2>5, <2>10, <3>1, <3>2
    <3>4. /\ data \in Seq(Nat \X Nat) /\ Len(data) = sent[k].len - 1 /\ Len(data) \in Nat
          /\ \A n \in 1 .. Len(data) : data[n] = <<k, 3 + n>>
      <4>1. data \in Seq(Nat \X Nat) /\ Len(data) = sent[k].len - 1 /\ Len(data) \in Nat
            /\ \A n \in 1 .. Len(data) : data[n] = pkt[n + 1] /\ n + 1 \in 1 .. Len(pkt)
        <5>1. Tail(pkt) \in Seq(Nat \X Nat) /\ Len(Tail(pkt)) = Len(pkt) - 1 BY <2>1, <2>4
        <5>2. \A n \in 1 .. Len(pkt) - 1 : Tail(pkt)[n] = pkt[n + 1] BY <2>1, <2>4
        <5>3. \A n \in 1 .. sent[k].len - 1 : n + 1 \in 1 .. sent[k].len BY <2>2
        <5>4. sent[k].len - 1 \in Nat BY <2>1, <2>2
        <5> QED BY <2>1, <3>1, <5>1, <5>2, <5>3, <5>4
      <4>2. \A n \in 1 .. Len(data) : HeaderLen + (n + 1) = 3 + n BY DEF HeaderLen
      <4> QED BY <2>1, <4>1, <4>2
    <3>5. buf' = buf \o data BY <3>3 DEF Adds
    <3>6. /\ buf' \in Seq(Nat \X Nat) /\ Len(buf') = Len(buf) + Len(data)
          /\ Ordered' /\ Content' = Content \cup ({k} \X (3 + 1 .. 3 + Len(data)))
          BY <2>2, <2>6, <2>7, <3>4, <3>5, BufGrows
    <3>7. Content' = Pieces(k, k)
      <4>1. 3 + 1 .. 3 + Len(data) = 4 .. 2 + sent[k].len BY <2>2, <3>4
      <4>2. PiecesOf(k) = {k} \X (4 .. 2 + sent[k].len) BY <2>10 DEF PiecesOf, HeaderLen
      <4> QED BY <2>7, <2>8, <3>6, <4>1, <4>2
    <3>8. Len(buf') = Size(k, k) BY <2>6, <2>8, <2>10, <3>4, <3>6 DEF Video
    <3>9. Size(k, k) + total = sent[k].total + Len(data)
          BY <2>2, <2>8, <2>10, <3>2, <3>4 DEF Video
    <3>10. Unbroken(k, k) BY <2>2, <2>10 DEF Unbroken
    <3>11. k \in 1 .. k /\ \A d \in delivered : d < k BY <2>2, <2>6
    <3> QED BY <2>1, <2>3, <2>5, <2>6, <2>9, <3>3, <3>4, <3>6, <3>7, <3>8, <3>9, <3>10, <3>11, AddsKeeps
  <2>11. CASE sent[k].type = "jpeg"
    <3>1. Adds(pkt, 0) BY <1>2, <2>5, <2>11
    <3>2. monitor' = "calls" /\ remaining' = 0 /\ disturbed' = disturbed /\ buf' = buf \o pkt
          BY <2>1, <2>2, <3>1 DEF Adds, Completes
    <3>3. PICK data : data = pkt OBVIOUS
    <3>4. /\ data \in Seq(Nat \X Nat) /\ Len(data) = sent[k].len
          /\ \A n \in 1 .. Len(data) : data[n] = <<k, 2 + n>>
          BY <2>1, <3>3 DEF HeaderLen
    <3>5. /\ buf' \in Seq(Nat \X Nat) /\ Len(buf') = Len(buf) + Len(data)
          /\ Ordered' /\ Content' = Content \cup ({k} \X (2 + 1 .. 2 + Len(data)))
          BY <2>2, <2>6, <2>7, <3>2, <3>3, <3>4, BufGrows
    <3>6. PiecesOf(k) = {k} \X (2 + 1 .. 2 + sent[k].len) BY <2>11 DEF PiecesOf, HeaderLen
    <3>7. Content' = Pieces(k, k)' /\ Len(buf') = sent'[k].len /\ sent'[k].type = "jpeg"
      <4>1. Pieces(k, k)' = Pieces(k, k) BY <2>9 DEF dvr, Pieces, PiecesOf
      <4> QED BY <2>2, <2>6, <2>7, <2>8, <2>9, <2>11, <3>4, <3>5, <3>6, <4>1 DEF dvr
    <3>8. HasAll(k + 1)'
      <4>1. k \in 1 .. k /\ \A d \in delivered : d < k BY <2>2, <2>6
      <4> QED BY <2>2, <2>5, <2>9, <3>5, <3>7, <4>1 DEF HasAll
    <3>9. FrameOK(k + 1)' BY <2>2, <2>9, <3>2, <3>5, <3>8 DEF FrameOK, Reading
    <3>10. ASSUME ~disturbed PROVE Whole(k + 1) = delivered \cup {k} /\ Unfinished(k + 1) = {}
      <4>1. \A b \in 1 .. k : ~Unbroken(b, k)
        <5> SUFFICES ASSUME NEW b \in 1 .. k, Unbroken(b, k) PROVE FALSE OBVIOUS
        <5>1. b # k BY <2>11 DEF Unbroken
        <5>2. b \in 1 .. k - 1 BY <2>2, <5>1
        <5> QED BY <2>1, <2>11, <5>2, Continued
      <4>2. {b \in 1 .. k : (b = k /\ sent[b].type = "jpeg") \/ (Unbroken(b, k) /\ Size(b, k) = sent[b].total)} = {k}
            BY <2>2, <2>11, <4>1
      <4>3. {b \in 1 .. k : Unbroken(b, k) /\ Size(b, k) < sent[b].total} = {} BY <4>1
      <4> QED BY <2>1, <2>6, <3>10, <4>2, <4>3, WholeGrows, UnfinishedGrows
    <3>11. ~disturbed => CountOK(k + 1)'
      <4>1. Whole(k + 1)' = Whole(k + 1) /\ Unfinished(k + 1)' = Unfinished(k + 1)
            BY <2>9, CountsStay
      <4> QED BY <2>5, <2>9, <3>2, <3>10, <4>1 DEF CountOK, Reading
    <3> QED BY <2>1, <2>3, <3>2, <3>9, <3>11
  <2>12. CASE sent[k].type \in {"more", "unknown"}
    <3>1. monitor' = "nothing" /\ UNCHANGED <<want, pkt, remaining, buf, disturbed>>
          BY <1>2, <2>5, <2>12
    <3>2. FrameOK(k + 1)' BY <1>1, <2>2, <2>6, <2>9, <3>1 DEF FrameOK, Reading
    <3>3. ~disturbed => Whole(k + 1) = delivered /\ Unfinished(k + 1) = {}
          BY <2>1, <2>6, <2>12, NothingNew
    <3>4. Whole(k + 1)' = Whole(k + 1) /\ Unfinished(k + 1)' = Unfinished(k + 1)
          BY <2>9, CountsStay
    <3>5. ~disturbed => CountOK(k + 1)' BY <2>9, <3>1, <3>3, <3>4 DEF CountOK, Reading
    <3> QED BY <2>1, <2>3, <3>1, <3>2, <3>5
  <2>13. sent[k].type \in {"first", "more", "jpeg", "unknown"} BY <2>1, SentTypes DEF IInv
  <2> QED BY <2>10, <2>11, <2>12, <2>13
<1>8. AlignedOK'
  <2> SUFFICES ASSUME ~slow
               PROVE  \E k \in 1 .. Len(sent) + 1 : At(k)' /\ FrameOK(k)' /\ (~disturbed' => CountOK(k)')
      BY <1>1 DEF AlignedOK, dvr
  <2>1. PICK k \in 1 .. Len(sent) + 1 : At(k) /\ FrameOK(k) /\ (~disturbed => CountOK(k))
        BY <1>5 DEF IInv, AlignedOK
  <2> QED BY <1>7, <2>1
<1> QED BY <1>1, <1>3, <1>4, <1>5, <1>6, <1>8, SentStays DEF IInv, PlaceOK, FailedOK, flags

LEMMA ContinuesKeeps ==
  ASSUME IInv, ContinuesFrame
  PROVE  IInv'
<1>1. /\ Received("payload") /\ want # 0 /\ remaining # 0 /\ Adds(pkt, remaining)
      /\ UNCHANGED <<dvr, next, flags, began, delivered, slow>>
      BY DEF ContinuesFrame
<1>2. /\ \/ monitor' = "header" /\ want' = HeaderLen /\ pkt' = <<>>
         \/ monitor' \in {"nothing", "calls"} /\ UNCHANGED <<want, pkt>>
      /\ disturbed' = disturbed \/ disturbed'
      BY <1>1 DEF Adds, Asks
<1>3. ReadOK'
  <2>1. next' = next /\ ReadOK BY <1>1 DEF IInv
  <2>2. CASE want' = HeaderLen /\ pkt' = <<>> BY <2>1, <2>2 DEF ReadOK, HeaderLen
  <2>3. CASE UNCHANGED <<want, pkt>> BY <2>1, <2>3 DEF ReadOK
  <2> QED BY <1>2, <2>2, <2>3
<1>4. ~recv_failed BY <1>1 DEF IInv, FailedOK, Received
<1>5. CalmOK' BY <1>1, <1>2, <1>4 DEF IInv, CalmOK, flags
<1>6. ASSUME ~slow, NEW k \in 1 .. Len(sent) + 1, At(k), FrameOK(k), ~disturbed => CountOK(k)
      PROVE  k + 1 \in 1 .. Len(sent) + 1 /\ At(k + 1)' /\ FrameOK(k + 1)' /\ (~disturbed' => CountOK(k + 1)')
  <2>1. /\ k \in 1 .. Len(sent) /\ k + 1 \in 1 .. Len(sent) + 1 /\ next' = <<k + 1, 1>>
        /\ Len(pkt) = sent[k].len /\ want = sent[k].len /\ sent[k].len # 0
        /\ pkt \in Seq(Nat \X Nat) /\ \A n \in 1 .. Len(pkt) : pkt[n] = <<k, HeaderLen + n>>
        BY <1>1, <1>6, PayloadEnds
  <2>2. /\ k \in Nat /\ sent[k].len \in Nat /\ k + 1 \in Nat /\ Len(sent) \in Nat
        BY <2>1, SentTypes DEF IInv
  <2>3. At(k + 1)' BY <1>2, <2>1, <2>2, NextPlace
  <2>4. /\ HasPart(k) /\ remaining \in Nat /\ buf \in Seq(Nat \X Nat) /\ delivered \subseteq 1 .. k - 1
        /\ ~disturbed => Whole(k) = delivered /\ Unfinished(k) = {began}
        BY <1>1, <1>6 DEF FrameOK, CountOK, Reading, Received
  <2>5. PICK b \in 1 .. k - 1 : b = began BY <2>4 DEF HasPart
  <2>6. /\ Unbroken(b, k - 1) /\ Len(buf) + remaining = sent[b].total /\ Size(b, k - 1) = Len(buf)
        /\ Content = Pieces(b, k - 1) /\ Ordered /\ \A d \in delivered : d < b
        BY <2>4, <2>5 DEF HasPart
  <2>7. /\ b \in 1 .. Len(sent) /\ b \in 1 .. k /\ k - 1 \in b .. Len(sent) /\ k - 1 < Len(sent)
        /\ (k - 1) + 1 = k /\ (k - 1) + 1 <= Len(sent)
        BY <2>1, <2>2
  <2>8. Len(buf) \in Nat /\ Size(b, k - 1) < sent[b].total BY <1>1, <2>4, <2>6
  <2>9. sent[k].type = "more" BY <2>6, <2>7, <2>8 DEF IInv, FramesSent
  <2>10. Unbroken(b, k)
    <3>1. \A n \in b + 1 .. k : n \in b + 1 .. k - 1 \/ n = k BY <2>2, <2>7
    <3>2. sent[b].type = "first" /\ \A n \in b + 1 .. k - 1 : sent[n].type = "more" /\ sent[n].len > 0
          BY <2>6 DEF Unbroken
    <3>3. sent[k].type = "more" /\ sent[k].len > 0 BY <2>1, <2>2, <2>9
    <3> QED BY <3>1, <3>2, <3>3 DEF Unbroken
  <2>11. PICK data : data = pkt OBVIOUS
  <2>12. PICK total \in Nat : total = remaining BY <2>4
  <2>13. Adds(data, total) BY <1>1, <2>11, <2>12
  <2>14. /\ data \in Seq(Nat \X Nat) /\ Len(data) = sent[k].len
         /\ \A n \in 1 .. Len(data) : data[n] = <<k, 2 + n>>
         BY <2>1, <2>11 DEF HeaderLen
  <2>15. /\ Pieces(b, (k - 1) + 1) = Pieces(b, k - 1) \cup PiecesOf((k - 1) + 1)
         /\ \A u \in Pieces(b, k - 1) : u[1] <= k - 1
         BY <2>1, <2>7, PiecesGrow DEF IInv
  <2>16. Pieces(b, k) = Pieces(b, k - 1) \cup PiecesOf(k) BY <2>7, <2>15
  <2>17. \A u \in Content : u[1] < k
    <3> SUFFICES ASSUME NEW u \in Content PROVE u[1] < k OBVIOUS
    <3>1. u \in Nat \X Nat BY <2>4 DEF Content
    <3>2. u[1] \in Nat BY <3>1
    <3>3. u[1] <= k - 1 BY <2>6, <2>15
    <3> QED BY <2>2, <3>2, <3>3
  <2>18. buf' = buf \o data BY <2>13 DEF Adds
  <2>19. /\ buf' \in Seq(Nat \X Nat) /\ Len(buf') = Len(buf) + Len(data)
         /\ Ordered' /\ Content' = Content \cup ({k} \X (2 + 1 .. 2 + Len(data)))
         BY <2>2, <2>4, <2>6, <2>14, <2>17, <2>18, BufGrows
  <2>20. PiecesOf(k) = {k} \X (2 + 1 .. 2 + sent[k].len) BY <2>9 DEF PiecesOf, HeaderLen
  <2>21. Content' = Pieces(b, k) BY <2>6, <2>14, <2>16, <2>19, <2>20
  <2>22. Size(b, k) = Size(b, k - 1) + sent[k].len BY <2>1, <2>10, Continued
  <2>23. Len(buf') = Size(b, k) BY <2>6, <2>14, <2>19, <2>22
  <2>24. Size(b, k) + total = sent[b].total + Len(data)
    <3>1. PICK n, len, all : n = Len(buf) /\ len = sent[k].len /\ all = sent[b].total OBVIOUS
    <3>2. n \in Nat /\ len \in Nat BY <2>2, <2>8, <3>1
    <3>3. n + total = all BY <2>6, <2>12, <3>1
    <3>4. (n + len) + total = all + len BY <3>2, <3>3
    <3> QED BY <2>6, <2>14, <2>22, <3>1, <3>4
  <2>25. began' = b /\ UNCHANGED <<dvr, delivered>> BY <1>1, <2>5
  <2>26. ~disturbed => Whole(k) = delivered /\ Unfinished(k) \subseteq {b} BY <2>4, <2>5
  <2>27. Len(data) \in Nat /\ Len(data) # 0 BY <2>1, <2>2, <2>14
  <2>28. FrameOK(k + 1)' /\ (~disturbed' => CountOK(k + 1)')
         BY <2>1, <2>4, <2>6, <2>7, <2>10, <2>13, <2>19, <2>21, <2>23, <2>24, <2>25, <2>26, <2>27, AddsKeeps
  <2> QED BY <2>1, <2>3, <2>28
<1>7. AlignedOK'
  <2> SUFFICES ASSUME ~slow
               PROVE  \E k \in 1 .. Len(sent) + 1 : At(k)' /\ FrameOK(k)' /\ (~disturbed' => CountOK(k)')
      BY <1>1 DEF AlignedOK, dvr
  <2>1. PICK k \in 1 .. Len(sent) + 1 : At(k) /\ FrameOK(k) /\ (~disturbed => CountOK(k))
        BY <1>4 DEF IInv, AlignedOK
  <2> QED BY <1>6, <2>1
<1> QED BY <1>1, <1>2, <1>3, <1>4, <1>5, <1>7, SentStays DEF IInv, PlaceOK, FailedOK, flags

LEMMA NoPayloadKeeps ==
  ASSUME IInv, HasNoPayload
  PROVE  IInv'
<1>1. /\ Received("payload") /\ want = 0 /\ monitor' = "nothing"
      /\ UNCHANGED <<dvr, next, flags, want, pkt, remaining, buf, history>>
      BY DEF HasNoPayload
<1>2. ASSUME ~slow, NEW k \in 1 .. Len(sent) + 1, At(k), FrameOK(k), ~disturbed => CountOK(k)
      PROVE  k + 1 \in 1 .. Len(sent) + 1 /\ At(k + 1)' /\ FrameOK(k + 1)' /\ (~disturbed' => CountOK(k + 1)')
  <2>1. /\ k \in 1 .. Len(sent) /\ k + 1 \in 1 .. Len(sent) + 1 /\ next' = <<k + 1, 1>>
        /\ sent[k].len = 0
        BY <1>1, <1>2, PayloadEnds
  <2>2. k \in Nat /\ k + 1 \in Nat /\ sent[k].type \in {"more", "unknown"}
        BY <2>1, SentTypes DEF IInv
  <2>3. At(k + 1)' BY <1>1, <2>1, <2>2, NextPlace
  <2>4. FrameOK(k + 1)'
    <3>1. delivered \subseteq 1 .. k - 1 /\ remaining \in Nat /\ buf \in Seq(Nat \X Nat) BY <1>2 DEF FrameOK
    <3>2. delivered' \subseteq 1 .. (k + 1) - 1 BY <1>1, <2>2, <3>1 DEF history
    <3> QED BY <1>1, <3>1, <3>2 DEF FrameOK, Reading
  <2>5. Whole(k + 1) = Whole(k) /\ Unfinished(k + 1) = {} BY <2>1, <2>2, NothingNew
  <2>6. Whole(k + 1)' = Whole(k + 1) /\ Unfinished(k + 1)' = Unfinished(k + 1)
        BY <1>1, CountsStay
  <2>7. ~disturbed => Whole(k) = delivered BY <1>1, <1>2 DEF CountOK, Received
  <2>8. ~disturbed' => CountOK(k + 1)' BY <1>1, <2>5, <2>6, <2>7 DEF CountOK, Reading, history
  <2> QED BY <2>1, <2>3, <2>4, <2>8
<1>3. AlignedOK'
  <2> SUFFICES ASSUME ~slow, ~recv_failed
               PROVE  \E k \in 1 .. Len(sent) + 1 : At(k)' /\ FrameOK(k)' /\ (~disturbed' => CountOK(k)')
      BY <1>1 DEF AlignedOK, dvr, flags, history
  <2>1. PICK k \in 1 .. Len(sent) + 1 : At(k) /\ FrameOK(k) /\ (~disturbed => CountOK(k))
        BY DEF IInv, AlignedOK
  <2> QED BY <1>2, <2>1
<1> QED BY <1>1, <1>3, SentStays
        DEF IInv, PlaceOK, ReadOK, FailedOK, CalmOK, flags, history

-----------------------------------------------------------------------------
(* monitor_loop goes on at the same place, or not at all.                   *)

LEMMA LoopsKeep ==
  ASSUME IInv, monitor \in {"nothing", "calls"}, (~recv_failed /\ Loops) \/ Leaves,
         UNCHANGED <<dvr, next, recv_failed, began, slow, disturbed>>,
         delivered' = IF monitor = "calls" THEN delivered \cup {began} ELSE delivered
  PROVE  IInv'
<1>1. \/ /\ monitor' = "header" /\ want' = HeaderLen /\ pkt' = <<>> /\ buf' = <<>> /\ remaining' = 0
         /\ ~recv_failed
      \/ monitor' = "ended" /\ UNCHANGED <<want, pkt, remaining, buf>>
      BY DEF Loops, Leaves, Asks, StartsAnew
<1>2. ReadOK'
  <2>1. CASE want' = HeaderLen /\ pkt' = <<>> BY <2>1 DEF IInv, ReadOK, HeaderLen
  <2>2. CASE UNCHANGED <<want, pkt>> BY <2>2 DEF IInv, ReadOK
  <2> QED BY <1>1, <2>1, <2>2
<1>3. ASSUME NEW k \in 1 .. Len(sent) + 1, At(k), FrameOK(k), ~disturbed => CountOK(k)
      PROVE  At(k)' /\ FrameOK(k)' /\ (~disturbed' => CountOK(k)')
  <2>1. k \in Nat /\ next' = <<k, 1>> BY <1>3 DEF At, Reading, IInv, SentOK
  <2>2. At(k)' BY <1>1, <2>1, NextPlace
  <2>3. delivered' \subseteq 1 .. k - 1 BY <1>3 DEF FrameOK, HasAll
  <2>4. remaining \in Nat /\ buf \in Seq(Nat \X Nat) BY <1>3 DEF FrameOK
  <2>5. FrameOK(k)'
    <3>1. CASE monitor' = "header" /\ buf' = <<>> /\ remaining' = 0
          BY <2>3, <3>1 DEF FrameOK, Reading
    <3>2. CASE monitor' = "ended" /\ UNCHANGED <<remaining, buf>>
          BY <2>3, <2>4, <3>2 DEF FrameOK, Reading
    <3> QED BY <1>1, <3>1, <3>2
  <2>6. ~disturbed => Whole(k) = delivered' /\ Unfinished(k) = {}
        BY <1>3 DEF CountOK, Reading
  <2>7. Whole(k)' = Whole(k) /\ Unfinished(k)' = Unfinished(k) BY CountsStay
  <2>8. ~disturbed' => CountOK(k)' BY <1>1, <2>6, <2>7 DEF CountOK, Reading
  <2> QED BY <2>2, <2>5, <2>8
<1>4. AlignedOK'
  <2> SUFFICES ASSUME ~slow, ~recv_failed
               PROVE  \E k \in 1 .. Len(sent) + 1 : At(k)' /\ FrameOK(k)' /\ (~disturbed' => CountOK(k)')
      BY DEF AlignedOK, dvr
  <2>1. PICK k \in 1 .. Len(sent) + 1 : At(k) /\ FrameOK(k) /\ (~disturbed => CountOK(k))
        BY DEF IInv, AlignedOK
  <2> QED BY <1>3, <2>1
<1> QED BY <1>1, <1>2, <1>4, SentStays DEF IInv, PlaceOK, FailedOK, CalmOK

LEMMA GotNothingKeeps ==
  ASSUME IInv, GotNothing
  PROVE  IInv'
<1>1. /\ monitor = "nothing" /\ ((~recv_failed /\ Loops) \/ Leaves)
      /\ UNCHANGED <<dvr, next, recv_failed, history>>
      BY DEF GotNothing, Gone
<1> QED BY <1>1, LoopsKeep DEF history

LEMMA CallReturnsKeeps ==
  ASSUME IInv, CallReturns
  PROVE  IInv'
<1>1. /\ monitor = "calls" /\ ~recv_failed /\ Loops /\ delivered' = delivered \cup {began}
      /\ UNCHANGED <<dvr, next, recv_failed, began, slow, disturbed>>
      BY DEF CallReturns, IInv, FailedOK
<1> QED BY <1>1, LoopsKeep

(* The invariant does not ask whether the monitor is to go on.              *)
LEMMA OthersKeep ==
  ASSUME IInv, StopMonitor \/ UNCHANGED vars
  PROVE  IInv'
<1>1. UNCHANGED <<dvr, next, monitor, recv_failed, want, pkt, remaining, buf, history>>
      BY DEF StopMonitor, vars, flags
<1>2. \A k : At(k)' <=> At(k) BY <1>1 DEF At, Reading, InHeader, InPayload, dvr
<1>3. ASSUME NEW k PROVE (FrameOK(k)' <=> FrameOK(k)) /\ (CountOK(k)' <=> CountOK(k))
      BY <1>1, FrameStays
<1>4. AlignedOK' BY <1>1, <1>2, <1>3 DEF IInv, AlignedOK, dvr, history
<1> QED BY <1>1, <1>4, SentStays DEF IInv, PlaceOK, ReadOK, FailedOK, CalmOK, history

-----------------------------------------------------------------------------
LEMMA InitOK == Init => IInv
<1> SUFFICES ASSUME Init PROVE IInv OBVIOUS
<1>1. SentOK /\ FramesSent BY FramingAssumption DEF Init, SentOK, FramesSent
<1>2. PlaceOK /\ ReadOK /\ FailedOK /\ CalmOK
      BY DEF Init, PlaceOK, ReadOK, FailedOK, CalmOK, HeaderLen
<1>3. 1 \in 1 .. Len(sent) + 1 /\ At(1) BY DEF Init, At, InHeader, Reading
<1>4. FrameOK(1) BY DEF Init, FrameOK, Reading
<1>5. CountOK(1)
  <2>1. Whole(1) = {} BY DEF Whole
  <2>2. Unfinished(1) = {} BY DEF Unfinished
  <2> QED BY <2>1, <2>2 DEF Init, CountOK
<1> QED BY <1>1, <1>2, <1>3, <1>4, <1>5 DEF IInv, AlignedOK

LEMMA StepKeeps == IInv /\ [Next]_vars => IInv'
<1> SUFFICES ASSUME IInv, [Next]_vars PROVE IInv' OBVIOUS
<1>1. CASE SendFirst \/ SendMore \/ SendSingle \/ SendEmpty BY <1>1, SendKeeps
<1>2. CASE Receives BY <1>2, ReceiveKeeps
<1>3. CASE ReceiveFails \/ DeadlinePasses BY <1>3, FailKeeps
<1>4. CASE HasHeader BY <1>4, HeaderKeeps
<1>5. CASE HasNoPayload BY <1>5, NoPayloadKeeps
<1>6. CASE BeginsFrame BY <1>6, BeginsKeeps
<1>7. CASE ContinuesFrame BY <1>7, ContinuesKeeps
<1>8. CASE GotNothing BY <1>8, GotNothingKeeps
<1>9. CASE CallReturns BY <1>9, CallReturnsKeeps
<1>10. CASE StopMonitor \/ UNCHANGED vars BY <1>10, OthersKeep
<1> QED BY <1>1, <1>2, <1>3, <1>4, <1>5, <1>6, <1>7, <1>8, <1>9, <1>10 DEF Next

LEMMA FramesFollow == Spec => []IInv
BY InitOK, StepKeeps, PTL DEF Spec

(* Between two packets, the next unit is the first of a packet.             *)
LEMMA PlaceIsKnown ==
  ASSUME IInv, ~slow, monitor = "header", pkt = <<>>
  PROVE  \E k \in 1 .. Len(sent) + 1 :
           next = <<k, 1>> /\ FrameOK(k) /\ (~disturbed => CountOK(k))
<1>1. PICK k \in 1 .. Len(sent) + 1 : At(k) /\ FrameOK(k) /\ (~disturbed => CountOK(k))
      BY DEF IInv, FailedOK, AlignedOK
<1>2. InHeader(k) /\ Len(pkt) = 0 BY <1>1 DEF At
<1>3. next = <<k, 1>> BY <1>2 DEF InHeader
<1> QED BY <1>1, <1>3

(* Unless a deadline has cut a packet, a header is looked for where one     *)
(* begins, for packets of every length and in every number.                 *)
THEOREM HeadersFound == Spec => []HeadersAreHeaders
<1>1. IInv => HeadersAreHeaders
  <2> SUFFICES ASSUME IInv, ~slow, monitor = "header", pkt = <<>> PROVE next[2] = 1
      BY DEF HeadersAreHeaders, Boundary
  <2> QED BY PlaceIsKnown
<1> QED BY <1>1, FramesFollow, PTL

(* Unless a deadline has cut a packet, the callback is given all pieces of  *)
(* one frame, in order, and later frames later, for frames of every length. *)
THEOREM CallbackGetsWholeFrames == Spec => []FramesComeWhole
<1>1. IInv => FramesComeWhole
  <2> SUFFICES ASSUME IInv, monitor = "calls", ~slow PROVE FramesComeWhole
      BY DEF FramesComeWhole
  <2>1. PICK k \in 1 .. Len(sent) + 1 : HasAll(k)
        BY DEF IInv, FailedOK, AlignedOK, FrameOK
  <2>2. began \in 1 .. k - 1 /\ k - 1 \in began .. Len(sent) BY <2>1 DEF HasAll, IInv, SentOK
  <2> QED BY <2>1, <2>2 DEF FramesComeWhole, HasAll, Content, Ordered
<1> QED BY <1>1, FramesFollow, PTL

(* As long as there has been no timeout, every frame without an empty       *)
(* packet inside has been delivered, for any packets between the frames.    *)
THEOREM OthersAreDelivered == Spec => []OnlyBrokenFramesAreLost
<1>1. IInv => OnlyBrokenFramesAreLost
  <2> SUFFICES ASSUME IInv, ~disturbed, monitor = "header", pkt = <<>>, remaining = 0
               PROVE  delivered = Whole(next[1])
      BY DEF OnlyBrokenFramesAreLost
  <2>1. ~slow BY DEF IInv, CalmOK
  <2>2. PICK k \in 1 .. Len(sent) + 1 : next = <<k, 1>> /\ CountOK(k)
        BY <2>1, PlaceIsKnown
  <2>3. Whole(k) = delivered BY <2>2 DEF CountOK
  <2> QED BY <2>2, <2>3
<1> QED BY <1>1, FramesFollow, PTL

-----------------------------------------------------------------------------
(* Types.  They hold whatever has been cut: pieces that are read are pieces *)
(* of what has been sent, and a frame that goes on has begun.               *)

BegunOK ==
  /\ \A n \in 1 .. Len(pkt) : pkt[n][1] <= Len(sent)
  /\ remaining # 0 \/ monitor = "calls" => began >= 1

TypesOK == FramingTypeOK /\ BegunOK

LEMMA InProduct ==
  ASSUME NEW S, NEW T, NEW x \in S, NEW y \in T
  PROVE  <<x, y>> \in S \X T
OBVIOUS

LEMMA PacketTypes ==
  ASSUME FramingTypeOK
  PROVE  \A k \in 1 .. Len(sent) : sent[k].len \in 0 .. MaxLen /\ sent[k].total \in 0 .. MaxTotal
<1>1. sent \in Seq(Packets) BY DEF FramingTypeOK, Packets
<1>2. \A k \in 1 .. Len(sent) : sent[k] \in Packets BY <1>1
<1> QED BY <1>2 DEF Packets

LEMMA AddsTypes ==
  ASSUME TypesOK, NEW data \in Seq(Units), NEW total \in 0 .. MaxTotal, Adds(data, total),
         Received("payload"), UNCHANGED <<dvr, next, flags, delivered, slow>>,
         began' \in 1 .. MaxPackets
  PROVE  TypesOK'
<1> USE FramingAssumption DEF TypesOK, FramingTypeOK, BegunOK, flags, dvr, HeaderLen
<1>1. buf' \in Seq(Units) /\ Len(data) \in Nat BY ConcatProperties, LenProperties DEF Adds
<1>2. remaining' \in 0 .. MaxTotal BY <1>1 DEF Adds, Completes
<1>3. disturbed' \in BOOLEAN BY Zenon DEF Adds
<1>4. monitor' \in {"header", "nothing", "calls"} /\ ((want' = 2 /\ pkt' = <<>>) \/ UNCHANGED <<want, pkt>>)
      BY DEF Adds, Asks
<1>5. want' \in Nat /\ pkt' \in Seq(Units) /\ Len(pkt') <= want'
      /\ \A n \in 1 .. Len(pkt') : pkt'[n][1] <= Len(sent')
  <2>1. CASE want' = 2 /\ pkt' = <<>> BY <2>1
  <2>2. CASE UNCHANGED <<want, pkt>> BY <2>2
  <2> QED BY <1>4, <2>1, <2>2
<1>6. UNCHANGED <<sent, left, next, monitoring, recv_failed, slow, delivered>> OBVIOUS
<1>7. {monitoring', recv_failed', slow', disturbed'} \subseteq BOOLEAN
  <2>1. monitoring \in BOOLEAN /\ recv_failed \in BOOLEAN /\ slow \in BOOLEAN BY Zenon
  <2> QED BY <1>3, <1>6, <2>1, Zenon
<1>8. remaining' # 0 \/ monitor' = "calls" => began' >= 1 OBVIOUS
<1>9. /\ sent' \in Seq([type : {"first", "more", "jpeg", "unknown"}, len : 0 .. MaxLen,
                       total : 0 .. MaxTotal])
      /\ Len(sent') <= MaxPackets /\ left' \in 0 .. MaxTotal
      /\ next' \in (1 .. MaxPackets + 1) \X (1 .. 2 + MaxLen)
      /\ delivered' \subseteq 1 .. MaxPackets
      BY <1>6
<1>10. began' \in 0 .. MaxPackets /\ monitor' \in {"header", "payload", "nothing", "calls", "ended"}
      BY <1>4
<1>11. FramingTypeOK'
  <2> HIDE DEF TypesOK, FramingTypeOK, BegunOK
  <2> QED BY <1>1, <1>2, <1>5, <1>7, <1>9, <1>10 DEF FramingTypeOK
<1>12. BegunOK'
  <2> HIDE DEF TypesOK, FramingTypeOK, BegunOK
  <2> QED BY <1>5, <1>8 DEF BegunOK
<1> HIDE DEF TypesOK, FramingTypeOK, BegunOK
<1> QED BY <1>11, <1>12 DEF TypesOK

(* A packet that has been received as payload is not empty, if any of it was *)
(* asked for, and what is read as its meaning is one.                       *)
LEMMA PayloadTypes ==
  ASSUME TypesOK, Received("payload"), want # 0
  PROVE  /\ pkt \in Seq(Units) /\ Tail(pkt) \in Seq(Units) /\ pkt[1][1] \in 1 .. MaxPackets
         /\ \A meaning \in Meaning : meaning[2] \in 0 .. MaxTotal
<1> USE FramingAssumption DEF TypesOK, FramingTypeOK, BegunOK, Received, HeaderLen
<1>1. pkt \in Seq(Units) /\ Len(pkt) # 0 /\ Len(pkt) \in Nat OBVIOUS
<1>2. pkt[1] \in Units /\ pkt[1][1] <= Len(sent) BY <1>1
<1>3. pkt[1][1] \in 1 .. MaxPackets /\ pkt[1][1] \in 1 .. Len(sent) BY <1>2 DEF Units
<1>4. Tail(pkt) \in Seq(Units) BY <1>1
<1>5. PICK k \in 1 .. Len(sent) : k = pkt[1][1] BY <1>3
<1>6. sent[k].total \in 0 .. MaxTotal
  <2>1. FramingTypeOK OBVIOUS
  <2> HIDE DEF TypesOK, FramingTypeOK, BegunOK
  <2> QED BY <2>1, PacketTypes
<1>7. \A meaning \in Meaning : meaning[2] \in 0 .. MaxTotal
  <2> SUFFICES ASSUME NEW meaning \in Meaning PROVE meaning[2] \in 0 .. MaxTotal OBVIOUS
  <2>1. \/ meaning = <<sent[k].type, sent[k].total>>
        \/ meaning \in {"jpeg", "unknown"} \X {0}
        \/ meaning \in {"first"} \X (1 .. MaxTotal)
        BY <1>5, Zenon DEF Meaning
  <2>2. CASE meaning = <<sent[k].type, sent[k].total>> BY <1>6, <2>2
  <2>3. CASE meaning \in {"jpeg", "unknown"} \X {0} BY <2>3
  <2>4. CASE meaning \in {"first"} \X (1 .. MaxTotal) BY <2>4
  <2> QED BY <2>1, <2>2, <2>3, <2>4
<1> QED BY <1>1, <1>3, <1>4, <1>7

LEMMA TypesStep == TypesOK /\ [Next]_vars => TypesOK'
<1> SUFFICES ASSUME TypesOK, [Next]_vars PROVE TypesOK' OBVIOUS
<1> USE FramingAssumption DEF TypesOK, FramingTypeOK, BegunOK
<1>1. ASSUME NEW type \in {"first", "more", "jpeg", "unknown"}, NEW len \in 0 .. MaxLen,
             NEW total \in 0 .. MaxTotal, NEW rest \in 0 .. MaxTotal,
             Sends(Packet(type, len, total), rest)
      PROVE  TypesOK'
  <2>1. /\ sent' = Append(sent, Packet(type, len, total)) /\ left' = rest /\ Len(sent) < MaxPackets
        /\ UNCHANGED <<next, monitor, flags, want, pkt, remaining, buf, history>>
        BY <1>1 DEF Sends
  <2>2. Packet(type, len, total) \in
          [type : {"first", "more", "jpeg", "unknown"}, len : 0 .. MaxLen, total : 0 .. MaxTotal]
        BY DEF Packet
  <2>3. /\ sent' \in Seq([type : {"first", "more", "jpeg", "unknown"}, len : 0 .. MaxLen,
                          total : 0 .. MaxTotal])
        /\ Len(sent') = Len(sent) + 1 /\ Len(sent) \in Nat
        BY <2>1, <2>2, AppendProperties, LenProperties
  <2>4. \A n \in 1 .. Len(pkt) : pkt[n] \in Units OBVIOUS
  <2>5. \A n \in 1 .. Len(pkt) : pkt[n][1] <= Len(sent')
    <3> SUFFICES ASSUME NEW n \in 1 .. Len(pkt) PROVE pkt[n][1] <= Len(sent') OBVIOUS
    <3>1. PICK a \in 1 .. MaxPackets : a = pkt[n][1] BY <2>4 DEF Units
    <3>2. PICK old \in Nat : old = Len(sent) BY <2>3
    <3>3. a <= old BY <3>1, <3>2
    <3> HIDE DEF TypesOK, FramingTypeOK, BegunOK
    <3> QED BY <2>3, <3>1, <3>2, <3>3
  <2> QED BY <2>1, <2>3, <2>5 DEF flags, history
<1>2. CASE SendFirst
  <2>1. PICK len \in 1 .. MaxLen, total \in 1 .. MaxTotal :
          len - 1 <= total /\ Sends(Packet("first", len, total), total - (len - 1))
        BY <1>2 DEF SendFirst
  <2>2. len \in 0 .. MaxLen /\ total \in 0 .. MaxTotal /\ total - (len - 1) \in 0 .. MaxTotal
        BY <2>1
  <2> QED BY <1>1, <2>1, <2>2
<1>3. CASE SendMore
  <2>1. PICK len \in 1 .. MaxLen : len <= left /\ Sends(Packet("more", len, 0), left - len)
        BY <1>3 DEF SendMore
  <2>2. len \in 0 .. MaxLen /\ 0 \in 0 .. MaxTotal /\ left - len \in 0 .. MaxTotal BY <2>1
  <2> QED BY <1>1, <2>1, <2>2
<1>4. CASE SendSingle \/ SendEmpty
  <2>1. \E type \in {"first", "more", "jpeg", "unknown"}, len \in 0 .. MaxLen, rest \in 0 .. MaxTotal :
          Sends(Packet(type, len, 0), rest)
    <3>1. CASE SendSingle
      <4>1. PICK type \in {"jpeg", "unknown"}, len \in 1 .. MaxLen : Sends(Packet(type, len, 0), 0)
            BY <3>1 DEF SendSingle
      <4>2. len \in 0 .. MaxLen /\ 0 \in 0 .. MaxTotal OBVIOUS
      <4> QED BY <4>1, <4>2
    <3>2. CASE SendEmpty
      <4>1. left \in 0 .. MaxTotal /\ 0 \in 0 .. MaxLen OBVIOUS
      <4> QED BY <3>2, <4>1 DEF SendEmpty
    <3> QED BY <1>4, <3>1, <3>2
  <2>2. 0 \in 0 .. MaxTotal OBVIOUS
  <2> QED BY <1>1, <2>1, <2>2
<1>5. CASE Receives
  <2>1. /\ Len(pkt) < want /\ next[1] <= Len(sent) /\ pkt' = Append(pkt, next) /\ next' = After(next)
        /\ UNCHANGED <<dvr, monitor, flags, want, remaining, buf, history>>
        BY <1>5 DEF Receives, Receiving
  <2>2. PICK a \in 1 .. MaxPackets + 1, b \in 1 .. HeaderLen + MaxLen : next = <<a, b>> OBVIOUS
  <2>3. a \in 1 .. Len(sent) /\ a \in 1 .. MaxPackets /\ next \in Units BY <2>1, <2>2 DEF Units
  <2>4. next' \in (1 .. MaxPackets + 1) \X (1 .. HeaderLen + MaxLen)
    <3>0. FramingTypeOK OBVIOUS
    <3> HIDE DEF TypesOK, FramingTypeOK, BegunOK
    <3>1. sent[a].len \in 0 .. MaxLen BY <2>3, <3>0, PacketTypes
    <3>2. next' = IF b < HeaderLen + sent[a].len THEN <<a, b + 1>> ELSE <<a + 1, 1>>
          BY <2>1, <2>2 DEF After
    <3>3. PICK len \in 0 .. MaxLen : len = sent[a].len BY <3>1
    <3>4. next' = IF b < 2 + len THEN <<a, b + 1>> ELSE <<a + 1, 1>> BY <3>2, <3>3 DEF HeaderLen
    <3>5. a + 1 \in 1 .. MaxPackets + 1 /\ 1 \in 1 .. 2 + MaxLen
          /\ (b < 2 + len => b + 1 \in 1 .. 2 + MaxLen)
          BY <2>3
    <3>6. CASE b < 2 + len
      <4>1. next' = <<a, b + 1>> BY <3>4, <3>6
      <4>2. a \in 1 .. MaxPackets + 1 /\ b + 1 \in 1 .. 2 + MaxLen BY <3>5, <3>6
      <4> QED BY <4>1, <4>2, InProduct, Zenon DEF HeaderLen
    <3>7. CASE ~(b < 2 + len)
      <4>1. next' = <<a + 1, 1>> BY <3>4, <3>7
      <4>2. a + 1 \in 1 .. MaxPackets + 1 /\ 1 \in 1 .. 2 + MaxLen BY <3>5
      <4> QED BY <4>1, <4>2, InProduct, Zenon DEF HeaderLen
    <3> QED BY <3>6, <3>7
  <2>5. /\ pkt' \in Seq(Units) /\ Len(pkt') = Len(pkt) + 1 /\ Len(pkt) \in Nat
        /\ \A n \in 1 .. Len(pkt) : pkt'[n] = pkt[n]
        /\ pkt'[Len(pkt) + 1] = next
        BY <2>1, <2>3, AppendProperties, LenProperties
  <2>6. \A n \in 1 .. Len(pkt') : pkt'[n][1] <= Len(sent)
    <3>1. \A n \in 1 .. Len(pkt') : n \in 1 .. Len(pkt) \/ n = Len(pkt) + 1 BY <2>5
    <3> QED BY <2>1, <2>5, <3>1
  <2>7. Len(pkt') <= want BY <2>1, <2>5
  <2> QED BY <2>1, <2>4, <2>5, <2>6, <2>7 DEF dvr, flags, history
<1>6. CASE ReceiveFails \/ DeadlinePasses
  <2>1. /\ UNCHANGED <<dvr, next, monitoring, want, pkt, remaining, buf, began, delivered>>
        /\ monitor' = "nothing"
        BY <1>6 DEF ReceiveFails, DeadlinePasses, flags
  <2>2. {recv_failed', slow', disturbed'} \subseteq BOOLEAN
        BY <1>6, Zenon DEF ReceiveFails, DeadlinePasses, flags
  <2> QED BY <2>1, <2>2 DEF dvr
<1>7. CASE HasHeader
  <2>1. PICK len \in Lengths : /\ monitor' = "payload" /\ want' = len /\ pkt' = <<>>
                               /\ UNCHANGED <<dvr, next, flags, remaining, buf, history>>
        BY <1>7 DEF HasHeader, Asks
  <2>2. len \in Nat
    <3>1. CASE \E k \in 1 .. Len(sent) : pkt = <<<<k, 1>>, <<k, 2>>>>
      <4>1. PICK k \in 1 .. Len(sent) : pkt = <<<<k, 1>>, <<k, 2>>>> BY <3>1
      <4>2. pkt[1][1] = k BY <4>1
      <4>3. len \in {sent[pkt[1][1]].len} BY <3>1, Zenon DEF Lengths
      <4>4. len = sent[k].len BY <4>2, <4>3
      <4>5. FramingTypeOK OBVIOUS
      <4> HIDE DEF TypesOK, FramingTypeOK, BegunOK
      <4>6. sent[k].len \in 0 .. MaxLen BY <4>5, PacketTypes
      <4> QED BY <4>4, <4>6
    <3>2. CASE ~\E k \in 1 .. Len(sent) : pkt = <<<<k, 1>>, <<k, 2>>>>
      BY <3>2 DEF Lengths
    <3> QED BY <3>1, <3>2
  <2>3. monitor # "calls" /\ monitor' # "calls" BY <1>7, <2>1 DEF HasHeader, Received
  <2> QED BY <2>1, <2>2, <2>3 DEF dvr, flags, history
<1>8. CASE HasNoPayload
  BY <1>8 DEF HasNoPayload, dvr, flags, history
<1>9. CASE BeginsFrame
  <2>1. /\ Received("payload") /\ want # 0 /\ remaining = 0 /\ began' = pkt[1][1]
        /\ UNCHANGED <<dvr, next, flags, delivered, slow>>
        BY <1>9 DEF BeginsFrame
  <2>2. PICK meaning \in Meaning :
          \/ meaning[1] = "first" /\ Adds(Tail(pkt), meaning[2])
          \/ meaning[1] = "jpeg" /\ Adds(pkt, 0)
          \/ /\ monitor' = "nothing"
             /\ UNCHANGED <<want, pkt, remaining, buf, disturbed>>
        BY <1>9 DEF BeginsFrame
  <2>3. /\ pkt \in Seq(Units) /\ Tail(pkt) \in Seq(Units) /\ began' \in 1 .. MaxPackets
        /\ meaning[2] \in 0 .. MaxTotal /\ 0 \in 0 .. MaxTotal
        BY <2>1, PayloadTypes
  <2>4. PICK data1, data2 : data1 = Tail(pkt) /\ data2 = pkt OBVIOUS
  <2>5. CASE Adds(Tail(pkt), meaning[2])
    <3>1. Adds(data1, meaning[2]) /\ data1 \in Seq(Units) BY <2>3, <2>4, <2>5
    <3> QED BY <2>1, <2>3, <3>1, AddsTypes
  <2>6. CASE Adds(pkt, 0)
    <3>1. Adds(data2, 0) /\ data2 \in Seq(Units) BY <2>3, <2>4, <2>6
    <3> QED BY <2>1, <2>3, <3>1, AddsTypes
  <2>7. CASE monitor' = "nothing" /\ UNCHANGED <<want, pkt, remaining, buf, disturbed>>
    BY <2>1, <2>3, <2>7 DEF dvr, flags
  <2> QED BY <2>2, <2>5, <2>6, <2>7
<1>10. CASE ContinuesFrame
  <2>1. /\ Received("payload") /\ want # 0 /\ remaining # 0 /\ Adds(pkt, remaining)
        /\ UNCHANGED <<dvr, next, flags, began, delivered, slow>>
        BY <1>10 DEF ContinuesFrame
  <2>2. PICK data, total : data = pkt /\ total = remaining OBVIOUS
  <2>3. Adds(data, total) /\ data \in Seq(Units) /\ total \in 0 .. MaxTotal BY <2>1, <2>2
  <2>4. began' \in 1 .. MaxPackets BY <2>1
  <2> QED BY <2>1, <2>3, <2>4, AddsTypes
<1>11. CASE GotNothing \/ CallReturns
  <2>1. /\ UNCHANGED <<dvr, next, recv_failed, began, slow, disturbed>>
        /\ Leaves \/ Loops
        /\ monitor \in {"nothing", "calls"}
        /\ delivered' = delivered \/ (monitor = "calls" /\ delivered' = delivered \cup {began})
        BY <1>11 DEF GotNothing, CallReturns, history
  <2>2. delivered' \subseteq 1 .. MaxPackets
    <3>1. monitor = "calls" => began \in 1 .. MaxPackets OBVIOUS
    <3>2. CASE delivered' = delivered BY <3>2
    <3>3. CASE monitor = "calls" /\ delivered' = delivered \cup {began} BY <3>1, <3>3
    <3> QED BY <2>1, <3>2, <3>3
  <2>3. monitoring' \in BOOLEAN BY <2>1, Zenon DEF Leaves, Loops
  <2>4. \/ monitor' = "ended" /\ UNCHANGED <<want, pkt, remaining, buf>>
        \/ monitor' = "header" /\ want' = 2 /\ pkt' = <<>> /\ buf' = <<>> /\ remaining' = 0
        BY <2>1 DEF Leaves, Loops, Asks, StartsAnew, HeaderLen
  <2>5. CASE monitor' = "ended" /\ UNCHANGED <<want, pkt, remaining, buf>>
        BY <2>1, <2>2, <2>3, <2>5 DEF dvr
  <2>6. CASE monitor' = "header" /\ want' = 2 /\ pkt' = <<>> /\ buf' = <<>> /\ remaining' = 0
        BY <2>1, <2>2, <2>3, <2>6 DEF dvr
  <2> QED BY <2>4, <2>5, <2>6
<1>12. CASE StopMonitor
  <2>1. monitoring' \in BOOLEAN BY <1>12, Zenon DEF StopMonitor
  <2> QED BY <1>12, <2>1 DEF StopMonitor, dvr, history
<1>13. CASE UNCHANGED vars
  BY <1>13 DEF vars, dvr, flags, history
<1> QED BY <1>2, <1>3, <1>4, <1>5, <1>6, <1>7, <1>8, <1>9, <1>10, <1>11, <1>12, <1>13 DEF Next

(* Every variable of the monitor keeps its type, whatever deadlines cut and  *)
(* whatever is then taken for a header, for every bound on packets, pieces   *)
(* and frames.                                                              *)
THEOREM TypeCorrect == Spec => []FramingTypeOK
<1>1. Init => TypesOK
  <2> SUFFICES ASSUME Init PROVE TypesOK OBVIOUS
  <2> USE FramingAssumption DEF Init, HeaderLen
  <2>1. sent = <<>> /\ pkt = <<>> /\ buf = <<>> /\ Len(sent) = 0 /\ Len(pkt) = 0 OBVIOUS
  <2>2. next \in (1 .. MaxPackets + 1) \X (1 .. HeaderLen + MaxLen) OBVIOUS
  <2>3. BegunOK BY <2>1 DEF BegunOK
  <2>4. left \in 0 .. MaxTotal /\ remaining \in 0 .. MaxTotal /\ began \in 0 .. MaxPackets
        /\ delivered \subseteq 1 .. MaxPackets /\ want \in Nat /\ Len(pkt) <= want
        BY <2>1
  <2>5. <<>> \in Seq([type : {"first", "more", "jpeg", "unknown"}, len : 0 .. MaxLen,
                      total : 0 .. MaxTotal]) /\ <<>> \in Seq(Units)
        OBVIOUS
  <2>6. /\ monitor \in {"header", "payload", "nothing", "calls", "ended"} /\ Len(sent) <= MaxPackets
        BY <2>1
  <2>8. {monitoring, recv_failed, slow, disturbed} \subseteq BOOLEAN BY Zenon
  <2>7. /\ sent \in Seq([type : {"first", "more", "jpeg", "unknown"}, len : 0 .. MaxLen,
                         total : 0 .. MaxTotal])
        /\ pkt \in Seq(Units) /\ buf \in Seq(Units)
        BY <2>1, <2>5
  <2> HIDE DEF Init
  <2> QED BY <2>2, <2>3, <2>4, <2>6, <2>7, <2>8 DEF TypesOK, FramingTypeOK
<1>2. TypesOK => FramingTypeOK BY DEF TypesOK
<1> QED BY <1>1, <1>2, TypesStep, PTL DEF Spec
=============================================================================
