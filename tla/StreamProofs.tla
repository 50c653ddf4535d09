---------------------------- MODULE StreamProofs ----------------------------
(***************************************************************************)
(* Proofs about the stream server: JpegPath, and StreamServer that extends *)
(* it, for any number of text boxes, clients and frames and any capacity   *)
(* of the pipe and the queue.                                              *)
(***************************************************************************)
EXTENDS StreamServer, SequenceTheorems, TLAPS

-----------------------------------------------------------------------------
(* The inductive invariant of JpegPath.                                    *)

(* A frame is at most in one of the pipe, the slot and the worker's hand,  *)
(* and they are older in this order.                                       *)
Holding     == worker \in {"drawing", "showing"}
Unseen(jpg) == /\ jpg.id <= made
               /\ \A i \in 1 .. Len(shown) : shown[i].id < jpg.id

HandIsNewer == Holding => Unseen(hand)
SlotIsNewer == slot # NoJpeg => Unseen(slot) /\ (Holding => hand.id < slot.id)
NewerInPipe(k) ==
  /\ Unseen(stdout[k])
  /\ Holding => hand.id < stdout[k].id
  /\ slot # NoJpeg => slot.id < stdout[k].id
  /\ \A j \in 1 .. k - 1 : stdout[j].id < stdout[k].id
PipeIsNewer == \A k \in 1 .. Len(stdout) : NewerInPipe(k)
ShownIsMade == \A i \in 1 .. Len(shown) : shown[i].id <= made

OrderInv == HandIsNewer /\ SlotIsNewer /\ PipeIsNewer /\ ShownIsMade /\ ShownInOrder

(* What has been given to the three consumers, by where the worker is.     *)
RecordedAsShown ==
  /\ Len(shown) = Len(recorded) + (IF worker = "recording" THEN 1 ELSE 0)
  /\ \A i \in 1 .. Len(recorded) : recorded[i] = shown[i]
  /\ worker = "recording" => hand = shown[Len(shown)]

LatestIsRecorded ==
  /\ worker = "updating" => recorded # <<>> /\ hand = recorded[Len(recorded)]
  /\ LET n == IF worker = "updating" THEN Len(recorded) - 1 ELSE Len(recorded)
     IN  latest # NoJpeg => n > 0 /\ latest = recorded[n]

(* The slot is closed by a reader that puts nothing into it any more, and  *)
(* the worker ends when it is closed and empty.                            *)
SlotInv ==
  /\ reader \in {"reading", "closing"} => ~slot_done
  /\ worker = "ended" => slot_done /\ slot = NoJpeg

(* A region whose text is in both buffers is not dirty; while a frame is   *)
(* drawn, what is visible is among the texts that have been current.       *)
OverlayInv ==
  /\ \A r \in Regions : ~dirty[r] => front[r] = back[r]
  /\ worker = "drawing" => \A r \in Regions : Visible(r) \in current[r]
  /\ OverlayIsCurrent

(* Of n frames shown the last is at least the n-th that ffmpeg has made.   *)
NumberedInv == \A i \in 1 .. Len(shown) : i <= shown[i].id

JpegPathInv == /\ JpegPathTypeOK /\ OrderInv /\ NumberedInv
               /\ RecordedAsShown /\ LatestIsRecorded /\ SlotInv /\ OverlayInv

USE DEF process, slots, working, texts, outputs, clients, ThreadsEnded, ClosedSlot,
        HasFrame, TakenSlot, EndsWhenEmpty, MarksDirty, ClientGoes

-----------------------------------------------------------------------------
(* Types. *)

LEMMA JpegInitTypes == JpegPathInit => JpegPathTypeOK
<1> SUFFICES ASSUME JpegPathInit PROVE JpegPathTypeOK
  OBVIOUS
<1> USE BoxesAssumption, PipeAssumption, JpegBoundsAssumption DEF JpegPathInit
<1>1. /\ stdout \in Seq(Jpeg) /\ Len(stdout) <= PipeFrames
      /\ shown \in Seq(Jpeg) /\ recorded \in Seq(Jpeg)
  OBVIOUS
<1>2. /\ back \in [Regions -> Text] /\ front \in [Regions -> Text]
      /\ dirty \in [Regions -> BOOLEAN] /\ active \subseteq Regions
      /\ current \in [Regions -> SUBSET Text]
  BY DEF Regions, NoText, Text
<1>3. QED
  BY <1>1, <1>2 DEF JpegPathTypeOK, Text

(* A JPEG keeps its type and number when texts are drawn into it. *)
LEMMA DrawnTypes ==
  ASSUME NEW jpg \in Jpeg, NEW r \in Regions, NEW t \in Text
  PROVE  /\ [jpg EXCEPT !.drawn[r] = t] \in Jpeg
         /\ [jpg EXCEPT !.drawn[r] = t].id = jpg.id
         /\ [jpg EXCEPT !.drawn[r] = t].drawn = [jpg.drawn EXCEPT ![r] = t]
BY JpegBoundsAssumption DEF Jpeg, Text

LEMMA BlankTypes ==
  ASSUME NEW jpg \in Jpeg
  PROVE  LET blank == [jpg EXCEPT !.drawn = [r \in Regions |-> NoText]]
         IN  blank \in Jpeg /\ blank.id = jpg.id
BY JpegBoundsAssumption DEF Jpeg, NoText, Text

LEMMA JpegTypesStep == JpegPathTypeOK /\ [JpegPathNext]_jpvars => JpegPathTypeOK'
<1> SUFFICES ASSUME JpegPathTypeOK, [JpegPathNext]_jpvars PROVE JpegPathTypeOK'
  OBVIOUS
<1> USE BoxesAssumption, PipeAssumption, JpegBoundsAssumption, NoJpegAssumption
        DEF JpegPathTypeOK
<1>1. CASE SpawnRun
  <2>1. stdout' \in Seq(Jpeg) /\ Len(stdout') <= PipeFrames
    BY <1>1 DEF SpawnRun
  <2>2. QED
    BY <1>1, <2>1 DEF SpawnRun
<1>2. CASE StartThreads \/ Terminate \/ JoinRun \/ SetRunning \/ FfmpegDies
  <2>1. CASE Terminate
    BY <2>1 DEF Terminate
  <2>2. CASE JoinRun
    BY <2>2 DEF JoinRun
  <2>3. CASE SetRunning
    BY <2>3 DEF SetRunning
  <2>4. CASE FfmpegDies
    BY <2>4 DEF FfmpegDies
  <2>5. CASE StartThreads
    BY <2>5 DEF StartThreads
  <2>6. QED
    BY <1>2, <2>1, <2>2, <2>3, <2>4, <2>5
<1>3. CASE FfmpegMakes
  <2> DEFINE jpg == [id |-> made + 1, drawn |-> [r \in Regions |-> NoText]]
  <2>1. jpg \in Jpeg
    BY <1>3 DEF FfmpegMakes, Jpeg, NoText, Text
  <2>2. stdout' \in Seq(Jpeg) /\ Len(stdout') = Len(stdout) + 1
    BY <1>3, <2>1, AppendProperties DEF FfmpegMakes
  <2>3. QED
    BY <1>3, <2>2, LenProperties DEF FfmpegMakes
<1>4. CASE ReaderPuts
  <2>1. /\ Head(stdout) \in Jpeg /\ Tail(stdout) \in Seq(Jpeg)
        /\ Len(Tail(stdout)) = Len(stdout) - 1
    BY <1>4, HeadTailProperties DEF ReaderPuts
  <2>2. QED
    BY <1>4, <2>1, LenProperties DEF ReaderPuts
<1>5. CASE ReaderSeesEnd \/ ReaderCloses \/ WorkerEnds
  BY <1>5 DEF ReaderSeesEnd, ReaderCloses, WorkerEnds
<1>6. CASE WorkerTakes
  BY <1>6 DEF WorkerTakes, Visible, Regions, NoText, Text
<1>7. CASE WorkerSnaps
  <2> DEFINE text == IF dirty[region] THEN back[region] ELSE front[region]
  <2>1. text \in Text /\ NoText \in Text /\ hand \in Jpeg /\ region \in Regions
    BY <1>7 DEF WorkerSnaps, NoText, Text
  <2>2. hand' \in Jpeg
    BY <1>7, <2>1, DrawnTypes DEF WorkerSnaps
  <2>3. front' \in [Regions -> Text] /\ dirty' \in [Regions -> BOOLEAN]
    BY <1>7, <2>1 DEF WorkerSnaps
  <2>4. region' \in 0 .. Boxes + 1
    BY <1>7 DEF WorkerSnaps, Regions
  <2>5. QED
    BY <1>7, <2>2, <2>3, <2>4 DEF WorkerSnaps
<1>8. CASE WorkerDraws
  BY <1>8, BlankTypes DEF WorkerDraws
<1>9. CASE WorkerShows \/ WorkerRecords
  <2>1. hand \in Jpeg
    BY <1>9 DEF WorkerShows, WorkerRecords
  <2>2. Append(shown, hand) \in Seq(Jpeg) /\ Append(recorded, hand) \in Seq(Jpeg)
    BY <2>1, AppendProperties
  <2>3. QED
    BY <1>9, <2>1, <2>2 DEF WorkerShows, WorkerRecords
<1>10. CASE WorkerUpdates
  BY <1>10 DEF WorkerUpdates
<1>11. CASE \E r \in Regions : OverlayPrint(r) \/ OverlayClear(r) \/ OverlayConfigure(r)
  <2>1. PICK r \in Regions : OverlayPrint(r) \/ OverlayClear(r) \/ OverlayConfigure(r)
    BY <1>11
  <2>2. CASE OverlayConfigure(r)
    BY <2>1, <2>2 DEF OverlayConfigure
  <2>3. ASSUME NEW t \in Text, Writes(r, t), prints' \in Text PROVE JpegPathTypeOK'
    BY <2>3 DEF Writes, NoText, Text
  <2>4. CASE OverlayPrint(r)
    <3>1. prints + 1 \in Text /\ prints' \in Text
      BY <2>4 DEF OverlayPrint, Text
    <3>2. QED
      BY <2>3, <2>4, <3>1 DEF OverlayPrint
  <2>5. CASE OverlayClear(r)
    <3>1. NoText \in Text /\ prints' \in Text
      BY <2>5 DEF OverlayClear, NoText, Text
    <3>2. QED
      BY <2>3, <2>5, <3>1 DEF OverlayClear
  <2>6. QED
    BY <2>1, <2>2, <2>4, <2>5
<1>12. CASE \E c \in Clients : ClientConnects(c) \/ ClientLoops(c) \/ ClientGets(c)
                                \/ ClientWaitsInVain(c) \/ ClientSends(c)
  <2>1. UNCHANGED <<running, process, pipe_ok, reader, slots, working, texts, outputs>>
    BY <1>12 DEF ClientConnects, ClientLoops, ClientGets, ClientWaitsInVain, ClientSends
  <2>2. client' \in [Clients -> {"off", "looping", "waiting", "sending", "closed"}]
    BY <1>12 DEF ClientConnects, ClientLoops, ClientGets, ClientWaitsInVain, ClientSends
  <2>3. client_jpeg' \in [Clients -> Jpeg \cup {NoJpeg}]
    BY <1>12 DEF ClientConnects, ClientLoops, ClientGets, ClientWaitsInVain, ClientSends
  <2>4. QED
    BY <2>1, <2>2, <2>3
<1>13. CASE UNCHANGED jpvars
  BY <1>13 DEF jpvars
<1>14. QED
  BY <1>1, <1>2, <1>3, <1>4, <1>5, <1>6, <1>7, <1>8, <1>9, <1>10, <1>11, <1>12, <1>13
  DEF JpegPathNext
-----------------------------------------------------------------------------
(* The order of frames. *)

USE DEF OrderInv, HandIsNewer, SlotIsNewer, PipeIsNewer, ShownIsMade, ShownInOrder,
        Unseen

(* What shows no frame, moves none, and makes none. *)
LEMMA OrderKept ==
  ASSUME OrderInv, UNCHANGED <<made, shown, stdout, slot>>,
         Holding' => Holding /\ hand'.id = hand.id
  PROVE  OrderInv'
BY DEF NewerInPipe

(* The numbers of frames are numbers. *)
LEMMA IdTypes ==
  ASSUME JpegPathTypeOK
  PROVE  /\ made \in Nat /\ stdout \in Seq(Jpeg) /\ shown \in Seq(Jpeg)
         /\ Len(stdout) \in Nat /\ Len(shown) \in Nat
         /\ slot # NoJpeg => slot \in Jpeg /\ slot.id \in Nat
         /\ Holding => hand \in Jpeg /\ hand.id \in Nat
         /\ \A k \in 1 .. Len(stdout) : stdout[k] \in Jpeg /\ stdout[k].id \in Nat
         /\ \A i \in 1 .. Len(shown) : shown[i] \in Jpeg /\ shown[i].id \in Nat
<1>1. \A jpg \in Jpeg : jpg.id \in Nat
  BY JpegBoundsAssumption DEF Jpeg
<1>2. stdout \in Seq(Jpeg) /\ shown \in Seq(Jpeg) /\ made \in Nat
  BY JpegBoundsAssumption DEF JpegPathTypeOK
<1>3. (slot # NoJpeg => slot \in Jpeg) /\ (Holding => hand \in Jpeg)
  BY DEF JpegPathTypeOK, Holding
<1>4. /\ \A k \in 1 .. Len(stdout) : stdout[k] \in Jpeg
      /\ \A i \in 1 .. Len(shown) : shown[i] \in Jpeg
  BY <1>2, ElementOfSeq
<1>5. QED
  BY <1>1, <1>2, <1>3, <1>4, LenProperties

LEMMA HandKeepsId ==
  ASSUME JpegPathTypeOK, WorkerSnaps \/ WorkerDraws
  PROVE  hand \in Jpeg /\ hand' \in Jpeg /\ hand'.id = hand.id
<1>1. CASE WorkerSnaps
  <2> DEFINE text == IF dirty[region] THEN back[region] ELSE front[region]
  <2>1. region \in Regions /\ hand \in Jpeg
    BY <1>1 DEF WorkerSnaps, JpegPathTypeOK
  <2>2. (IF region \in active THEN text ELSE NoText) \in Text
    BY <2>1, JpegBoundsAssumption DEF JpegPathTypeOK, NoText, Text
  <2>3. hand' = [hand EXCEPT !.drawn[region] = IF region \in active THEN text ELSE NoText]
    BY <1>1 DEF WorkerSnaps
  <2>4. QED
    BY <2>1, <2>2, <2>3, DrawnTypes
<1>2. CASE WorkerDraws
  <2>1. hand \in Jpeg /\ (hand' = hand
                         \/ hand' = [hand EXCEPT !.drawn = [r \in Regions |-> NoText]])
    BY <1>2 DEF WorkerDraws, JpegPathTypeOK
  <2>2. QED
    BY <2>1, BlankTypes
<1>3. QED
  BY <1>1, <1>2

LEMMA OrderStep == JpegPathTypeOK /\ OrderInv /\ [JpegPathNext]_jpvars => OrderInv'
<1> SUFFICES ASSUME JpegPathTypeOK, OrderInv, [JpegPathNext]_jpvars
             PROVE  OrderInv'
  OBVIOUS
<1>1. /\ made \in Nat /\ stdout \in Seq(Jpeg) /\ shown \in Seq(Jpeg)
      /\ Len(stdout) \in Nat /\ Len(shown) \in Nat
      /\ slot # NoJpeg => slot \in Jpeg /\ slot.id \in Nat
      /\ Holding => hand \in Jpeg /\ hand.id \in Nat
      /\ \A k \in 1 .. Len(stdout) : stdout[k] \in Jpeg /\ stdout[k].id \in Nat
      /\ \A i \in 1 .. Len(shown) : shown[i] \in Jpeg /\ shown[i].id \in Nat
  BY IdTypes
<1>2. CASE SpawnRun \/ StartThreads
  <2>1. CASE SpawnRun
    BY <2>1, <1>1 DEF SpawnRun, Holding
  <2>2. CASE StartThreads
    BY <2>2, <1>1 DEF StartThreads, Holding, NewerInPipe
  <2>3. QED
    BY <1>2, <2>1, <2>2
<1>3. CASE FfmpegMakes
  <2> DEFINE jpg == [id |-> made + 1, drawn |-> [r \in Regions |-> NoText]]
  <2>1. /\ Len(stdout') = Len(stdout) + 1 /\ stdout'[Len(stdout) + 1] = jpg
        /\ \A k \in 1 .. Len(stdout) : stdout'[k] = stdout[k]
    BY <1>3, <1>1 DEF FfmpegMakes
  <2>2. made' = made + 1 /\ UNCHANGED <<shown, slot, worker, hand>> /\ jpg.id = made + 1
    BY <1>3 DEF FfmpegMakes
  <2>3. HandIsNewer' /\ SlotIsNewer' /\ ShownIsMade' /\ ShownInOrder'
    BY <2>2, <1>1 DEF Holding
  <2>4. ASSUME NEW k \in 1 .. Len(stdout) PROVE NewerInPipe(k)'
    <3>1. NewerInPipe(k) /\ stdout'[k] = stdout[k] /\ stdout[k] \in Jpeg
      BY <1>1, <2>1, ElementOfSeq
    <3>2. \A j \in 1 .. k - 1 : stdout'[j] = stdout[j]
      BY <1>1, <2>1
    <3>3. made' = made + 1 /\ shown' = shown /\ slot' = slot /\ Holding' = Holding
          /\ hand' = hand /\ stdout[k].id \in Nat
      BY <1>1, <2>2 DEF Holding
    <3>4. Unseen(stdout[k])'
      BY <1>1, <3>1, <3>3 DEF NewerInPipe
    <3>5. QED
      BY <3>1, <3>2, <3>3, <3>4 DEF NewerInPipe
  <2>5. ASSUME NEW k \in Nat, k = Len(stdout) + 1 PROVE NewerInPipe(k)'
    <3>1. ASSUME NEW i \in 1 .. Len(shown') PROVE shown'[i].id < made + 1
      <4>1. shown' = shown
        BY <2>2
      <4>2. shown[i].id <= made /\ shown[i].id \in Nat
        BY <1>1, <4>1
      <4>3. QED
        BY <1>1, <4>1, <4>2
    <3>2. \A j \in 1 .. Len(stdout) : stdout'[j].id < made + 1
      BY <1>1, <2>1 DEF NewerInPipe
    <3>3. QED
      BY <1>1, <2>1, <2>2, <2>5, <3>1, <3>2 DEF NewerInPipe, Holding
  <2>6. PipeIsNewer'
    <3> SUFFICES ASSUME NEW k \in 1 .. Len(stdout') PROVE NewerInPipe(k)'
      OBVIOUS
    <3>1. k \in 1 .. Len(stdout) \/ k = Len(stdout) + 1
      BY <1>1, <2>1
    <3>2. QED
      BY <1>1, <2>4, <2>5, <3>1
  <2>7. QED
    BY <2>3, <2>6
<1>4. CASE ReaderPuts
  <2>1. /\ slot' = stdout[1] /\ slot' # NoJpeg /\ Len(stdout) > 0 /\ stdout[1] \in Jpeg
        /\ Len(stdout') = Len(stdout) - 1
        /\ \A k \in 1 .. Len(stdout') : stdout'[k] = stdout[k + 1]
    BY <1>4, <1>1, HeadTailProperties, NoJpegAssumption DEF ReaderPuts
  <2>2. UNCHANGED <<made, shown, worker, hand>>
    BY <1>4 DEF ReaderPuts
  <2>3. NewerInPipe(1)
    BY <2>1
  <2>4. ASSUME NEW k \in 1 .. Len(stdout') PROVE NewerInPipe(k)'
    <3>1. k + 1 \in 1 .. Len(stdout) /\ k \in 1 .. Len(stdout) - 1 /\ 1 \in 1 .. (k + 1) - 1
      BY <1>1, <2>1
    <3>2. NewerInPipe(k + 1) /\ stdout'[k] = stdout[k + 1]
      BY <2>1, <3>1
    <3>3. ASSUME NEW j \in 1 .. k - 1 PROVE stdout'[j].id < stdout'[k].id
      <4>1. j \in 1 .. Len(stdout') /\ j + 1 \in 1 .. (k + 1) - 1
        BY <1>1, <2>1, <3>1
      <4>2. QED
        BY <2>1, <3>2, <4>1 DEF NewerInPipe
    <3>4. slot'.id < stdout'[k].id
      BY <2>1, <3>1, <3>2 DEF NewerInPipe
    <3>5. Unseen(stdout[k])' /\ (Holding' => hand'.id < stdout'[k].id)
      BY <2>2, <3>2 DEF NewerInPipe, Holding
    <3>6. QED
      BY <3>3, <3>4, <3>5 DEF NewerInPipe
  <2>5. QED
    BY <2>1, <2>2, <2>3, <2>4, <1>1 DEF NewerInPipe, Holding
<1>5. CASE WorkerTakes
  <2>1. /\ hand' = slot /\ slot # NoJpeg /\ slot' = NoJpeg /\ Holding'
        /\ UNCHANGED <<made, shown, stdout>>
    BY <1>5 DEF WorkerTakes, Holding
  <2>2. QED
    BY <2>1, <1>1 DEF NewerInPipe
<1>6. CASE WorkerSnaps
  <2>1. UNCHANGED <<made, shown, stdout, slot, worker>>
    BY <1>6 DEF WorkerSnaps
  <2>2. hand'.id = hand.id
    BY <1>6, HandKeepsId
  <2>3. QED
    BY <2>1, <2>2, OrderKept DEF Holding
<1>7. CASE WorkerDraws
  <2>1. UNCHANGED <<made, shown, stdout, slot>> /\ Holding
    BY <1>7 DEF WorkerDraws, Holding
  <2>2. hand'.id = hand.id
    BY <1>7, HandKeepsId
  <2>3. QED
    BY <2>1, <2>2, OrderKept
<1>8. CASE WorkerShows
  <2>1. /\ UNCHANGED <<made, stdout, slot>> /\ Holding /\ ~Holding' /\ hand \in Jpeg
    BY <1>1, <1>8 DEF WorkerShows, Holding
  <2>2. /\ Len(shown') = Len(shown) + 1 /\ shown'[Len(shown) + 1] = hand
        /\ \A i \in 1 .. Len(shown) : shown'[i] = shown[i]
    BY <1>8, <1>1, <2>1, AppendProperties DEF WorkerShows
  <2>3. ASSUME NEW jpg, jpg.id \in Nat, Unseen(jpg), hand.id < jpg.id
        PROVE  jpg.id <= made /\ \A i \in 1 .. Len(shown') : shown'[i].id < jpg.id
    <3> SUFFICES ASSUME NEW i \in 1 .. Len(shown') PROVE shown'[i].id < jpg.id
      BY <2>3
    <3>1. i \in 1 .. Len(shown) \/ i = Len(shown) + 1
      BY <1>1, <2>2
    <3>2. QED
      BY <2>2, <2>3, <3>1
  <2>4. SlotIsNewer'
    BY <2>1, <2>3, <1>1
  <2>5. PipeIsNewer'
    <3> SUFFICES ASSUME NEW k \in 1 .. Len(stdout) PROVE NewerInPipe(k)'
      BY <2>1
    <3>1. NewerInPipe(k) /\ stdout[k] \in Jpeg
      BY <1>1, ElementOfSeq
    <3>2. Unseen(stdout[k])'
      BY <2>1, <2>3, <3>1, <1>1 DEF NewerInPipe
    <3>3. QED
      BY <2>1, <3>1, <3>2 DEF NewerInPipe
  <2>6. ASSUME NEW i \in 1 .. Len(shown')
        PROVE  /\ shown'[i].id <= made'
               /\ i \in 1 .. Len(shown') - 1 => shown'[i].id < shown'[i + 1].id
    <3>1. CASE i = Len(shown) + 1
      BY <1>1, <2>1, <2>2, <3>1
    <3>2. CASE i = Len(shown)
      BY <1>1, <2>1, <2>2, <3>2
    <3>3. CASE i \in 1 .. Len(shown) - 1
      <4>1. i \in 1 .. Len(shown) /\ i + 1 \in 1 .. Len(shown)
        BY <1>1, <3>3
      <4>2. QED
        BY <2>1, <2>2, <3>3, <4>1
    <3>4. QED
      BY <1>1, <2>2, <3>1, <3>2, <3>3
  <2>7. QED
    BY <2>1, <2>4, <2>5, <2>6
<1>9. CASE Terminate \/ JoinRun \/ SetRunning \/ FfmpegDies
  BY <1>9, OrderKept
  DEF Terminate, JoinRun, SetRunning, FfmpegDies, Holding
<1>10. CASE ReaderSeesEnd \/ ReaderCloses \/ WorkerEnds \/ WorkerRecords \/ WorkerUpdates
  BY <1>10, OrderKept
  DEF ReaderSeesEnd, ReaderCloses, WorkerEnds, WorkerRecords, WorkerUpdates, Holding
<1>11. CASE \E r \in Regions : OverlayPrint(r) \/ OverlayClear(r) \/ OverlayConfigure(r)
  BY <1>11, OrderKept
  DEF OverlayPrint, OverlayClear, OverlayConfigure, Writes, Holding
<1>12. CASE \E c \in Clients : ClientConnects(c) \/ ClientLoops(c) \/ ClientGets(c)
                                \/ ClientWaitsInVain(c) \/ ClientSends(c)
  BY <1>12, OrderKept
  DEF ClientConnects, ClientLoops, ClientGets, ClientWaitsInVain, ClientSends, Holding
<1>13. CASE UNCHANGED jpvars
  BY <1>13, OrderKept DEF jpvars, Holding
<1>14. QED
  BY <1>2, <1>3, <1>4, <1>5, <1>6, <1>7, <1>8, <1>9, <1>10, <1>11, <1>12, <1>13
  DEF JpegPathNext

(* Only WorkerShows shows a frame. *)
LEMMA NumberedStep ==
  JpegPathTypeOK /\ OrderInv /\ NumberedInv /\ [JpegPathNext]_jpvars => NumberedInv'
<1> SUFFICES ASSUME JpegPathTypeOK, OrderInv, NumberedInv, [JpegPathNext]_jpvars
             PROVE  NumberedInv'
  OBVIOUS
<1> USE DEF NumberedInv
<1>1. \A jpg \in Jpeg : jpg.id \in Nat
  BY JpegBoundsAssumption DEF Jpeg
<1>2. CASE WorkerShows
  <2>1. Holding /\ hand \in Jpeg /\ shown \in Seq(Jpeg) /\ Len(shown) \in Nat
    BY <1>2, LenProperties DEF WorkerShows, Holding, JpegPathTypeOK
  <2>2. /\ Len(shown') = Len(shown) + 1 /\ shown'[Len(shown) + 1] = hand
        /\ \A i \in 1 .. Len(shown) : shown'[i] = shown[i]
    BY <1>2, <2>1, AppendProperties DEF WorkerShows
  <2>3. Len(shown) + 1 <= hand.id
    <3>1. CASE Len(shown) = 0
      BY <2>1, <3>1, JpegBoundsAssumption DEF Jpeg
    <3>2. CASE Len(shown) > 0
      <4>1. Len(shown) \in 1 .. Len(shown) /\ shown[Len(shown)] \in Jpeg
        BY <2>1, <3>2, ElementOfSeq
      <4>2. Len(shown) <= shown[Len(shown)].id /\ shown[Len(shown)].id < hand.id
        BY <2>1, <4>1
      <4>3. QED
        BY <1>1, <2>1, <4>1, <4>2
    <3>3. QED
      BY <2>1, <3>1, <3>2
  <2>4. QED
    BY <2>1, <2>2, <2>3
<1>3. CASE \/ SpawnRun \/ StartThreads \/ Terminate \/ JoinRun \/ SetRunning
           \/ FfmpegMakes \/ FfmpegDies
  BY <1>3 DEF SpawnRun, StartThreads, Terminate, JoinRun, SetRunning, FfmpegMakes, FfmpegDies
<1>4. CASE \/ ReaderPuts \/ ReaderSeesEnd \/ ReaderCloses \/ WorkerTakes \/ WorkerEnds
           \/ WorkerSnaps \/ WorkerDraws \/ WorkerRecords \/ WorkerUpdates
  BY <1>4 DEF ReaderPuts, ReaderSeesEnd, ReaderCloses, WorkerTakes, WorkerEnds,
              WorkerSnaps, WorkerDraws, WorkerRecords, WorkerUpdates
<1>5. CASE \E r \in Regions : OverlayPrint(r) \/ OverlayClear(r) \/ OverlayConfigure(r)
  BY <1>5 DEF OverlayPrint, OverlayClear, OverlayConfigure, Writes
<1>6. CASE \E c \in Clients : ClientConnects(c) \/ ClientLoops(c) \/ ClientGets(c)
                                \/ ClientWaitsInVain(c) \/ ClientSends(c)
  BY <1>6 DEF ClientConnects, ClientLoops, ClientGets, ClientWaitsInVain, ClientSends
<1>7. CASE UNCHANGED jpvars
  BY <1>7 DEF jpvars
<1>8. QED
  BY <1>2, <1>3, <1>4, <1>5, <1>6, <1>7 DEF JpegPathNext

HIDE DEF OrderInv, HandIsNewer, SlotIsNewer, PipeIsNewer, ShownIsMade, ShownInOrder,
         Unseen
-----------------------------------------------------------------------------
(* The consumers. *)

ConsumersInv == RecordedAsShown /\ LatestIsRecorded

LEMMA ConsumersStep ==
  JpegPathTypeOK /\ ConsumersInv /\ [JpegPathNext]_jpvars => ConsumersInv'
<1> SUFFICES ASSUME JpegPathTypeOK, ConsumersInv, [JpegPathNext]_jpvars
             PROVE  ConsumersInv'
  OBVIOUS
<1> USE DEF ConsumersInv, RecordedAsShown, LatestIsRecorded
<1>1. /\ shown \in Seq(Jpeg) /\ recorded \in Seq(Jpeg)
      /\ Len(shown) \in Nat /\ Len(recorded) \in Nat
      /\ worker \in {"drawing", "showing", "recording", "updating"} => hand \in Jpeg
  BY LenProperties DEF JpegPathTypeOK
<1>2. ASSUME UNCHANGED <<shown, recorded, latest>>, worker \notin {"recording", "updating"},
             worker' \notin {"recording", "updating"}
      PROVE  ConsumersInv'
  BY <1>2
<1>3. ASSUME UNCHANGED <<shown, recorded, latest, worker, hand>> PROVE ConsumersInv'
  BY <1>3
<1>4. CASE WorkerShows
  <2>1. /\ worker = "showing" /\ worker' = "recording" /\ hand' = hand
        /\ recorded' = recorded /\ latest' = latest
    BY <1>4 DEF WorkerShows
  <2>2. /\ Len(shown') = Len(shown) + 1 /\ shown'[Len(shown')] = hand
        /\ \A i \in 1 .. Len(shown) : shown'[i] = shown[i]
    BY <1>1, <1>4, <2>1, AppendProperties DEF WorkerShows
  <2>3. QED
    BY <1>1, <2>1, <2>2
<1>5. CASE WorkerRecords
  <2>1. /\ worker = "recording" /\ worker' = "updating" /\ hand' = hand
        /\ shown' = shown /\ latest' = latest
    BY <1>5 DEF WorkerRecords
  <2>2. /\ Len(recorded') = Len(recorded) + 1 /\ recorded'[Len(recorded')] = hand
        /\ \A i \in 1 .. Len(recorded) : recorded'[i] = recorded[i]
        /\ recorded' # <<>>
    BY <1>1, <1>5, <2>1, AppendProperties DEF WorkerRecords
  <2>3. QED
    BY <1>1, <2>1, <2>2
<1>6. CASE WorkerUpdates
  BY <1>1, <1>6, EmptySeq DEF WorkerUpdates
<1>7. CASE (Threadless /\ StartThreads) \/ JoinRun \/ WorkerTakes \/ WorkerEnds \/ WorkerDraws
  BY <1>2, <1>7 DEF Threadless, StartThreads, JoinRun, WorkerTakes, WorkerEnds, WorkerDraws
<1>8. CASE WorkerSnaps
  BY <1>2, <1>8 DEF WorkerSnaps
<1>9. CASE \/ SpawnRun \/ Terminate \/ SetRunning \/ FfmpegMakes \/ FfmpegDies
           \/ ReaderPuts \/ ReaderSeesEnd \/ ReaderCloses
  BY <1>3, <1>9 DEF SpawnRun, Terminate, SetRunning, FfmpegMakes, FfmpegDies, ReaderPuts,
                    ReaderSeesEnd, ReaderCloses
<1>10. CASE \E r \in Regions : OverlayPrint(r) \/ OverlayClear(r) \/ OverlayConfigure(r)
  BY <1>3, <1>10 DEF OverlayPrint, OverlayClear, OverlayConfigure, Writes
<1>11. CASE \E c \in Clients : ClientConnects(c) \/ ClientLoops(c) \/ ClientGets(c)
                                \/ ClientWaitsInVain(c) \/ ClientSends(c)
  BY <1>3, <1>11
  DEF ClientConnects, ClientLoops, ClientGets, ClientWaitsInVain, ClientSends
<1>12. CASE UNCHANGED jpvars
  BY <1>3, <1>12 DEF jpvars
<1>13. QED
  BY <1>4, <1>5, <1>6, <1>7, <1>8, <1>9, <1>10, <1>11, <1>12 DEF JpegPathNext

(* A worker that has ended has left nothing in the slot. *)
LEMMA SlotStep == SlotInv /\ [JpegPathNext]_jpvars => SlotInv'
<1> SUFFICES ASSUME SlotInv, [JpegPathNext]_jpvars PROVE SlotInv'
  OBVIOUS
<1> USE DEF SlotInv
<1>1. CASE StartThreads \/ JoinRun \/ ReaderPuts \/ ReaderSeesEnd \/ ReaderCloses
  BY <1>1 DEF StartThreads, JoinRun, ReaderPuts, ReaderSeesEnd, ReaderCloses
<1>2. CASE WorkerTakes \/ WorkerEnds \/ WorkerSnaps \/ WorkerDraws
  BY <1>2 DEF WorkerTakes, WorkerEnds, WorkerSnaps, WorkerDraws
<1>3. CASE WorkerShows \/ WorkerRecords \/ WorkerUpdates
  BY <1>3 DEF WorkerShows, WorkerRecords, WorkerUpdates
<1>4. CASE SpawnRun \/ Terminate \/ SetRunning \/ FfmpegMakes \/ FfmpegDies
  BY <1>4 DEF SpawnRun, Terminate, SetRunning, FfmpegMakes, FfmpegDies
<1>5. CASE \E r \in Regions : OverlayPrint(r) \/ OverlayClear(r) \/ OverlayConfigure(r)
  BY <1>5 DEF OverlayPrint, OverlayClear, OverlayConfigure, Writes
<1>6. CASE \E c \in Clients : ClientConnects(c) \/ ClientLoops(c) \/ ClientGets(c)
                                \/ ClientWaitsInVain(c) \/ ClientSends(c)
  BY <1>6 DEF ClientConnects, ClientLoops, ClientGets, ClientWaitsInVain, ClientSends
<1>7. CASE UNCHANGED jpvars
  BY <1>7 DEF jpvars
<1>8. QED
  BY <1>1, <1>2, <1>3, <1>4, <1>5, <1>6, <1>7 DEF JpegPathNext

(* The overlay. *)
LEMMA OverlayStep ==
  JpegPathTypeOK /\ OverlayInv /\ [JpegPathNext]_jpvars => OverlayInv'
<1> SUFFICES ASSUME JpegPathTypeOK, OverlayInv, [JpegPathNext]_jpvars
             PROVE  OverlayInv'
  OBVIOUS
<1> USE DEF OverlayInv, OverlayIsCurrent
<1>1. /\ back \in [Regions -> Text] /\ front \in [Regions -> Text]
      /\ dirty \in [Regions -> BOOLEAN] /\ current \in [Regions -> SUBSET Text]
      /\ region \in 0 .. Boxes + 1 /\ active \subseteq Regions
      /\ worker = "drawing" => hand \in Jpeg
  BY DEF JpegPathTypeOK
<1>2. ASSUME UNCHANGED texts, worker' # "drawing" \/ UNCHANGED working
      PROVE  OverlayInv'
  BY <1>2 DEF Visible
<1>3. CASE WorkerTakes
  BY <1>1, <1>3, BoxesAssumption DEF WorkerTakes, Visible, Regions
<1>4. CASE WorkerSnaps
  <2> DEFINE text == IF dirty[region] THEN back[region] ELSE front[region]
             new  == IF region \in active THEN text ELSE NoText
  <2>1. /\ worker = "drawing" /\ region \in Regions /\ hand \in Jpeg
        /\ region' = region + 1 /\ UNCHANGED <<worker, current, back, active>>
        /\ front' = [front EXCEPT ![region] = text]
        /\ dirty' = [dirty EXCEPT ![region] = FALSE]
        /\ hand' = [hand EXCEPT !.drawn[region] = new]
    BY <1>1, <1>4 DEF WorkerSnaps
  <2>2. text = back[region] /\ new = Visible(region) /\ new \in current[region]
    BY <1>1, <2>1 DEF Visible
  <2>3. new \in Text
    BY <1>1, <2>1, <2>2
  <2>4. /\ hand'.drawn = [hand.drawn EXCEPT ![region] = new]
        /\ hand.drawn \in [Regions -> Text]
    BY <2>1, <2>3, DrawnTypes DEF Jpeg
  <2>5. \A r \in Regions : ~dirty'[r] => front'[r] = back'[r]
    BY <1>1, <2>1, <2>2
  <2>6. \A r \in Regions : Visible(r)' \in current'[r]
    BY <2>1 DEF Visible
  <2>7. ASSUME NEW r \in Regions, r < region + 1 PROVE hand'.drawn[r] \in current[r]
    <3>1. CASE r = region
      BY <2>1, <2>2, <2>4, <3>1
    <3>2. CASE r < region
      <4>1. r # region /\ hand.drawn[r] \in current[r]
        BY <2>1, <3>2, BoxesAssumption DEF Regions
      <4>2. hand'.drawn[r] = hand.drawn[r]
        BY <2>4, <4>1
      <4>3. QED
        BY <4>1, <4>2
    <3>3. QED
      BY <2>7, <3>1, <3>2, BoxesAssumption, <2>1 DEF Regions
  <2>8. QED
    BY <2>1, <2>5, <2>6, <2>7
<1>5. CASE \E r \in Regions : OverlayPrint(r) \/ OverlayClear(r) \/ OverlayConfigure(r)
  <2>1. PICK r \in Regions : OverlayPrint(r) \/ OverlayClear(r) \/ OverlayConfigure(r)
    BY <1>5
  <2>2. ASSUME NEW t, Writes(r, t) PROVE OverlayInv'
    <3>1. /\ UNCHANGED <<worker, hand, region, front, active>>
          /\ back' = [back EXCEPT ![r] = t] /\ dirty' = [dirty EXCEPT ![r] = TRUE]
          /\ current' = [current EXCEPT ![r] =
                           current[r] \cup {IF r \in active THEN t ELSE NoText}]
      BY <2>2 DEF Writes
    <3>2. \A q \in Regions : current[q] \subseteq current'[q]
      BY <1>1, <3>1
    <3>3. \A q \in Regions : ~dirty'[q] => front'[q] = back'[q]
      BY <1>1, <3>1
    <3>4. worker = "drawing" => \A q \in Regions : Visible(q)' \in current'[q]
      BY <1>1, <3>1, <3>2 DEF Visible
    <3>5. QED
      BY <3>1, <3>2, <3>3, <3>4
  <2>3. CASE OverlayConfigure(r)
    <3>1. /\ UNCHANGED <<worker, hand, region, front, back, dirty>>
          /\ active' = active \cup {r}
          /\ current' = [current EXCEPT ![r] = current[r] \cup {back[r]}]
      BY <2>3 DEF OverlayConfigure
    <3>2. \A q \in Regions : current[q] \subseteq current'[q]
      BY <1>1, <3>1
    <3>3. worker = "drawing" => \A q \in Regions : Visible(q)' \in current'[q]
      BY <1>1, <3>1, <3>2 DEF Visible
    <3>4. QED
      BY <3>1, <3>2, <3>3
  <2>4. QED
    BY <2>1, <2>2, <2>3 DEF OverlayPrint, OverlayClear
<1>6. CASE WorkerEnds \/ WorkerDraws \/ WorkerShows \/ WorkerRecords \/ WorkerUpdates
  BY <1>2, <1>6 DEF WorkerEnds, WorkerDraws, WorkerShows, WorkerRecords, WorkerUpdates
<1>7. CASE \/ SpawnRun \/ StartThreads \/ Terminate \/ JoinRun \/ SetRunning
           \/ FfmpegMakes \/ FfmpegDies
  BY <1>2, <1>7 DEF SpawnRun, StartThreads, Terminate, JoinRun, SetRunning, FfmpegMakes, FfmpegDies
<1>8. CASE ReaderPuts \/ ReaderSeesEnd \/ ReaderCloses
  BY <1>2, <1>8 DEF ReaderPuts, ReaderSeesEnd, ReaderCloses
<1>9. CASE \E c \in Clients : ClientConnects(c) \/ ClientLoops(c) \/ ClientGets(c)
                                \/ ClientWaitsInVain(c) \/ ClientSends(c)
  BY <1>2, <1>9
  DEF ClientConnects, ClientLoops, ClientGets, ClientWaitsInVain, ClientSends
<1>10. CASE UNCHANGED jpvars
  BY <1>2, <1>10 DEF jpvars
<1>11. QED
  BY <1>3, <1>4, <1>5, <1>6, <1>7, <1>8, <1>9, <1>10 DEF JpegPathNext

-----------------------------------------------------------------------------
(* The theorems about JpegPath. *)

LEMMA JpegInitInv == JpegPathInit => JpegPathInv
<1> SUFFICES ASSUME JpegPathInit PROVE JpegPathInv
  OBVIOUS
<1>1. JpegPathTypeOK
  BY JpegInitTypes
<1>2. OrderInv
  BY DEF JpegPathInit, OrderInv, HandIsNewer, SlotIsNewer, PipeIsNewer, ShownIsMade,
         ShownInOrder, Holding
<1>3. NumberedInv /\ RecordedAsShown /\ LatestIsRecorded
  BY DEF JpegPathInit, NumberedInv, RecordedAsShown, LatestIsRecorded
<1>4. SlotInv
  BY DEF JpegPathInit, SlotInv
<1>5. OverlayInv
  BY DEF JpegPathInit, OverlayInv, OverlayIsCurrent
<1>6. QED
  BY <1>1, <1>2, <1>3, <1>4, <1>5 DEF JpegPathInv

LEMMA JpegPathInvStep == JpegPathInv /\ [JpegPathNext]_jpvars => JpegPathInv'
BY JpegTypesStep, OrderStep, NumberedStep, ConsumersStep, SlotStep, OverlayStep
DEF JpegPathInv, ConsumersInv

LEMMA PrefixOfIds ==
  ASSUME NEW s \in Seq(Jpeg), NEW t \in Seq(Jpeg), Len(s) <= Len(t),
         \A i \in 1 .. Len(s) : s[i] = t[i]
  PROVE  IsPrefix(Ids(s), Ids(t))
<1>1. Len(s) \in Nat /\ Len(t) \in Nat
  BY LenProperties
<1>2. /\ \A i \in 1 .. Len(s) : s[i].id \in Int
      /\ \A i \in 1 .. Len(t) : t[i].id \in Int
  <2>1. \A jpg \in Jpeg : jpg.id \in Int
    BY JpegBoundsAssumption DEF Jpeg
  <2>2. QED
    BY <1>1, <2>1, ElementOfSeq
<1>3. /\ Ids(s) \in Seq(Int) /\ Len(Ids(s)) = Len(s)
      /\ Ids(t) \in Seq(Int) /\ Len(Ids(t)) = Len(t)
  BY <1>1, <1>2 DEF Ids
<1>4. \A i \in 1 .. Len(s) : Ids(s)[i] = Ids(t)[i] /\ Ids(s)[i] \in Int
  BY <1>1, <1>2 DEF Ids
<1>5. /\ SubSeq(Ids(s), 1, Len(s)) \in Seq(Int)
      /\ Len(SubSeq(Ids(s), 1, Len(s))) = Len(s)
      /\ \A i \in 1 .. Len(s) : SubSeq(Ids(s), 1, Len(s))[i] = Ids(s)[i]
  BY <1>1, <1>4, SubSeqProperties
<1>6. /\ SubSeq(Ids(t), 1, Len(s)) \in Seq(Int)
      /\ Len(SubSeq(Ids(t), 1, Len(s))) = Len(s)
      /\ \A i \in 1 .. Len(s) : SubSeq(Ids(t), 1, Len(s))[i] = Ids(t)[i]
  BY <1>1, <1>4, SubSeqProperties
<1>7. SubSeq(Ids(s), 1, Len(s)) = SubSeq(Ids(t), 1, Len(s))
  BY <1>4, <1>5, <1>6, SeqEqual
<1>8. QED
  BY <1>3, <1>7 DEF IsPrefix

LEMMA AgreeFromInv == JpegPathInv => ConsumersAgree
<1> SUFFICES ASSUME JpegPathInv PROVE ConsumersAgree
  OBVIOUS
<1>1. /\ shown \in Seq(Jpeg) /\ recorded \in Seq(Jpeg)
      /\ Len(shown) \in Nat /\ Len(recorded) \in Nat
  BY LenProperties DEF JpegPathInv, JpegPathTypeOK
<1>2. IsPrefix(Ids(recorded), Ids(shown))
  <2>1. /\ Len(recorded) <= Len(shown)
        /\ \A i \in 1 .. Len(recorded) : recorded[i] = shown[i]
    BY <1>1 DEF JpegPathInv, RecordedAsShown
  <2>2. QED
    BY <1>1, <2>1, PrefixOfIds
<1>3. Len(shown) - Len(recorded) \in {0, 1}
  BY <1>1 DEF JpegPathInv, RecordedAsShown
<1>4. latest # NoJpeg => \E i \in {Len(recorded) - 1, Len(recorded)} \ {0} :
                            latest = recorded[i]
  BY <1>1 DEF JpegPathInv, LatestIsRecorded
<1>5. QED
  BY <1>2, <1>3, <1>4 DEF ConsumersAgree, JpegPathInv, SlotInv

(* JpegPath keeps its inductive invariant. *)
THEOREM JpegPathKeepsInv == JpegPathSpec => []JpegPathInv
BY JpegInitInv, JpegPathInvStep, PTL DEF JpegPathSpec

(* Every variable of JpegPath keeps its type, and the pipe its capacity.   *)
THEOREM JpegPathTypes == JpegPathSpec => []JpegPathTypeOK
<1>1. JpegPathInv => JpegPathTypeOK
  BY DEF JpegPathInv
<1>2. QED
  BY <1>1, JpegPathKeepsInv, PTL

(* jpeg_cb never gets a frame twice or after a newer one, whatever the     *)
(* reader overwrites in the slot, however many ffmpegs there are and       *)
(* whatever is still in the pipe of one that has been terminated.          *)
THEOREM FramesAreShownInOrder == JpegPathSpec => []ShownInOrder
<1>1. JpegPathInv => ShownInOrder
  BY DEF JpegPathInv, OrderInv
<1>2. QED
  BY <1>1, JpegPathKeepsInv, PTL

(* The two callbacks and latest_jpeg receive the same frames in the same   *)
(* order, at most one frame apart, and a worker that has ended has left no *)
(* frame in the slot.                                                      *)
THEOREM ConsumersStayTogether == JpegPathSpec => []ConsumersAgree
BY AgreeFromInv, JpegPathKeepsInv, PTL

(* Every text drawn on a frame has been the text of its region since the   *)
(* worker took that frame, whatever user threads print, clear and          *)
(* configure between the snapshots of two regions.                         *)
THEOREM DrawnTextIsCurrent == JpegPathSpec => []OverlayIsCurrent
<1>1. JpegPathInv => OverlayIsCurrent
  BY DEF JpegPathInv, OverlayInv
<1>2. QED
  BY <1>1, JpegPathKeepsInv, PTL
-----------------------------------------------------------------------------
(* StreamServer: where its threads are. *)

(* What is left of the threads at each step of stop(). *)
StopInv ==
  /\ running => api = "idle"
  /\ api \in {"joinPipeline", "joinHttp"} \/ (api = "idle" /\ ~running) =>
       camera = "none"
  /\ api = "joinHttp" \/ (api = "idle" /\ ~running) => pipeline = "none"
  /\ api = "idle" /\ ~running => http = "none"

(* The monitor thread lives inside the session of the camera thread. *)
MonitorInv == monitor # "off" => camera \in {"watch", "stop"}

(* The threads and the process of a run live inside the pipeline's run.    *)
InRun   == {"feed", "pop", "write", "end"}
Spawned == {"count", "first", "threads"}
RunInv ==
  /\ reader # "none" <=> pipeline \in InRun \cup {"join"}
  /\ worker # "none" <=> pipeline \in InRun \cup {"join"}
  /\ ffmpeg # "none" <=> pipeline \in Spawned \cup InRun

StreamThreadsInv == StopInv /\ MonitorInv /\ RunInv

(* Frames on their way to ffmpeg are in the order of arrival: those that   *)
(* it has, the one in the pipeline's hand, and those in the queue.         *)
HasFirst == {"check", "spawn", "count", "first"}
RawInv ==
  /\ raw # NoRaw <=> pipeline \in HasFirst \cup {"write"}
  /\ pipeline \in HasFirst => raw.mark = "I"
  /\ pipeline = "write" => raw.mark # "audio"
  /\ pipeline \in InRun \cup {"threads"} => input # <<>>

(* raw_queue[k] is newer than all that has left or is before it. *)
NewerInQueue(k) ==
  /\ raw_queue[k].id <= arrived
  /\ raw # NoRaw => raw.id < raw_queue[k].id
  /\ \A i \in 1 .. Len(input) : input[i].id < raw_queue[k].id
  /\ \A j \in 1 .. k - 1 : raw_queue[j].id < raw_queue[k].id

RawOrderInv ==
  /\ \A k \in 1 .. Len(raw_queue) : NewerInQueue(k)
  /\ raw # NoRaw => raw.id <= arrived /\ \A i \in 1 .. Len(input) : input[i].id < raw.id
  /\ \A i \in 1 .. Len(input) : input[i].id <= arrived

FeedInv == RawInv /\ RawOrderInv /\ FfmpegInput

(* A run on hardware that made nothing has left its mark.                  *)
FallbackInv ==
  pipeline \in {"await", "popFirst", "check", "spawn"} /\ hw /\ FrameCount = frames_at_start
    => hw_fallback

(* The frames of a run are newer than all before it; a worker that holds   *)
(* none has an empty hand, and one that is gone has left an empty slot.    *)
ApartInv ==
  /\ made_at_start \in Nat /\ made_at_start <= made
  /\ worker \in {"none", "getting", "ended"} => hand = NoJpeg
  /\ worker = "none" => slot = NoJpeg
  /\ slot # NoJpeg => made_at_start < slot.id
  /\ hand # NoJpeg => made_at_start < hand.id
  /\ \A k \in 1 .. Len(stdout) : made_at_start < stdout[k].id

StreamInv == StreamTypeOK /\ StreamThreadsInv /\ FeedInv /\ FallbackInv /\ ApartInv

USE DEF cam, queue, run, pipe, jpvars, ssvars, CameraGoes, PipelineGoes, HttpGoes,
        WatchEnds, JoinedMonitor, StartsRun, FeedGoesOn, Fruitless, InRun, Spawned, HasFirst

(* A step of the server's threads is one of JpegPath: where the pipeline   *)
(* is tells that no thread of the run before is left.                      *)
LEMMA JpegPathStep == StreamThreadsInv /\ [Next]_vars => [JpegPathNext]_jpvars
<1> SUFFICES ASSUME StreamThreadsInv, [Next]_vars PROVE [JpegPathNext]_jpvars
  OBVIOUS
<1> USE DEF JpegPathNext
<1>1. CASE Start
  BY <1>1 DEF Start, SetRunning
<1>2. CASE Stop
  BY <1>2 DEF Stop, SetRunning
<1>3. CASE StopCloses \/ StopJoins
  BY <1>3 DEF StopCloses, StopJoins
<1>4. CASE \/ CameraLoops \/ CameraLogsIn \/ CameraOpens \/ CameraStarts
           \/ CameraWatches \/ CameraStops \/ CameraCloses
  BY <1>4 DEF CameraLoops, CameraLogsIn, CameraOpens, CameraStarts, CameraWatches,
              CameraStops, CameraCloses
<1>5. CASE MonitorDelivers \/ MonitorEnds
  BY <1>5 DEF MonitorDelivers, MonitorEnds
<1>6. CASE \/ PipelineAwaits \/ PipelinePopsFirst \/ PipelinePopsNothing
           \/ PipelineChecks \/ PipelineSpawnFails \/ PipelineCounts
           \/ PipelineWritesFirst \/ PipelineFeeds \/ PipelinePops
           \/ PipelineWrites \/ PipelineDecides
  BY <1>6 DEF PipelineAwaits, PipelinePopsFirst, PipelinePopsNothing, PipelineChecks,
              PipelineSpawnFails, PipelineCounts, PipelineWritesFirst, PipelineFeeds, PipelinePops, PipelineWrites,
              PipelineDecides
<1>7. CASE PipelineSpawns \/ PipelineStartsThreads \/ PipelineEndsRun \/ PipelineJoins
  BY <1>7 DEF PipelineSpawns, PipelineStartsThreads, PipelineEndsRun, PipelineJoins,
              Threadless, StreamThreadsInv, RunInv
<1>8. CASE HttpBinds \/ HttpLoops \/ HttpAcceptsNone
  BY <1>8 DEF HttpBinds, HttpLoops, HttpAcceptsNone
<1>9. CASE HttpAccepts
  BY <1>9 DEF HttpAccepts
<1>10. CASE \/ FfmpegMakes \/ FfmpegDies \/ ReaderPuts \/ ReaderSeesEnd \/ ReaderCloses
            \/ WorkerTakes \/ WorkerEnds \/ WorkerSnaps \/ WorkerDraws
            \/ WorkerShows \/ WorkerRecords \/ WorkerUpdates
  BY <1>10
<1>11. CASE \E c \in Clients : Client(c) /\ UNCHANGED ssvars
  BY <1>11 DEF Client
<1>12. CASE UNCHANGED vars
  BY <1>12 DEF vars
<1>13. QED
  BY <1>1, <1>2, <1>3, <1>4, <1>5, <1>6, <1>7, <1>8, <1>9, <1>10, <1>11, <1>12
  DEF Next

(* Inside a run: neither starts nor clears away a thread or a process.     *)
RunStep == \/ FfmpegMakes \/ FfmpegDies \/ ReaderPuts \/ ReaderSeesEnd \/ ReaderCloses
           \/ WorkerTakes \/ WorkerEnds \/ WorkerSnaps \/ WorkerDraws
           \/ WorkerShows \/ WorkerRecords \/ WorkerUpdates

LEMMA RunStepStays ==
  RunStep => /\ UNCHANGED running
             /\ reader # "none" <=> reader' # "none"
             /\ worker # "none" <=> worker' # "none"
             /\ ffmpeg # "none" <=> ffmpeg' # "none"
<1>1. CASE FfmpegMakes \/ FfmpegDies \/ ReaderPuts \/ ReaderSeesEnd \/ ReaderCloses
  BY <1>1 DEF FfmpegMakes, FfmpegDies, ReaderPuts, ReaderSeesEnd, ReaderCloses
<1>2. CASE WorkerTakes \/ WorkerEnds \/ WorkerSnaps \/ WorkerDraws
  BY <1>2 DEF WorkerTakes, WorkerEnds, WorkerSnaps, WorkerDraws
<1>3. CASE WorkerShows \/ WorkerRecords \/ WorkerUpdates
  BY <1>3 DEF WorkerShows, WorkerRecords, WorkerUpdates
<1>4. QED
  BY <1>1, <1>2, <1>3 DEF RunStep

LEMMA StreamThreadsStep == StreamThreadsInv /\ [Next]_vars => StreamThreadsInv'
<1> SUFFICES ASSUME StreamThreadsInv, [Next]_vars PROVE StreamThreadsInv'
  OBVIOUS
<1> USE DEF StreamThreadsInv, StopInv, MonitorInv, RunInv
<1>1. CASE Start \/ Stop \/ StopCloses \/ StopJoins
  BY <1>1 DEF Start, Stop, StopCloses, StopJoins
<1>2. CASE \/ CameraLoops \/ CameraLogsIn \/ CameraOpens \/ CameraStarts
           \/ CameraWatches \/ CameraStops \/ CameraCloses
  BY <1>2 DEF CameraLoops, CameraLogsIn, CameraOpens, CameraStarts, CameraWatches,
              CameraStops, CameraCloses
<1>3. CASE MonitorDelivers \/ MonitorEnds
  BY <1>3 DEF MonitorDelivers, MonitorEnds
<1>4. CASE \/ PipelineAwaits \/ PipelinePopsFirst \/ PipelinePopsNothing
           \/ PipelineChecks \/ PipelineSpawnFails \/ PipelineCounts
           \/ PipelineWritesFirst \/ PipelineFeeds
  BY <1>4 DEF PipelineAwaits, PipelinePopsFirst, PipelinePopsNothing, PipelineChecks,
              PipelineSpawnFails, PipelineCounts, PipelineWritesFirst, PipelineFeeds
<1>5. CASE PipelinePops \/ PipelineWrites \/ PipelineDecides
  BY <1>5 DEF PipelinePops, PipelineWrites, PipelineDecides
<1>6. CASE PipelineSpawns \/ PipelineStartsThreads
  BY <1>6 DEF PipelineSpawns, SpawnRun, PipelineStartsThreads, StartThreads
<1>7. CASE PipelineEndsRun
  BY <1>7 DEF PipelineEndsRun, Terminate
<1>8. CASE PipelineJoins
  BY <1>8 DEF PipelineJoins, JoinRun
<1>9. CASE HttpBinds \/ HttpLoops \/ HttpAcceptsNone
  BY <1>9 DEF HttpBinds, HttpLoops, HttpAcceptsNone
<1>10. CASE HttpAccepts
  BY <1>10 DEF HttpAccepts, ClientConnects
<1>11. CASE RunStep /\ UNCHANGED ssvars
  <2>1. UNCHANGED ssvars /\ RunStep
    BY <1>11
  <2>2. QED
    BY <2>1, RunStepStays
<1>12. CASE \E c \in Clients : Client(c) /\ UNCHANGED ssvars
  BY <1>12 DEF Client, ClientLoops, ClientGets, ClientWaitsInVain, ClientSends
<1>13. CASE UNCHANGED vars
  BY <1>13 DEF vars
<1>14. QED
  BY <1>1, <1>2, <1>3, <1>4, <1>5, <1>6, <1>7, <1>8, <1>9, <1>10, <1>11, <1>12, <1>13
  DEF Next, RunStep

THEOREM StreamThreads == Spec => []StreamThreadsInv
<1>1. Init => StreamThreadsInv
  BY DEF Init, JpegPathInit, StreamThreadsInv, StopInv, MonitorInv, RunInv
<1>2. QED
  BY <1>1, StreamThreadsStep, PTL DEF Spec

(* When stop() has returned no thread that calls a user's callback is left *)
(* and no ffmpeg: the camera thread has joined the monitor thread and the  *)
(* pipeline thread the reader and the worker, however the stop falls into  *)
(* a start, a failed login, a run of ffmpeg or its death.                  *)
THEOREM StopReturnsLast == Spec => []StopIsSynchronous
<1>1. StreamThreadsInv => StopIsSynchronous
  BY DEF StreamThreadsInv, StopInv, MonitorInv, RunInv, StopIsSynchronous
<1>2. QED
  BY <1>1, StreamThreads, PTL

(* Every run of the server has the invariants of JpegPath. *)
LEMMA StreamKeepsJpegPathInv == Spec => []JpegPathInv
<1>1. Init => JpegPathInv
  BY JpegInitInv DEF Init
<1>2. StreamThreadsInv /\ JpegPathInv /\ [Next]_vars => JpegPathInv'
  BY JpegPathStep, JpegPathInvStep
<1>3. QED
  BY <1>1, <1>2, StreamThreads, PTL DEF Spec

-----------------------------------------------------------------------------
(* StreamServer: types. *)

(* A frame that is shown is one of those made, so no counter of frames     *)
(* exceeds their number.                                                   *)
LEMMA FrameCountBounded == JpegPathInv => FrameCount \in 0 .. MaxJpegs
<1> SUFFICES ASSUME JpegPathInv PROVE FrameCount \in 0 .. MaxJpegs
  OBVIOUS
<1>1. /\ shown \in Seq(Jpeg) /\ recorded \in Seq(Jpeg) /\ made \in 0 .. MaxJpegs
      /\ Len(shown) \in Nat /\ Len(recorded) \in Nat /\ MaxJpegs \in Nat
  BY LenProperties, JpegBoundsAssumption DEF JpegPathInv, JpegPathTypeOK
<1>2. Len(shown) <= MaxJpegs
  <2>1. CASE Len(shown) = 0
    BY <1>1, <2>1
  <2>2. CASE Len(shown) > 0
    <3>1. Len(shown) \in 1 .. Len(shown) /\ shown[Len(shown)] \in Jpeg
      BY <1>1, <2>2, ElementOfSeq
    <3>2. shown[Len(shown)].id \in Int
      BY <3>1, JpegBoundsAssumption DEF Jpeg
    <3>3. Len(shown) <= shown[Len(shown)].id /\ shown[Len(shown)].id <= made
      BY <3>1 DEF JpegPathInv, NumberedInv, OrderInv, ShownIsMade
    <3>4. QED
      BY <1>1, <3>1, <3>2, <3>3
  <2>3. QED
    BY <1>1, <2>1, <2>2
<1>3. Len(recorded) <= Len(shown) /\ (worker = "updating" => Len(recorded) > 0)
  BY <1>1, EmptySeq DEF JpegPathInv, RecordedAsShown, LatestIsRecorded
<1>4. QED
  BY <1>1, <1>2, <1>3 DEF FrameCount

(* The bound on the frames that arrive is one per start. *)
LEMMA ArrivedBounded ==
  ASSUME starts \in 0 .. MaxStarts
  PROVE  /\ MaxRaw * starts \in Nat /\ MaxRaw * MaxStarts \in Nat
         /\ MaxRaw * starts <= MaxRaw * MaxStarts
BY RawBoundAssumption, Z3

LEMMA AnotherArrives ==
  ASSUME starts \in 0 .. MaxStarts, arrived \in 0 .. MaxRaw * MaxStarts,
         arrived < MaxRaw * starts
  PROVE  arrived + 1 \in 1 .. MaxRaw * MaxStarts
<1>1. PICK n \in Nat, m \in Nat : n = MaxRaw * starts /\ m = MaxRaw * MaxStarts /\ n <= m
  BY ArrivedBounded
<1>2. arrived \in 0 .. m /\ arrived < n
  BY <1>1
<1>3. arrived + 1 \in 1 .. m
  BY <1>1, <1>2
<1>4. QED
  BY <1>1, <1>3

(* What the queue hands over, and that the pipeline holds a frame exactly  *)
(* where it has one to write.                                              *)
LEMMA PoppedFrame ==
  ASSUME StreamTypeOK, raw_queue # <<>>
  PROVE  /\ Head(raw_queue) \in RawFrame /\ Head(raw_queue) # NoRaw
         /\ Head(raw_queue) = raw_queue[1]
         /\ Tail(raw_queue) \in Seq(RawFrame)
         /\ Len(raw_queue) \in Nat /\ Len(raw_queue) > 0
         /\ Len(Tail(raw_queue)) = Len(raw_queue) - 1
         /\ \A k \in 1 .. Len(raw_queue) - 1 : Tail(raw_queue)[k] = raw_queue[k + 1]
<1>1. raw_queue \in Seq(RawFrame)
  BY DEF StreamTypeOK
<1>2. QED
  BY <1>1, HeadTailProperties, LenProperties, EmptySeq, NoRawAssumption

LEMMA StreamTypesStep ==
  JpegPathInv /\ JpegPathTypeOK' /\ StreamTypeOK /\ RawInv /\ [Next]_vars => StreamTypeOK'
<1> SUFFICES ASSUME JpegPathInv, JpegPathTypeOK', StreamTypeOK, RawInv, [Next]_vars
             PROVE  StreamTypeOK'
  OBVIOUS
<1>1. /\ raw_queue \in Seq(RawFrame) /\ Len(raw_queue) <= QueueFrames
      /\ Len(raw_queue) \in Nat /\ QueueFrames \in Nat \ {0}
  BY LenProperties, QueueAssumption DEF StreamTypeOK
<1>2. ASSUME raw_queue # <<>> PROVE Len(Tail(raw_queue)) <= QueueFrames
  BY <1>1, <1>2, PoppedFrame
<1> USE DEF StreamTypeOK
<1>3. CASE Start
  <2>1. starts' \in 0 .. MaxStarts
    BY <1>3, RawBoundAssumption DEF Start
  <2>2. QED
    BY <1>3, <2>1 DEF Start
<1>4. CASE Stop \/ StopCloses \/ StopJoins
  BY <1>4 DEF Stop, StopCloses, StopJoins
<1>5. CASE \/ CameraLoops \/ CameraLogsIn \/ CameraOpens \/ CameraStarts
           \/ CameraWatches \/ CameraStops \/ CameraCloses
  BY <1>5 DEF CameraLoops, CameraLogsIn, CameraOpens, CameraStarts, CameraWatches,
              CameraStops, CameraCloses
<1>6. CASE MonitorDelivers
  <2>1. arrived + 1 \in 1 .. MaxRaw * MaxStarts
    BY <1>6, AnotherArrives DEF MonitorDelivers
  <2>2. PICK mark \in {"I", "P", "audio"} :
               raw_queue' = Append(WithRoom, [id |-> arrived + 1, mark |-> mark])
    BY <1>6 DEF MonitorDelivers
  <2>3. [id |-> arrived + 1, mark |-> mark] \in RawFrame
    BY <2>1 DEF RawFrame
  <2>4. WithRoom \in Seq(RawFrame) /\ Len(WithRoom) \in Nat /\ Len(WithRoom) < QueueFrames
    <3>1. CASE Len(raw_queue) >= QueueFrames
      <4>1. raw_queue # <<>> /\ Len(raw_queue) = QueueFrames
        BY <1>1, <3>1, EmptySeq
      <4>2. WithRoom = Tail(raw_queue)
        BY <3>1 DEF WithRoom
      <4>3. QED
        BY <1>1, <4>1, <4>2, PoppedFrame
    <3>2. CASE ~(Len(raw_queue) >= QueueFrames)
      BY <1>1, <3>2 DEF WithRoom
    <3>3. QED
      BY <3>1, <3>2
  <2>5. raw_queue' \in Seq(RawFrame) /\ Len(raw_queue') = Len(WithRoom) + 1
    BY <2>2, <2>3, <2>4, AppendProperties
  <2>6. arrived' \in 0 .. MaxRaw * MaxStarts
    BY <1>6, <2>1 DEF MonitorDelivers
  <2>7. Len(raw_queue') <= QueueFrames
    BY <1>1, <2>4, <2>5
  <2>8. QED
    BY <1>6, <2>5, <2>6, <2>7 DEF MonitorDelivers
<1>7. CASE MonitorEnds
  BY <1>7 DEF MonitorEnds
<1>8. CASE \/ PipelineAwaits \/ PipelinePopsNothing \/ PipelineChecks
           \/ PipelineSpawnFails \/ PipelineStartsThreads \/ PipelineFeeds
           \/ PipelineEndsRun \/ PipelineJoins \/ PipelineDecides
  BY <1>8 DEF PipelineAwaits, PipelinePopsNothing, PipelineChecks, PipelineSpawnFails,
              PipelineStartsThreads, PipelineFeeds, PipelineEndsRun, PipelineJoins,
              PipelineDecides
<1>9. CASE PipelinePopsFirst
  BY <1>2, <1>9, PoppedFrame DEF PipelinePopsFirst
<1>10. CASE PipelinePops
  <2>1. /\ raw_queue' \in Seq(RawFrame) /\ Len(raw_queue') <= QueueFrames
        /\ raw' \in RawFrame \cup {NoRaw} /\ pipeline' \in {"feed", "write"}
    <3>1. CASE raw_queue = <<>>
      BY <1>10, <3>1, <1>1 DEF PipelinePops
    <3>2. CASE raw_queue # <<>>
      <4>1. raw_queue' = Tail(raw_queue) /\ raw' \in {raw, Head(raw_queue)}
            /\ pipeline' \in {"feed", "write"}
        BY <1>10, <3>2 DEF PipelinePops
      <4>2. QED
        BY <1>2, <3>2, <4>1, PoppedFrame
    <3>3. QED
      BY <3>1, <3>2
  <2>2. QED
    BY <1>10, <2>1 DEF PipelinePops
<1>11. CASE PipelineSpawns \/ PipelineCounts \/ PipelineWritesFirst
  <2>1. CASE PipelineSpawns
    BY <2>1, HwAssumption DEF PipelineSpawns, JpegPathTypeOK
  <2>2. CASE PipelineCounts
    BY <2>2, FrameCountBounded DEF PipelineCounts
  <2>3. CASE PipelineWritesFirst
    <3>1. raw \in RawFrame
      BY <2>3 DEF PipelineWritesFirst, RawInv
    <3>2. input' \in Seq(RawFrame)
      BY <2>3, <3>1 DEF PipelineWritesFirst
    <3>3. QED
      BY <2>3, <3>2 DEF PipelineWritesFirst
  <2>4. QED
    BY <1>11, <2>1, <2>2, <2>3
<1>12. CASE PipelineWrites
  <2>1. raw \in RawFrame
    BY <1>12 DEF PipelineWrites, RawInv
  <2>2. input \in Seq(RawFrame) /\ Append(input, raw) \in Seq(RawFrame)
    BY <2>1, AppendProperties
  <2>3. input' \in {input, Append(input, raw)}
    BY <1>12 DEF PipelineWrites
  <2>4. input' \in Seq(RawFrame)
    BY <2>2, <2>3
  <2>5. QED
    BY <1>12, <2>4 DEF PipelineWrites
<1>13. CASE HttpBinds \/ HttpLoops \/ HttpAcceptsNone \/ HttpAccepts
  BY <1>13 DEF HttpBinds, HttpLoops, HttpAcceptsNone, HttpAccepts
<1>14. CASE UNCHANGED ssvars
  BY <1>14
<1>15. QED
  BY <1>3, <1>4, <1>5, <1>6, <1>7, <1>8, <1>9, <1>10, <1>11, <1>12, <1>13, <1>14
  DEF Next, vars
-----------------------------------------------------------------------------
(* StreamServer: what ffmpeg is fed. *)

LEMMA RawStep ==
  StreamTypeOK /\ StreamThreadsInv /\ RawInv /\ [Next]_vars => RawInv'
<1> SUFFICES ASSUME StreamTypeOK, StreamThreadsInv, RawInv, [Next]_vars
             PROVE  RawInv'
  OBVIOUS
<1> USE DEF RawInv
<1>1. CASE Start
  BY <1>1 DEF Start, StreamThreadsInv, StopInv
<1>2. CASE \/ Stop \/ StopCloses \/ StopJoins \/ MonitorDelivers \/ MonitorEnds
  BY <1>2 DEF Stop, StopCloses, StopJoins, MonitorDelivers, MonitorEnds
<1>3. CASE \/ CameraLoops \/ CameraLogsIn \/ CameraOpens \/ CameraStarts
           \/ CameraWatches \/ CameraStops \/ CameraCloses
  BY <1>3 DEF CameraLoops, CameraLogsIn, CameraOpens, CameraStarts, CameraWatches,
              CameraStops, CameraCloses
<1>4. CASE \/ PipelineAwaits \/ PipelinePopsNothing \/ PipelineFeeds
           \/ PipelineEndsRun \/ PipelineJoins \/ PipelineDecides
  BY <1>4 DEF PipelineAwaits, PipelinePopsNothing, PipelineFeeds, PipelineEndsRun,
              PipelineJoins, PipelineDecides
<1>5. CASE PipelinePopsFirst
  BY <1>5, PoppedFrame DEF PipelinePopsFirst
<1>6. CASE PipelinePops
  BY <1>6, PoppedFrame DEF PipelinePops
<1>7. CASE \/ PipelineChecks \/ PipelineSpawns \/ PipelineSpawnFails
           \/ PipelineCounts \/ PipelineWritesFirst \/ PipelineStartsThreads
  BY <1>7 DEF PipelineChecks, PipelineSpawns, PipelineSpawnFails, PipelineCounts,
              PipelineWritesFirst, PipelineStartsThreads
<1>8. CASE PipelineWrites
  <2>1. input # <<>> /\ raw \in RawFrame /\ input \in Seq(RawFrame)
    BY <1>8 DEF PipelineWrites, StreamTypeOK
  <2>2. input' # <<>>
    BY <1>8, <2>1, AppendProperties DEF PipelineWrites
  <2>3. QED
    BY <1>8, <2>2 DEF PipelineWrites
<1>9. CASE HttpBinds \/ HttpLoops \/ HttpAcceptsNone \/ HttpAccepts
  BY <1>9 DEF HttpBinds, HttpLoops, HttpAcceptsNone, HttpAccepts
<1>10. CASE UNCHANGED ssvars
  BY <1>10
<1>11. QED
  BY <1>1, <1>2, <1>3, <1>4, <1>5, <1>6, <1>7, <1>8, <1>9, <1>10 DEF Next, vars

(* The steps that move no frame. *)
LEMMA FeedKept ==
  ASSUME RawOrderInv, FfmpegInput, UNCHANGED <<raw_queue, input, arrived>>,
         raw' \in {raw, NoRaw}
  PROVE  RawOrderInv' /\ FfmpegInput'
BY DEF RawOrderInv, NewerInQueue, FfmpegInput

LEMMA FeedStep ==
  StreamTypeOK /\ RawInv /\ RawOrderInv /\ FfmpegInput /\ [Next]_vars
    => RawOrderInv' /\ FfmpegInput'
<1> SUFFICES ASSUME StreamTypeOK, RawInv, RawOrderInv, FfmpegInput, [Next]_vars
             PROVE  RawOrderInv' /\ FfmpegInput'
  OBVIOUS
<1>1. /\ raw_queue \in Seq(RawFrame) /\ Len(raw_queue) \in Nat
      /\ input \in Seq(RawFrame) /\ Len(input) \in Nat /\ arrived \in Nat
      /\ raw \in RawFrame \cup {NoRaw} /\ starts \in 0 .. MaxStarts
  BY LenProperties, RawBoundAssumption, ArrivedBounded DEF StreamTypeOK
<1>2. \A f \in RawFrame : f.id \in Int
  BY DEF RawFrame
<1>3. /\ \A k \in 1 .. Len(raw_queue) : raw_queue[k] \in RawFrame
      /\ \A i \in 1 .. Len(input) : input[i] \in RawFrame
  BY <1>1, ElementOfSeq
<1>4. CASE \/ Start \/ Stop \/ StopCloses \/ StopJoins \/ MonitorEnds
  BY <1>4, FeedKept DEF Start, Stop, StopCloses, StopJoins, MonitorEnds
<1>5. CASE \/ CameraLoops \/ CameraLogsIn \/ CameraOpens \/ CameraStarts
           \/ CameraWatches \/ CameraStops \/ CameraCloses
  BY <1>5, FeedKept DEF CameraLoops, CameraLogsIn, CameraOpens, CameraStarts,
                        CameraWatches, CameraStops, CameraCloses
<1>6. CASE \/ PipelineAwaits \/ PipelinePopsNothing \/ PipelineChecks
           \/ PipelineSpawns \/ PipelineSpawnFails \/ PipelineCounts
           \/ PipelineStartsThreads \/ PipelineFeeds \/ PipelineEndsRun
           \/ PipelineJoins \/ PipelineDecides
  BY <1>6, FeedKept
  DEF PipelineAwaits, PipelinePopsNothing, PipelineChecks, PipelineSpawns,
      PipelineSpawnFails, PipelineCounts, PipelineStartsThreads, PipelineFeeds,
      PipelineEndsRun, PipelineJoins, PipelineDecides
<1>7. ASSUME raw_queue # <<>>, raw_queue' = Tail(raw_queue), UNCHANGED <<input, arrived>>,
             raw = NoRaw, raw' \in {NoRaw, Head(raw_queue)}
      PROVE  RawOrderInv' /\ FfmpegInput'
  <2>1. /\ Head(raw_queue) = raw_queue[1] /\ Len(raw_queue') = Len(raw_queue) - 1
        /\ 1 \in 1 .. Len(raw_queue)
        /\ \A k \in 1 .. Len(raw_queue') : raw_queue'[k] = raw_queue[k + 1]
    BY <1>7, PoppedFrame
  <2>2. ASSUME NEW k \in 1 .. Len(raw_queue') PROVE NewerInQueue(k)'
    <3>1. k + 1 \in 1 .. Len(raw_queue) /\ NewerInQueue(k + 1)
          /\ raw_queue'[k] = raw_queue[k + 1] /\ 1 \in 1 .. (k + 1) - 1
      BY <1>1, <2>1 DEF RawOrderInv
    <3>2. \A j \in 1 .. k - 1 : raw_queue'[j].id < raw_queue'[k].id
      <4> SUFFICES ASSUME NEW j \in 1 .. k - 1
                   PROVE  raw_queue'[j].id < raw_queue'[k].id
        OBVIOUS
      <4>1. j + 1 \in 1 .. (k + 1) - 1 /\ raw_queue'[j] = raw_queue[j + 1]
        BY <1>1, <2>1
      <4>2. QED
        BY <3>1, <4>1 DEF NewerInQueue
    <3>3. raw' # NoRaw => raw'.id < raw_queue'[k].id
      BY <1>7, <2>1, <3>1 DEF NewerInQueue
    <3>4. QED
      BY <1>7, <3>1, <3>2, <3>3 DEF NewerInQueue
  <2>3. raw' # NoRaw => raw'.id <= arrived'
                        /\ \A i \in 1 .. Len(input') : input'[i].id < raw'.id
    BY <1>7, <2>1 DEF RawOrderInv, NewerInQueue
  <2>4. QED
    BY <1>7, <2>2, <2>3 DEF RawOrderInv, FfmpegInput
<1>8. CASE PipelinePopsFirst
  BY <1>7, <1>8 DEF PipelinePopsFirst, RawInv
<1>9. CASE PipelinePops
  <2>1. CASE raw_queue = <<>>
    BY <1>9, <2>1, FeedKept DEF PipelinePops
  <2>2. CASE raw_queue # <<>>
    BY <1>7, <1>9, <2>2 DEF PipelinePops, RawInv
  <2>3. QED
    BY <2>1, <2>2
<1>10. CASE PipelineWritesFirst
  <2>1. /\ raw # NoRaw /\ raw.mark = "I" /\ raw \in RawFrame /\ raw' = NoRaw
        /\ input' = <<raw>> /\ UNCHANGED <<raw_queue, arrived>>
    BY <1>1, <1>10 DEF PipelineWritesFirst, RawInv
  <2>2. Len(input') = 1 /\ input'[1] = raw
    BY <2>1
  <2>3. QED
    BY <1>1, <2>1, <2>2 DEF RawOrderInv, NewerInQueue, FfmpegInput
<1>11. CASE PipelineWrites
  <2>1. /\ raw # NoRaw /\ raw.mark # "audio" /\ raw \in RawFrame /\ raw' = NoRaw
        /\ UNCHANGED <<raw_queue, arrived>> /\ input # <<>>
    BY <1>1, <1>11 DEF PipelineWrites, RawInv
  <2>2. CASE input' = input
    BY <2>1, <2>2, FeedKept
  <2>3. CASE input' = Append(input, raw)
    <3>1. /\ Len(input') = Len(input) + 1 /\ input'[Len(input) + 1] = raw
          /\ \A i \in 1 .. Len(input) : input'[i] = input[i]
          /\ Len(input) > 0 /\ input'[1] = input[1]
      BY <1>1, <2>1, <2>3, AppendProperties, EmptySeq
    <3>2. RawOrderInv'
      <4>1. ASSUME NEW i \in 1 .. Len(input')
            PROVE  /\ input'[i].id <= arrived
                   /\ \A k \in 1 .. Len(raw_queue) : input'[i].id < raw_queue[k].id
        <5>1. i \in 1 .. Len(input) \/ i = Len(input) + 1
          BY <1>1, <3>1
        <5>2. QED
          BY <2>1, <3>1, <5>1 DEF RawOrderInv, NewerInQueue
      <4>2. QED
        BY <2>1, <4>1 DEF RawOrderInv, NewerInQueue
    <3>3. \A i \in 1 .. Len(input') : input'[i].mark # "audio"
      BY <1>1, <2>1, <3>1 DEF FfmpegInput
    <3>4. ASSUME NEW i \in 1 .. Len(input') - 1 PROVE input'[i].id < input'[i + 1].id
      <4>1. i = Len(input) \/ i \in 1 .. Len(input) - 1
        BY <1>1, <3>1
      <4>2. CASE i = Len(input)
        BY <2>1, <3>1, <4>2 DEF RawOrderInv
      <4>3. CASE i \in 1 .. Len(input) - 1
        <5>1. i \in 1 .. Len(input) /\ i + 1 \in 1 .. Len(input)
          BY <1>1, <4>3
        <5>2. QED
          BY <2>1, <3>1, <4>3, <5>1 DEF FfmpegInput
      <4>4. QED
        BY <4>1, <4>2, <4>3
    <3>5. QED
      BY <2>1, <3>1, <3>2, <3>3, <3>4 DEF FfmpegInput
  <2>4. QED
    BY <1>11, <2>2, <2>3 DEF PipelineWrites
<1>12. CASE MonitorDelivers
  <2>1. PICK mark \in {"I", "P", "audio"} :
               raw_queue' = Append(WithRoom, [id |-> arrived + 1, mark |-> mark])
    BY <1>12 DEF MonitorDelivers
  <2> DEFINE new == [id |-> arrived + 1, mark |-> mark]
  <2>2. /\ arrived' = arrived + 1 /\ UNCHANGED <<raw, input>> /\ new \in RawFrame
        /\ new.id = arrived + 1
    <3>1. arrived + 1 \in 1 .. MaxRaw * MaxStarts
      BY <1>12, AnotherArrives DEF MonitorDelivers, StreamTypeOK
    <3>2. QED
      BY <1>12, <3>1 DEF MonitorDelivers, RawFrame
  <2>3. PICK d \in {0, 1} :
          /\ WithRoom \in Seq(RawFrame) /\ Len(WithRoom) = Len(raw_queue) - d
          /\ Len(WithRoom) \in Nat
          /\ \A k \in 1 .. Len(WithRoom) : WithRoom[k] = raw_queue[k + d]
    <3>1. CASE Len(raw_queue) >= QueueFrames
      <4>1. raw_queue # <<>>
        BY <1>1, <3>1, QueueAssumption, EmptySeq
      <4>2. WithRoom = Tail(raw_queue)
        BY <3>1 DEF WithRoom
      <4>3. /\ Tail(raw_queue) \in Seq(RawFrame)
            /\ Len(Tail(raw_queue)) = Len(raw_queue) - 1
            /\ \A k \in 1 .. Len(raw_queue) - 1 : Tail(raw_queue)[k] = raw_queue[k + 1]
            /\ Len(raw_queue) > 0
        BY <4>1, PoppedFrame
      <4>4. /\ Len(WithRoom) = Len(raw_queue) - 1 /\ Len(WithRoom) \in Nat
            /\ \A k \in 1 .. Len(WithRoom) : WithRoom[k] = raw_queue[k + 1]
        BY <1>1, <4>2, <4>3
      <4> WITNESS 1 \in {0, 1}
      <4>5. QED
        BY <4>2, <4>3, <4>4
    <3>2. CASE ~(Len(raw_queue) >= QueueFrames)
      <4>1. WithRoom = raw_queue
        BY <3>2 DEF WithRoom
      <4>2. QED
        BY <1>1, <4>1
    <3>3. QED
      BY <3>1, <3>2
  <2>4. /\ Len(raw_queue') = Len(WithRoom) + 1 /\ raw_queue'[Len(WithRoom) + 1] = new
        /\ \A k \in 1 .. Len(WithRoom) : raw_queue'[k] = WithRoom[k]
    BY <2>1, <2>2, <2>3, AppendProperties
  <2>5. ASSUME NEW k \in 1 .. Len(WithRoom)
        PROVE  /\ k + d \in 1 .. Len(raw_queue) /\ NewerInQueue(k + d)
               /\ raw_queue'[k] = raw_queue[k + d] /\ raw_queue'[k].id \in Int
    <3>1. k + d \in 1 .. Len(raw_queue)
      BY <1>1, <2>3
    <3>2. NewerInQueue(k + d)
      BY <3>1 DEF RawOrderInv
    <3>3. raw_queue'[k] = raw_queue[k + d]
      BY <2>3, <2>4
    <3>4. raw_queue[k + d].id \in Int
      BY <1>2, <1>3, <3>1
    <3>5. QED
      BY <3>1, <3>2, <3>3, <3>4
  <2>6. ASSUME NEW k \in 1 .. Len(WithRoom) PROVE NewerInQueue(k)'
    <3>1. \A j \in 1 .. k - 1 : raw_queue'[j].id < raw_queue'[k].id
      <4> SUFFICES ASSUME NEW j \in 1 .. k - 1
                   PROVE  raw_queue'[j].id < raw_queue'[k].id
        OBVIOUS
      <4>1. j \in 1 .. Len(WithRoom) /\ j + d \in 1 .. (k + d) - 1
        BY <2>3
      <4>2. QED
        BY <2>5, <4>1 DEF NewerInQueue
    <3>2. raw_queue'[k].id <= arrived + 1
      <4>1. raw_queue'[k].id <= arrived /\ raw_queue'[k].id \in Int
        BY <2>5 DEF NewerInQueue
      <4>2. arrived \in Int
        BY <1>1
      <4>3. QED
        BY <4>1, <4>2
    <3>3. /\ raw # NoRaw => raw.id < raw_queue'[k].id
          /\ \A i \in 1 .. Len(input) : input[i].id < raw_queue'[k].id
      BY <2>5 DEF NewerInQueue
    <3>4. QED
      BY <2>2, <3>1, <3>2, <3>3 DEF NewerInQueue
  <2>7. ASSUME NEW k, k = Len(WithRoom) + 1 PROVE NewerInQueue(k)'
    <3>1. \A j \in 1 .. k - 1 : raw_queue'[j].id < arrived + 1
      BY <1>1, <2>3, <2>5, <2>7 DEF NewerInQueue
    <3>2. raw # NoRaw => raw.id < arrived + 1
      BY <1>1, <1>2 DEF RawOrderInv
    <3>3. \A i \in 1 .. Len(input) : input[i].id < arrived + 1
      BY <1>1, <1>2, <1>3 DEF RawOrderInv
    <3>4. QED
      BY <1>1, <2>2, <2>4, <2>7, <3>1, <3>2, <3>3 DEF NewerInQueue
  <2>8. \A k \in 1 .. Len(raw_queue') : NewerInQueue(k)'
    <3> SUFFICES ASSUME NEW k \in 1 .. Len(raw_queue') PROVE NewerInQueue(k)'
      OBVIOUS
    <3>1. k \in 1 .. Len(WithRoom) \/ k = Len(WithRoom) + 1
      BY <2>3, <2>4
    <3>2. QED
      BY <2>6, <2>7, <3>1
  <2>9. /\ raw # NoRaw => raw.id <= arrived + 1
        /\ \A i \in 1 .. Len(input) : input[i].id <= arrived + 1
    BY <1>1, <1>2, <1>3 DEF RawOrderInv
  <2>10. QED
    BY <2>2, <2>8, <2>9 DEF RawOrderInv, FfmpegInput
<1>13. CASE HttpBinds \/ HttpLoops \/ HttpAcceptsNone \/ HttpAccepts
  BY <1>13, FeedKept DEF HttpBinds, HttpLoops, HttpAcceptsNone, HttpAccepts
<1>14. CASE UNCHANGED ssvars
  BY <1>14, FeedKept
<1>15. QED
  BY <1>4, <1>5, <1>6, <1>8, <1>9, <1>10, <1>11, <1>12, <1>13, <1>14 DEF Next, vars
-----------------------------------------------------------------------------
(* StreamServer: the fallback to software. *)

LEMMA FallbackStep ==
  StreamThreadsInv /\ FallbackInv /\ [Next]_vars => FallbackInv'
<1> SUFFICES ASSUME StreamThreadsInv, FallbackInv, [Next]_vars PROVE FallbackInv'
  OBVIOUS
<1> USE DEF FallbackInv
<1>1. ASSUME UNCHANGED <<worker, recorded, hw, hw_fallback, frames_at_start>>,
             pipeline' \in {"await", "popFirst", "check", "spawn"}
               => pipeline \in {"await", "popFirst", "check", "spawn"}
      PROVE  FallbackInv'
  BY <1>1 DEF FrameCount
<1>2. CASE Start
  BY <1>2 DEF Start
<1>3. CASE \/ Stop \/ StopCloses \/ StopJoins \/ MonitorDelivers \/ MonitorEnds
  BY <1>1, <1>3 DEF Stop, StopCloses, StopJoins, MonitorDelivers, MonitorEnds
<1>4. CASE \/ CameraLoops \/ CameraLogsIn \/ CameraOpens \/ CameraStarts
           \/ CameraWatches \/ CameraStops \/ CameraCloses
  BY <1>1, <1>4 DEF CameraLoops, CameraLogsIn, CameraOpens, CameraStarts,
                    CameraWatches, CameraStops, CameraCloses
<1>5. CASE \/ PipelineAwaits \/ PipelinePopsFirst \/ PipelinePopsNothing
           \/ PipelineChecks \/ PipelineSpawnFails \/ PipelineFeeds
           \/ PipelinePops \/ PipelineWrites
  BY <1>1, <1>5 DEF PipelineAwaits, PipelinePopsFirst, PipelinePopsNothing, PipelineChecks,
                    PipelineSpawnFails, PipelineFeeds, PipelinePops, PipelineWrites
<1>6. CASE \/ PipelineSpawns \/ PipelineCounts \/ PipelineWritesFirst
           \/ PipelineStartsThreads \/ PipelineEndsRun \/ PipelineJoins
  BY <1>6 DEF PipelineSpawns, PipelineCounts, PipelineWritesFirst,
              PipelineStartsThreads, PipelineEndsRun, PipelineJoins
<1>7. CASE PipelineDecides
  BY <1>7 DEF PipelineDecides, FrameCount
<1>8. CASE HttpBinds \/ HttpLoops \/ HttpAcceptsNone
  BY <1>1, <1>8 DEF HttpBinds, HttpLoops, HttpAcceptsNone
<1>9. CASE HttpAccepts
  BY <1>1, <1>9 DEF HttpAccepts, ClientConnects
<1>10. CASE RunStep /\ UNCHANGED ssvars
  <2>1. reader # "none" \/ worker # "none" \/ ffmpeg # "none"
    <3>1. CASE FfmpegMakes \/ FfmpegDies \/ ReaderPuts \/ ReaderSeesEnd \/ ReaderCloses
      BY <3>1 DEF FfmpegMakes, FfmpegDies, ReaderPuts, ReaderSeesEnd, ReaderCloses
    <3>2. CASE \/ WorkerTakes \/ WorkerEnds \/ WorkerSnaps \/ WorkerDraws
               \/ WorkerShows \/ WorkerRecords \/ WorkerUpdates
      BY <3>2 DEF WorkerTakes, WorkerEnds, WorkerSnaps, WorkerDraws, WorkerShows,
                  WorkerRecords, WorkerUpdates
    <3>3. QED
      BY <1>10, <3>1, <3>2 DEF RunStep
  <2>2. pipeline \in Spawned \cup InRun \cup {"join"} /\ pipeline' = pipeline
    BY <1>10, <2>1 DEF StreamThreadsInv, RunInv
  <2>3. QED
    BY <2>2
<1>11. CASE \E c \in Clients : Client(c) /\ UNCHANGED ssvars
  BY <1>1, <1>11 DEF Client, ClientLoops, ClientGets, ClientWaitsInVain, ClientSends
<1>12. CASE UNCHANGED vars
  BY <1>1, <1>12 DEF vars
<1>13. QED
  BY <1>2, <1>3, <1>4, <1>5, <1>6, <1>7, <1>8, <1>9, <1>10, <1>11, <1>12
  DEF Next, RunStep

-----------------------------------------------------------------------------
(* StreamServer: the runs of ffmpeg stay apart. *)

LEMMA ApartStep ==
  JpegPathInv /\ StreamThreadsInv /\ ApartInv /\ [Next]_vars => ApartInv'
<1> SUFFICES ASSUME JpegPathInv, StreamThreadsInv, ApartInv, [Next]_vars PROVE ApartInv'
  OBVIOUS
<1>1. /\ made \in Nat /\ stdout \in Seq(Jpeg) /\ Len(stdout) \in Nat
      /\ \A k \in 1 .. Len(stdout) : stdout[k] \in Jpeg /\ stdout[k].id \in Nat
      /\ JpegPathTypeOK
  BY IdTypes DEF JpegPathInv
<1> USE DEF ApartInv
<1>2. ASSUME UNCHANGED <<worker, hand, slot, stdout, made, made_at_start>> PROVE ApartInv'
  BY <1>2
<1>3. CASE Start \/ Stop \/ StopCloses \/ StopJoins \/ MonitorDelivers \/ MonitorEnds
  BY <1>2, <1>3 DEF Start, Stop, StopCloses, StopJoins, MonitorDelivers, MonitorEnds
<1>4. CASE \/ CameraLoops \/ CameraLogsIn \/ CameraOpens \/ CameraStarts
           \/ CameraWatches \/ CameraStops \/ CameraCloses
  BY <1>2, <1>4 DEF CameraLoops, CameraLogsIn, CameraOpens, CameraStarts,
                    CameraWatches, CameraStops, CameraCloses
<1>5. CASE \/ PipelineAwaits \/ PipelinePopsFirst \/ PipelinePopsNothing
           \/ PipelineChecks \/ PipelineSpawnFails \/ PipelineCounts
           \/ PipelineWritesFirst
  BY <1>2, <1>5 DEF PipelineAwaits, PipelinePopsFirst, PipelinePopsNothing,
                    PipelineChecks, PipelineSpawnFails, PipelineCounts,
                    PipelineWritesFirst
<1>6. CASE PipelineFeeds \/ PipelinePops \/ PipelineWrites \/ PipelineEndsRun \/ PipelineDecides
  BY <1>2, <1>6 DEF PipelineFeeds, PipelinePops, PipelineWrites, PipelineEndsRun,
                    Terminate, PipelineDecides
<1>7. CASE PipelineSpawns
  <2>1. worker = "none" /\ hand = NoJpeg /\ slot = NoJpeg
    BY <1>7 DEF PipelineSpawns, StreamThreadsInv, RunInv
  <2>2. UNCHANGED <<worker, hand, slot, made>> /\ stdout' = <<>> /\ made_at_start' = made
    BY <1>7 DEF PipelineSpawns, SpawnRun
  <2>3. QED
    BY <1>1, <2>1, <2>2
<1>8. CASE PipelineStartsThreads
  <2>1. worker = "none" /\ hand = NoJpeg
    BY <1>8 DEF PipelineStartsThreads, StreamThreadsInv, RunInv
  <2>2. /\ worker' = "getting" /\ slot' = NoJpeg
        /\ UNCHANGED <<hand, stdout, made, made_at_start>>
    BY <1>8 DEF PipelineStartsThreads, StartThreads
  <2>3. QED
    BY <2>1, <2>2
<1>9. CASE PipelineJoins
  <2>1. worker = "ended" /\ slot = NoJpeg
    BY <1>9 DEF PipelineJoins, JoinRun, JpegPathInv, SlotInv
  <2>2. worker' = "none" /\ UNCHANGED <<hand, slot, stdout, made, made_at_start>>
    BY <1>9 DEF PipelineJoins, JoinRun
  <2>3. QED
    BY <2>1, <2>2
<1>10. CASE HttpBinds \/ HttpLoops \/ HttpAcceptsNone \/ HttpAccepts
  BY <1>2, <1>10 DEF HttpBinds, HttpLoops, HttpAcceptsNone, HttpAccepts, ClientConnects
<1>11. CASE FfmpegMakes /\ UNCHANGED ssvars
  <2> DEFINE jpg == [id |-> made + 1, drawn |-> [r \in Regions |-> NoText]]
  <2>1. /\ Len(stdout') = Len(stdout) + 1 /\ stdout'[Len(stdout) + 1] = jpg
        /\ \A k \in 1 .. Len(stdout) : stdout'[k] = stdout[k]
    BY <1>1, <1>11 DEF FfmpegMakes
  <2>2. made_at_start < jpg.id
    BY <1>1
  <2>3. QED
    BY <1>1, <1>11, <2>1, <2>2 DEF FfmpegMakes
<1>12. CASE (FfmpegDies \/ ReaderSeesEnd \/ ReaderCloses) /\ UNCHANGED ssvars
  BY <1>2, <1>12 DEF FfmpegDies, ReaderSeesEnd, ReaderCloses
<1>13. CASE ReaderPuts /\ UNCHANGED ssvars
  <2>1. /\ slot' = stdout[1] /\ slot' # NoJpeg /\ Len(stdout) > 0
        /\ Len(stdout') = Len(stdout) - 1
        /\ \A k \in 1 .. Len(stdout') : stdout'[k] = stdout[k + 1]
    BY <1>1, <1>13, HeadTailProperties, NoJpegAssumption DEF ReaderPuts
  <2>2. worker # "none" /\ UNCHANGED <<worker, hand, made, made_at_start>>
    BY <1>13 DEF ReaderPuts, StreamThreadsInv, RunInv
  <2>3. QED
    BY <1>1, <2>1, <2>2
<1>14. CASE (WorkerTakes \/ WorkerEnds) /\ UNCHANGED ssvars
  BY <1>14 DEF WorkerTakes, WorkerEnds
<1>15. CASE (WorkerSnaps \/ WorkerDraws) /\ UNCHANGED ssvars
  <2>1. hand \in Jpeg /\ hand'.id = hand.id
    BY <1>1, <1>15, HandKeepsId
  <2>2. /\ worker = "drawing" /\ worker' \in {"drawing", "showing"}
        /\ UNCHANGED <<slot, stdout, made, made_at_start>>
    BY <1>15 DEF WorkerSnaps, WorkerDraws
  <2>3. QED
    BY <2>1, <2>2, NoJpegAssumption
<1>16. CASE (WorkerShows \/ WorkerRecords \/ WorkerUpdates) /\ UNCHANGED ssvars
  BY <1>16 DEF WorkerShows, WorkerRecords, WorkerUpdates
<1>17. CASE \E c \in Clients : Client(c) /\ UNCHANGED ssvars
  BY <1>2, <1>17
  DEF Client, ClientLoops, ClientGets, ClientWaitsInVain, ClientSends
<1>18. CASE UNCHANGED vars
  BY <1>2, <1>18 DEF vars
<1>19. QED
  BY <1>3, <1>4, <1>5, <1>6, <1>7, <1>8, <1>9, <1>10, <1>11, <1>12, <1>13, <1>14,
     <1>15, <1>16, <1>17, <1>18
  DEF Next

-----------------------------------------------------------------------------
(* The theorems about StreamServer. *)

THEOREM StreamKeepsInv == Spec => []StreamInv
<1>1. Init => StreamInv
  <2> SUFFICES ASSUME Init PROVE StreamInv
    OBVIOUS
  <2>1. JpegPathTypeOK
    BY JpegInitTypes DEF Init
  <2>2. MaxRaw * MaxStarts \in Nat
    BY RawBoundAssumption, Z3
  <2>3. /\ starts \in 0 .. MaxStarts /\ arrived \in 0 .. MaxRaw * MaxStarts
        /\ frames_at_start \in 0 .. MaxJpegs /\ made_at_start \in 0 .. MaxJpegs
        /\ Len(raw_queue) <= QueueFrames
        /\ raw_queue \in Seq(RawFrame) /\ input \in Seq(RawFrame)
    BY <2>2, RawBoundAssumption, JpegBoundsAssumption, QueueAssumption DEF Init
  <2>4. StreamTypeOK
    BY <2>1, <2>3 DEF Init, StreamTypeOK
  <2>5. StreamThreadsInv
    BY DEF Init, JpegPathInit, StreamThreadsInv, StopInv, MonitorInv, RunInv
  <2>6. FeedInv /\ FallbackInv
    BY DEF Init, FeedInv, RawInv, RawOrderInv, FfmpegInput, FallbackInv
  <2>7. ApartInv
    BY DEF Init, JpegPathInit, ApartInv
  <2>8. QED
    BY <2>4, <2>5, <2>6, <2>7 DEF StreamInv
<1>2. JpegPathInv /\ JpegPathInv' /\ StreamInv /\ [Next]_vars => StreamInv'
  BY StreamTypesStep, StreamThreadsStep, RawStep, FeedStep, FallbackStep, ApartStep
  DEF StreamInv, FeedInv, JpegPathInv
<1>3. QED
  BY <1>1, <1>2, StreamKeepsJpegPathInv, PTL DEF Spec

(* Every variable of the server keeps its type: the queue of raw frames    *)
(* its capacity, the two holders of a frame a frame or none.               *)
THEOREM StreamTypes == Spec => []StreamTypeOK
<1>1. StreamInv => StreamTypeOK
  BY DEF StreamInv
<1>2. QED
  BY <1>1, StreamKeepsInv, PTL

(* Every ffmpeg is fed a selection of the video that has arrived, in its   *)
(* order and beginning with a frame marked "I", whatever the full queue    *)
(* has dropped, whenever the camera reconnects and however often ffmpeg or *)
(* the server is started again.                                            *)
THEOREM FfmpegIsFedInOrder == Spec => []FfmpegInput
<1>1. StreamInv => FfmpegInput
  BY DEF StreamInv, FeedInv
<1>2. QED
  BY <1>1, StreamKeepsInv, PTL

(* Frames of one ffmpeg never reach the slot or the worker of the next,    *)
(* nor are they left in their hands when it is spawned, wherever a stop or *)
(* the death of ffmpeg has found the reader and the worker.                *)
THEOREM RunsAreKeptApart == Spec => []RunsStayApart
<1>1. StreamInv => RunsStayApart
  BY DEF StreamInv, ApartInv, RunsStayApart, Range, StreamTypeOK, JpegPathTypeOK
<1>2. QED
  BY <1>1, StreamKeepsInv, PTL

(* A run on hardware that gave no frame before its worker ended is         *)
(* followed by one in software, whatever the queue hands out and whichever *)
(* spawn fails between the two.                                            *)
THEOREM FallbackFollows == Spec => FruitlessRunFallsBack
<1>1. StreamInv => (PipelineSpawns /\ hw /\ FrameCount = frames_at_start => ~hw')
  BY DEF StreamInv, FallbackInv, PipelineSpawns
<1>2. QED
  BY <1>1, StreamKeepsInv, PTL DEF Spec, FruitlessRunFallsBack
=============================================================================
