------------------------------ MODULE JpegPath ------------------------------
(***************************************************************************)
(* From ffmpeg to the viewers: the second half of the stream server of     *)
(* src/src/stream_server.cpp.  The reader thread takes JPEG frames off the *)
(* stdout of ffmpeg and puts them into a slot for one frame, the overlay   *)
(* worker takes the newest, draws the overlay text, calls both JPEG        *)
(* callbacks and updates latest_jpeg, from which HTTP clients are served.  *)
(* User threads change the overlay text at any time.                       *)
(*                                                                         *)
(* StreamServer extends this module with the threads that start ffmpeg,    *)
(* feed it and end it; here they may do so at any time.  A critical        *)
(* section is one action.                                                  *)
(*                                                                         *)
(* A few one-line operators have a faulty twin right before them (Leaves-  *)
(* Worker before ThreadsEnded, and so on).  No action uses the twins: they *)
(* are the faults that the README's table of mutations puts in.            *)
(***************************************************************************)
EXTENDS Integers, Sequences, SequencesExt

CONSTANTS
  Boxes,        \* STREAM_OVERLAY_MAX_BOXES, the number of text boxes
  Clients,      \* HTTP clients that ask for /stream
  PipeFrames,   \* JPEG frames that fit into the stdout pipe of ffmpeg
  NoJpeg,       \* no frame
  MaxJpegs,     \* bound: frames ffmpeg makes over a behaviour
  MaxPrints     \* bound: calls of overlay_print and overlay_box_print

ASSUME BoxesAssumption == Boxes \in Nat
ASSUME PipeAssumption  == PipeFrames \in Nat \ {0}
ASSUME JpegBoundsAssumption == MaxJpegs \in Nat /\ MaxPrints \in Nat

(* Region 0 is the single-region overlay, the others are the text boxes.   *)
(* A text is the number of the print that wrote it, NoText the empty one.  *)
Regions == 0 .. Boxes
NoText  == 0
Text    == 0 .. MaxPrints

(* A JPEG is its position in the output of ffmpeg and what has been drawn  *)
(* into each region.                                                       *)
Jpeg == [id : 1 .. MaxJpegs, drawn : [Regions -> Text]]

ASSUME NoJpegAssumption == NoJpeg \notin Jpeg

VARIABLES
  running,              \* the server's atomic flag
  ffmpeg,               \* the process: "none", "running" or "dead"
  made, stdout,         \* frames made so far, and those in the pipe
  pipe_ok,              \* atomic flag of the run
  reader,               \* where the reader thread is
  slot, slot_done,      \* JpegSlot
  worker, hand, region, \* the overlay worker, its frame, the next region
  back, front, dirty,   \* the double buffer of each region
  active,               \* the regions that are drawn: boxes once configured
  prints,               \* number of prints so far
  current,              \* history: texts current since the worker took hand
  shown, recorded,      \* history: frames given to jpeg_cb, overlay_jpeg_cb
  latest,               \* LatestJpeg
  client, client_jpeg   \* where each HTTP client is, the frame it sends

process == <<ffmpeg, made, stdout>>
slots   == <<slot, slot_done>>
working == <<worker, hand, region, current>>
texts   == <<back, front, dirty, active, prints>>
outputs == <<shown, recorded, latest>>
clients == <<client, client_jpeg>>

jpvars == <<running, process, pipe_ok, reader, slots, working, texts, outputs,
            clients>>

JpegPathTypeOK ==
  /\ running \in BOOLEAN /\ pipe_ok \in BOOLEAN /\ slot_done \in BOOLEAN
  /\ ffmpeg \in {"none", "running", "dead"}
  /\ made \in 0 .. MaxJpegs /\ prints \in Text
  /\ stdout \in Seq(Jpeg) /\ Len(stdout) <= PipeFrames
  /\ reader \in {"none", "reading", "closing", "ended"}
  /\ worker \in {"none", "getting", "drawing", "showing", "recording",
                 "updating", "ended"}
  /\ {slot, hand, latest} \subseteq Jpeg \cup {NoJpeg}
  /\ client_jpeg \in [Clients -> Jpeg \cup {NoJpeg}]
  /\ worker \in {"drawing", "showing", "recording", "updating"} => hand \in Jpeg
  /\ region \in 0 .. Boxes + 1
  /\ back \in [Regions -> Text] /\ front \in [Regions -> Text]
  /\ dirty \in [Regions -> BOOLEAN] /\ active \subseteq Regions
  /\ current \in [Regions -> SUBSET Text]
  /\ shown \in Seq(Jpeg) /\ recorded \in Seq(Jpeg)
  /\ client \in [Clients -> {"off", "looping", "waiting", "sending", "closed"}]

JpegPathInit ==
  /\ running = FALSE /\ pipe_ok = FALSE
  /\ ffmpeg = "none" /\ made = 0 /\ stdout = <<>>
  /\ reader = "none" /\ slot = NoJpeg /\ slot_done = FALSE
  /\ worker = "none" /\ hand = NoJpeg /\ region = 0
  /\ back = [r \in Regions |-> NoText] /\ front = back
  /\ dirty = [r \in Regions |-> FALSE] /\ active = {0} /\ prints = 0
  /\ current = [r \in Regions |-> {}]
  /\ shown = <<>> /\ recorded = <<>> /\ latest = NoJpeg
  /\ client = [c \in Clients |-> "off"]
  /\ client_jpeg = [c \in Clients |-> NoJpeg]
-----------------------------------------------------------------------------
(* One run of ffmpeg, as run_pipeline starts, ends and joins it.           *)

SpawnRun ==
  /\ ffmpeg' = "running" /\ stdout' = <<>>
  /\ UNCHANGED <<running, made, pipe_ok, reader, slots, working, texts, outputs,
                 clients>>

StartThreads ==
  /\ pipe_ok' = TRUE
  /\ slot' = NoJpeg /\ slot_done' = FALSE
  /\ reader' = "reading" /\ worker' = "getting"
  /\ UNCHANGED <<running, process, hand, region, current, texts, outputs, clients>>

(* ffmpeg.terminate(): the process is killed and its pipes are closed. *)
Terminate ==
  /\ ffmpeg' = "none"
  /\ pipe_ok' = FALSE
  /\ UNCHANGED <<running, made, stdout, reader, slots, working, texts, outputs,
                 clients>>

(* The joins after it. *)
LeavesWorker == reader = "ended"
ThreadsEnded == reader = "ended" /\ worker = "ended"

JoinRun ==
  /\ ThreadsEnded
  /\ reader' = "none" /\ worker' = "none"
  /\ UNCHANGED <<running, process, pipe_ok, slots, hand, region, current, texts,
                 outputs, clients>>

(* ffmpeg itself. *)
FfmpegMakes ==
  /\ ffmpeg = "running" /\ made < MaxJpegs /\ Len(stdout) < PipeFrames
  /\ made' = made + 1
  /\ stdout' = Append(stdout, [id    |-> made + 1,
                               drawn |-> [r \in Regions |-> NoText]])
  /\ UNCHANGED <<running, ffmpeg, pipe_ok, reader, slots, working, texts,
                 outputs, clients>>

FfmpegDies ==
  /\ ffmpeg = "running"
  /\ ffmpeg' = "dead"
  /\ UNCHANGED <<running, made, stdout, pipe_ok, reader, slots, working, texts,
                 outputs, clients>>
-----------------------------------------------------------------------------
(* The reader thread.  After terminate() it may still get what is in the   *)
(* pipe, or find the pipe closed.                                          *)

ReaderPuts ==
  /\ reader = "reading" /\ stdout # <<>>
  /\ slot' = Head(stdout) /\ stdout' = Tail(stdout)
  /\ UNCHANGED <<running, ffmpeg, made, pipe_ok, reader, slot_done, working,
                 texts, outputs, clients>>

ReaderSeesEnd ==
  /\ reader = "reading"
  /\ ffmpeg = "none" \/ (ffmpeg = "dead" /\ stdout = <<>>)
  /\ reader' = "closing"
  /\ pipe_ok' = FALSE
  /\ UNCHANGED <<running, process, slots, working, texts, outputs, clients>>

ClosedSlot     == TRUE

ReaderCloses ==
  /\ reader = "closing"
  /\ reader' = "ended"
  /\ slot_done' = ClosedSlot
  /\ UNCHANGED <<running, process, pipe_ok, slot, working, texts, outputs,
                 clients>>
-----------------------------------------------------------------------------
(* The overlay worker. *)

(* What should be on the next frame. *)
Visible(r) == IF r \in active THEN back[r] ELSE NoText

HasFrame  == slot # NoJpeg

KeepsFrame == slot
TakenSlot  == NoJpeg

WorkerTakes ==
  /\ worker = "getting" /\ HasFrame
  /\ worker' = "drawing" /\ hand' = slot /\ slot' = TakenSlot
  /\ region' = 0
  /\ current' = [r \in Regions |-> {Visible(r)}]
  /\ UNCHANGED <<running, process, pipe_ok, reader, slot_done, texts, outputs,
                 clients>>

EndsWhenDone  == slot_done
EndsWhenEmpty == slot_done /\ ~HasFrame

WorkerEnds ==
  /\ worker = "getting" /\ EndsWhenEmpty
  /\ worker' = "ended"
  /\ UNCHANGED <<running, process, pipe_ok, reader, slots, hand, region,
                 current, texts, outputs, clients>>

(* text_snap, then snap of each box: the buffers are swapped when dirty.   *)
WorkerSnaps ==
  /\ worker = "drawing" /\ region \in Regions
  /\ LET text == IF dirty[region] THEN back[region] ELSE front[region] IN
     /\ front' = [front EXCEPT ![region] = text]
     /\ dirty' = [dirty EXCEPT ![region] = FALSE]
     /\ hand'  = [hand EXCEPT !.drawn[region] =
                                 IF region \in active THEN text ELSE NoText]
  /\ region' = region + 1
  /\ UNCHANGED <<running, process, pipe_ok, reader, slots, worker, current,
                 back, active, prints, outputs, clients>>

(* Decode, draw and encode; when one of them fails the frame stays as it   *)
(* came from ffmpeg.                                                       *)
WorkerDraws ==
  /\ worker = "drawing" /\ region = Boxes + 1
  /\ worker' = "showing"
  /\ \/ UNCHANGED hand
     \/ hand' = [hand EXCEPT !.drawn = [r \in Regions |-> NoText]]
  /\ UNCHANGED <<running, process, pipe_ok, reader, slots, region, current,
                 texts, outputs, clients>>

WorkerShows ==
  /\ worker = "showing"
  /\ worker' = "recording"
  /\ shown' = Append(shown, hand)
  /\ UNCHANGED <<running, process, pipe_ok, reader, slots, hand, region,
                 current, texts, recorded, latest, clients>>

WorkerRecords ==
  /\ worker = "recording"
  /\ worker' = "updating"
  /\ recorded' = Append(recorded, hand)
  /\ UNCHANGED <<running, process, pipe_ok, reader, slots, hand, region,
                 current, texts, shown, latest, clients>>

WorkerUpdates ==
  /\ worker = "updating"
  /\ worker' = "getting"
  /\ latest' = hand
  /\ hand' = NoJpeg
  /\ UNCHANGED <<running, process, pipe_ok, reader, slots, region, current,
                 texts, shown, recorded, clients>>
-----------------------------------------------------------------------------
(* User threads: overlay_print, overlay_box_print, their clears, and       *)
(* overlay_box_configure.                                                  *)
(* overlay_box_clear_all clears one box after the other, each under its    *)
(* own mutex.                                                              *)

ClearsQuietly(r) == dirty
MarksDirty(r) == [dirty EXCEPT ![r] = TRUE]

Writes(r, text) ==
  /\ back' = [back EXCEPT ![r] = text]
  /\ dirty' = MarksDirty(r)
  /\ current' = [current EXCEPT ![r] = @ \cup {IF r \in active THEN text ELSE NoText}]
  /\ UNCHANGED <<running, process, pipe_ok, reader, slots, worker, hand, region,
                 front, active, outputs, clients>>

OverlayPrint(r) ==
  /\ prints < MaxPrints
  /\ prints' = prints + 1
  /\ Writes(r, prints + 1)

OverlayClear(r) ==
  /\ back[r] # NoText
  /\ Writes(r, NoText)
  /\ UNCHANGED prints

OverlayConfigure(r) ==
  /\ r \notin active
  /\ active' = active \cup {r}
  /\ current' = [current EXCEPT ![r] = @ \cup {back[r]}]
  /\ UNCHANGED <<running, process, pipe_ok, reader, slots, worker, hand, region,
                 back, front, dirty, prints, outputs, clients>>
-----------------------------------------------------------------------------
(* HTTP clients of /stream, each on a detached thread of its own: while    *)
(* the server runs it waits for a frame and sends it.                      *)

ClientGoes(c, from, to) ==
  client[c] = from /\ client' = [client EXCEPT ![c] = to]

ClientConnects(c) ==
  /\ ClientGoes(c, "off", "looping")
  /\ UNCHANGED <<running, process, pipe_ok, reader, slots, working, texts,
                 outputs, client_jpeg>>

ClientLoops(c) ==
  /\ ClientGoes(c, "looping", IF running THEN "waiting" ELSE "closed")
  /\ UNCHANGED <<running, process, pipe_ok, reader, slots, working, texts,
                 outputs, client_jpeg>>

(* LatestJpeg::wait returns with the latest frame, if there has ever been  *)
(* one, and otherwise after 5 s with none.                                 *)
ClientGets(c) ==
  /\ latest # NoJpeg
  /\ ClientGoes(c, "waiting", "sending")
  /\ client_jpeg' = [client_jpeg EXCEPT ![c] = latest]
  /\ UNCHANGED <<running, process, pipe_ok, reader, slots, working, texts,
                 outputs>>

ClientWaitsInVain(c) ==
  /\ latest = NoJpeg
  /\ ClientGoes(c, "waiting", "looping")
  /\ UNCHANGED <<running, process, pipe_ok, reader, slots, working, texts,
                 outputs, client_jpeg>>

ClientSends(c) ==
  /\ ClientGoes(c, "sending", "looping")
  /\ UNCHANGED <<running, process, pipe_ok, reader, slots, working, texts,
                 outputs, client_jpeg>>
-----------------------------------------------------------------------------
Reader == ReaderPuts \/ ReaderSeesEnd \/ ReaderCloses

Worker == \/ WorkerTakes \/ WorkerEnds \/ WorkerSnaps \/ WorkerDraws
          \/ WorkerShows \/ WorkerRecords \/ WorkerUpdates

Client(c) == \/ ClientLoops(c) \/ ClientGets(c) \/ ClientWaitsInVain(c)
             \/ ClientSends(c)

(* The server as this half sees it: it spawns, starts the threads, ends    *)
(* and joins a run, and then the next.                                     *)
Threadless == reader = "none" /\ worker = "none"

SetRunning ==
  /\ running' = ~running
  /\ UNCHANGED <<process, pipe_ok, reader, slots, working, texts, outputs,
                 clients>>

JpegPathNext ==
  \/ Threadless /\ ffmpeg = "none" /\ SpawnRun
  \/ Threadless /\ ffmpeg # "none" /\ StartThreads
  \/ reader # "none" /\ ffmpeg # "none" /\ Terminate
  \/ ffmpeg = "none" /\ JoinRun
  \/ SetRunning
  \/ FfmpegMakes \/ FfmpegDies
  \/ ReaderPuts \/ ReaderSeesEnd \/ ReaderCloses
  \/ WorkerTakes \/ WorkerEnds \/ WorkerSnaps \/ WorkerDraws
  \/ WorkerShows \/ WorkerRecords \/ WorkerUpdates
  \/ \E r \in Regions : OverlayPrint(r) \/ OverlayClear(r) \/ OverlayConfigure(r)
  \/ \E c \in Clients : ClientConnects(c) \/ ClientLoops(c) \/ ClientGets(c)
                        \/ ClientWaitsInVain(c) \/ ClientSends(c)

JpegPathSpec == JpegPathInit /\ [][JpegPathNext]_jpvars

-----------------------------------------------------------------------------
(* Properties. *)

Ids(s) == [i \in 1 .. Len(s) |-> s[i].id]

(* No viewer is shown a frame twice or after a newer one, whatever the     *)
(* reader overwrites and however often ffmpeg is started again: what is in *)
(* the pipe, the slot and the worker's hand stays behind what was shown.   *)
ShownInOrder == \A i \in 1 .. Len(shown) - 1 : shown[i].id < shown[i + 1].id

(* jpeg_cb, overlay_jpeg_cb and latest_jpeg receive the same frames of     *)
(* ffmpeg in the same order, each at most one frame behind the one before, *)
(* also when a run of ffmpeg ends while a frame is on its way; and no      *)
(* frame is left in the slot unseen by a worker that has ended.            *)
ConsumersAgree ==
  /\ IsPrefix(Ids(recorded), Ids(shown))
  /\ Len(shown) - Len(recorded) \in {0, 1}
  /\ latest # NoJpeg =>
       \E i \in {Len(recorded) - 1, Len(recorded)} \ {0} : latest = recorded[i]
  /\ worker = "ended" => slot = NoJpeg

(* A text that goes on a frame was the text of its region at some moment   *)
(* since the worker took the frame: a print or clear that returned before  *)
(* that is on the frame, and nothing older is.                             *)
OverlayIsCurrent ==
  worker = "drawing" =>
    \A r \in Regions : r < region => hand.drawn[r] \in current[r]
=============================================================================
