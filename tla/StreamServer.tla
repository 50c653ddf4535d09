---------------------------- MODULE StreamServer ----------------------------
(***************************************************************************)
(* The stream server of src/src/stream_server.cpp.  One API thread starts  *)
(* and stops it; the camera thread logs in to the DVR and runs its monitor *)
(* thread, which pushes raw frames on raw_queue; the pipeline thread feeds *)
(* them to ffmpeg; the HTTP thread accepts clients.  What becomes of the   *)
(* output of ffmpeg is JpegPath, whose actions are taken from there.       *)
(*                                                                         *)
(* Sleeps and timeouts are steps that time makes possible: a thread that   *)
(* sleeps or waits with a timeout always gets on in the end.  The users    *)
(* who print on the overlay are left to JpegPath: they read and write      *)
(* nothing of the threads below, and JpegPath interleaves them with every  *)
(* start and end of an ffmpeg that this module allows.  As in              *)
(* JpegPath, some operators have a faulty twin that only mutations use.    *)
(***************************************************************************)
EXTENDS JpegPath

CONSTANTS
  QueueFrames,   \* FrameQueue::kMaxSize
  HwAvailable,   \* decode_accel is Auto and the probe found an accelerator
  NoRaw,         \* the pipeline holds no raw frame
  MaxRaw,        \* bound: frames from the DVR per start so far
  MaxStarts      \* bound: calls of start

ASSUME QueueAssumption    == QueueFrames \in Nat \ {0}
ASSUME HwAssumption       == HwAvailable \in BOOLEAN
ASSUME RawBoundAssumption == MaxRaw \in Nat /\ MaxStarts \in Nat

(* A raw frame is its position in the order of arrival and its mark: what  *)
(* FrameMeta.frame says of a video frame, or audio and info.  The mark is  *)
(* the type of the packet that the DVR has sent; whether a frame marked    *)
(* "I" is a key frame is up to the DVR.                                    *)
RawFrame == [id : 1 .. MaxRaw * MaxStarts, mark : {"I", "P", "audio"}]

ASSUME NoRawAssumption == NoRaw \notin RawFrame

VARIABLES
  api, starts,             \* the API thread and the number of starts
  camera, monitor,         \* the camera thread and the DVR monitor thread
  raw_queue, closed,       \* FrameQueue
  arrived,                 \* number of frames from the DVR
  pipeline, raw,           \* the pipeline thread and the frame it holds
  hw, hw_fallback,         \* its locals: this run is on hardware, fallen back
  frames_at_start,         \* frame count of latest_jpeg when the run began
  made_at_start,           \* history: JPEGs made by all ffmpegs before this one
  input,                   \* history: what has been written to this ffmpeg
  http                     \* the HTTP thread

cam   == <<camera, monitor>>
queue == <<raw_queue, closed>>
run   == <<hw, hw_fallback, frames_at_start, made_at_start, input>>
pipe  == <<pipeline, raw, run>>

ssvars == <<api, starts, cam, queue, arrived, pipe, http>>
vars   == <<jpvars, ssvars>>

StreamTypeOK ==
  /\ JpegPathTypeOK
  /\ api \in {"idle", "closing", "joinCamera", "joinPipeline", "joinHttp"}
  /\ starts \in 0 .. MaxStarts
  /\ camera \in {"none", "loop", "login", "open", "start", "watch", "stop",
                 "close"}
  /\ monitor \in {"off", "on", "ended"}
  /\ raw_queue \in Seq(RawFrame) /\ Len(raw_queue) <= QueueFrames
  /\ closed \in BOOLEAN
  /\ arrived \in 0 .. MaxRaw * MaxStarts
  /\ pipeline \in {"none", "await", "popFirst", "check", "spawn", "count",
                   "first", "threads", "feed", "pop", "write", "end", "join",
                   "decide"}
  /\ raw \in RawFrame \cup {NoRaw}
  /\ hw \in BOOLEAN /\ hw_fallback \in BOOLEAN
  /\ frames_at_start \in 0 .. MaxJpegs /\ made_at_start \in 0 .. MaxJpegs
  /\ input \in Seq(RawFrame)
  /\ http \in {"none", "bind", "loop", "accept"}

Init ==
  /\ JpegPathInit
  /\ api = "idle" /\ starts = 0
  /\ camera = "none" /\ monitor = "off"
  /\ raw_queue = <<>> /\ closed = FALSE /\ arrived = 0
  /\ pipeline = "none" /\ raw = NoRaw
  /\ hw = FALSE /\ hw_fallback = FALSE /\ frames_at_start = 0
  /\ made_at_start = 0 /\ input = <<>>
  /\ http = "none"
-----------------------------------------------------------------------------
(* The API thread.  A thread that has returned and been joined is "none".  *)

Start ==
  /\ api = "idle" /\ ~running /\ starts < MaxStarts
  /\ running' = TRUE
  /\ starts' = starts + 1
  /\ camera' = "loop" /\ pipeline' = "await" /\ http' = "bind"
  /\ hw' = FALSE /\ hw_fallback' = FALSE
  /\ UNCHANGED <<process, pipe_ok, reader, slots, working, texts, outputs,
                 clients, api, monitor, queue, arrived, raw, frames_at_start,
                 made_at_start, input>>

Stop ==
  /\ api = "idle" /\ running
  /\ running' = FALSE
  /\ api' = "closing"
  /\ UNCHANGED <<process, pipe_ok, reader, slots, working, texts, outputs,
                 clients, starts, cam, queue, arrived, pipe, http>>

StopCloses ==
  /\ api = "closing" /\ api' = "joinCamera"
  /\ closed' = TRUE
  /\ UNCHANGED <<jpvars, starts, cam, raw_queue, arrived, pipe, http>>

StopJoins ==
  /\ \/ api = "joinCamera" /\ camera = "none" /\ api' = "joinPipeline"
     \/ api = "joinPipeline" /\ pipeline = "none" /\ api' = "joinHttp"
     \/ api = "joinHttp" /\ http = "none" /\ api' = "idle"
  /\ UNCHANGED <<jpvars, starts, cam, queue, arrived, pipe, http>>
-----------------------------------------------------------------------------
(* The camera thread, run_camera. *)

CameraGoes(from, to) == camera = from /\ camera' = to

CameraLoops ==
  /\ CameraGoes("loop", IF running THEN "login" ELSE "none")
  /\ UNCHANGED <<jpvars, api, starts, monitor, queue, arrived, pipe, http>>

(* A failed login is tried again 5 s later. *)
CameraLogsIn ==
  /\ \/ CameraGoes("login", "open")
     \/ CameraGoes("login", "loop")
  /\ UNCHANGED <<jpvars, api, starts, monitor, queue, arrived, pipe, http>>

(* The flag is set back without the queue's mutex, whatever stop() does.   *)
CameraOpens ==
  /\ CameraGoes("open", "start")
  /\ closed' = FALSE
  /\ UNCHANGED <<jpvars, api, starts, monitor, raw_queue, arrived, pipe, http>>

CameraStarts ==
  /\ CameraGoes("start", "watch")
  /\ monitor' = "on"
  /\ UNCHANGED <<jpvars, api, starts, queue, arrived, pipe, http>>

EndsWithMonitor == monitor = "ended"
EndsWhenStopped == ~running
WatchEnds       == ~running \/ monitor = "ended"

CameraWatches ==
  /\ WatchEnds
  /\ CameraGoes("watch", "stop")
  /\ UNCHANGED <<jpvars, api, starts, monitor, queue, arrived, pipe, http>>

(* stop_monitor joins the monitor thread. *)
LeavesMonitor == monitor
JoinedMonitor == "off"

CameraStops ==
  /\ CameraGoes("stop", "close")
  /\ monitor' = JoinedMonitor
  /\ UNCHANGED <<jpvars, api, starts, queue, arrived, pipe, http>>

CameraCloses ==
  /\ CameraGoes("close", "loop")
  /\ closed' = TRUE
  /\ UNCHANGED <<jpvars, api, starts, monitor, raw_queue, arrived, pipe, http>>

(* The monitor thread of DVRIPCam: it delivers frames until the connection *)
(* fails or stop_monitor ends it.                                          *)
WithRoom  == IF Len(raw_queue) >= QueueFrames THEN Tail(raw_queue) ELSE raw_queue

MonitorDelivers ==
  /\ monitor = "on" /\ arrived < MaxRaw * starts
  /\ arrived' = arrived + 1
  /\ \E mark \in {"I", "P", "audio"} :
       raw_queue' = Append(WithRoom, [id |-> arrived + 1, mark |-> mark])
  /\ UNCHANGED <<jpvars, api, starts, cam, closed, pipe, http>>

MonitorEnds ==
  /\ monitor = "on" /\ monitor' = "ended"
  /\ UNCHANGED <<jpvars, api, starts, camera, queue, arrived, pipe, http>>
-----------------------------------------------------------------------------
(* The pipeline thread, run_pipeline. *)

PipelineGoes(from, to) == pipeline = from /\ pipeline' = to

(* The outer loop and the loop that waits for a frame marked "I" test the  *)
(* flag one after the other, with nothing in between.                      *)
PipelineAwaits ==
  /\ PipelineGoes("await", IF running THEN "popFirst" ELSE "none")
  /\ UNCHANGED <<jpvars, api, starts, cam, queue, arrived, raw, run, http>>

AnyFrameStarts(frame) == TRUE
StartsRun(frame) == frame.mark = "I"

PipelinePopsFirst ==
  /\ raw_queue # <<>>
  /\ PipelineGoes("popFirst", IF StartsRun(Head(raw_queue)) THEN "check" ELSE "await")
  /\ raw' = IF StartsRun(Head(raw_queue)) THEN Head(raw_queue) ELSE raw
  /\ raw_queue' = Tail(raw_queue)
  /\ UNCHANGED <<jpvars, api, starts, cam, closed, arrived, run, http>>

(* The pop returns with nothing: 20 s have passed or the queue is closed.  *)
PipelinePopsNothing ==
  /\ raw_queue = <<>>
  /\ PipelineGoes("popFirst", "await")
  /\ UNCHANGED <<jpvars, api, starts, cam, queue, arrived, raw, run, http>>

(* The server may have been stopped meanwhile. *)
PipelineChecks ==
  /\ PipelineGoes("check", IF running THEN "spawn" ELSE "none")
  /\ raw' = IF running THEN raw ELSE NoRaw
  /\ UNCHANGED <<jpvars, api, starts, cam, queue, arrived, run, http>>

PipelineSpawns ==
  /\ PipelineGoes("spawn", "count")
  /\ SpawnRun
  /\ hw' = (HwAvailable /\ ~hw_fallback)
  /\ made_at_start' = made
  /\ UNCHANGED <<api, starts, cam, queue, arrived, raw, hw_fallback,
                 frames_at_start, input, http>>

(* ffmpeg does not start, and 5 s of sleep. *)
PipelineSpawnFails ==
  /\ PipelineGoes("spawn", "await")
  /\ raw' = NoRaw
  /\ UNCHANGED <<jpvars, api, starts, cam, queue, arrived, run, http>>

(* frames in latest_jpeg over its lifetime *)
FrameCount == IF worker = "updating" THEN Len(recorded) - 1 ELSE Len(recorded)

PipelineCounts ==
  /\ PipelineGoes("count", "first")
  /\ frames_at_start' = FrameCount
  /\ UNCHANGED <<jpvars, api, starts, cam, queue, arrived, raw, hw, hw_fallback,
                 made_at_start, input, http>>

(* Nobody asks whether ffmpeg takes the first frame. *)
PipelineWritesFirst ==
  /\ PipelineGoes("first", "threads")
  /\ input' = <<raw>>
  /\ raw' = NoRaw
  /\ UNCHANGED <<jpvars, api, starts, cam, queue, arrived, hw, hw_fallback,
                 frames_at_start, made_at_start, http>>

PipelineStartsThreads ==
  /\ PipelineGoes("threads", "feed")
  /\ StartThreads
  /\ UNCHANGED <<api, starts, cam, queue, arrived, raw, run, http>>

FeedsWhileRunning == running
FeedGoesOn        == running /\ pipe_ok

PipelineFeeds ==
  /\ PipelineGoes("feed", IF FeedGoesOn THEN "pop" ELSE "end")
  /\ UNCHANGED <<jpvars, api, starts, cam, queue, arrived, raw, run, http>>

PipelinePops ==
  /\ \/ /\ raw_queue = <<>>                 \* 10 s have passed, or closed
        /\ PipelineGoes("pop", "feed")
        /\ UNCHANGED <<raw_queue, raw>>
     \/ /\ raw_queue # <<>> /\ Head(raw_queue).mark = "audio"
        /\ PipelineGoes("pop", "feed")
        /\ raw_queue' = Tail(raw_queue) /\ UNCHANGED raw
     \/ /\ raw_queue # <<>> /\ Head(raw_queue).mark # "audio"
        /\ PipelineGoes("pop", "write")
        /\ raw' = Head(raw_queue) /\ raw_queue' = Tail(raw_queue)
  /\ UNCHANGED <<jpvars, api, starts, cam, closed, arrived, run, http>>

(* The write fails when ffmpeg is gone or takes only a part of the frame.  *)
PipelineWrites ==
  /\ \/ /\ ffmpeg = "running"
        /\ PipelineGoes("write", "feed")
        /\ input' = Append(input, raw)
     \/ /\ PipelineGoes("write", "end")
        /\ UNCHANGED input
  /\ raw' = NoRaw
  /\ UNCHANGED <<jpvars, api, starts, cam, queue, arrived, hw, hw_fallback,
                 frames_at_start, made_at_start, http>>

PipelineEndsRun ==
  /\ PipelineGoes("end", "join")
  /\ Terminate
  /\ UNCHANGED <<api, starts, cam, queue, arrived, raw, run, http>>

JoinsReaderOnly ==
  /\ PipelineGoes("join", "decide")
  /\ reader = "ended" /\ reader' = "none"
  /\ UNCHANGED <<running, process, pipe_ok, slots, worker, hand, region, current, texts,
                 outputs, clients, api, starts, cam, queue, arrived, raw, run,
                 http>>

PipelineJoins ==
  /\ PipelineGoes("join", "decide")
  /\ JoinRun
  /\ UNCHANGED <<api, starts, cam, queue, arrived, raw, run, http>>

FruitfulRun == FrameCount > frames_at_start
Fruitless   == FrameCount = frames_at_start

(* The fallback to software, and 3 s of sleep. *)
PipelineDecides ==
  /\ PipelineGoes("decide", "await")
  /\ hw_fallback' = (hw_fallback \/ (hw /\ Fruitless))
  /\ UNCHANGED <<jpvars, api, starts, cam, queue, arrived, raw, hw,
                 frames_at_start, made_at_start, input, http>>
-----------------------------------------------------------------------------
(* The HTTP thread, run_http. *)

(* When the port is in use the thread returns. *)
HttpGoes(from, to) == http = from /\ http' = to

HttpBinds ==
  /\ \/ HttpGoes("bind", "loop")
     \/ HttpGoes("bind", "none")
  /\ UNCHANGED <<jpvars, api, starts, cam, queue, arrived, pipe>>

HttpLoops ==
  /\ HttpGoes("loop", IF running THEN "accept" ELSE "none")
  /\ UNCHANGED <<jpvars, api, starts, cam, queue, arrived, pipe>>

(* 500 ms pass, or stop() has closed the socket. *)
HttpAcceptsNone ==
  /\ HttpGoes("accept", "loop")
  /\ UNCHANGED <<jpvars, api, starts, cam, queue, arrived, pipe>>

(* A client of /stream, or one that is given a page or a snapshot and gone. *)
HttpAccepts ==
  /\ HttpGoes("accept", "loop")
  /\ UNCHANGED jpvars \/ \E c \in Clients : ClientConnects(c)
  /\ UNCHANGED <<api, starts, cam, queue, arrived, pipe>>
-----------------------------------------------------------------------------
Camera == \/ CameraLoops \/ CameraLogsIn \/ CameraOpens \/ CameraStarts
          \/ CameraWatches \/ CameraStops \/ CameraCloses

Pipeline == \/ PipelineAwaits \/ PipelinePopsFirst
            \/ PipelinePopsNothing \/ PipelineChecks \/ PipelineSpawns
            \/ PipelineSpawnFails \/ PipelineCounts \/ PipelineWritesFirst
            \/ PipelineStartsThreads \/ PipelineFeeds \/ PipelinePops
            \/ PipelineWrites \/ PipelineEndsRun \/ PipelineJoins
            \/ PipelineDecides

Http == HttpBinds \/ HttpLoops \/ HttpAcceptsNone

Next == \/ Start \/ Stop \/ StopCloses \/ StopJoins
        \/ CameraLoops \/ CameraLogsIn \/ CameraOpens \/ CameraStarts
        \/ CameraWatches \/ CameraStops \/ CameraCloses
        \/ MonitorDelivers \/ MonitorEnds
        \/ PipelineAwaits \/ PipelinePopsFirst
        \/ PipelinePopsNothing \/ PipelineChecks \/ PipelineSpawns
        \/ PipelineSpawnFails \/ PipelineCounts \/ PipelineWritesFirst
        \/ PipelineStartsThreads \/ PipelineFeeds \/ PipelinePops
        \/ PipelineWrites \/ PipelineEndsRun \/ PipelineJoins
        \/ PipelineDecides
        \/ HttpBinds \/ HttpLoops \/ HttpAcceptsNone \/ HttpAccepts
        \/ (FfmpegMakes /\ UNCHANGED ssvars)
        \/ (FfmpegDies /\ UNCHANGED ssvars)
        \/ (ReaderPuts /\ UNCHANGED ssvars)
        \/ (ReaderSeesEnd /\ UNCHANGED ssvars)
        \/ (ReaderCloses /\ UNCHANGED ssvars)
        \/ (WorkerTakes /\ UNCHANGED ssvars)
        \/ (WorkerEnds /\ UNCHANGED ssvars)
        \/ (WorkerSnaps /\ UNCHANGED ssvars)
        \/ (WorkerDraws /\ UNCHANGED ssvars)
        \/ (WorkerShows /\ UNCHANGED ssvars)
        \/ (WorkerRecords /\ UNCHANGED ssvars)
        \/ (WorkerUpdates /\ UNCHANGED ssvars)
        \/ \E c \in Clients : Client(c) /\ UNCHANGED ssvars

Spec == Init /\ [][Next]_vars

(* The scheduler runs every thread of the server, and sleeps, timeouts,    *)
(* connecting, logging in and the user's callbacks come to an end.  A      *)
(* write to ffmpeg ends because ffmpeg reads its input or dies.  Nothing   *)
(* else is asked of ffmpeg, and nothing of the DVR, of users and clients,  *)
(* or of the API thread between calls.  A thread is named by what each of  *)
(* its steps changes.                                                      *)
FairSpec == /\ Spec
            /\ WF_api(StopCloses \/ StopJoins)
            /\ WF_camera(Camera) /\ WF_pipeline(Pipeline) /\ WF_http(Http)
            /\ WF_<<reader, stdout>>(Reader /\ UNCHANGED ssvars)
            /\ WF_<<worker, region>>(Worker /\ UNCHANGED ssvars)
-----------------------------------------------------------------------------
(* Properties. *)

(* docs/USAGE.md: stream_stop() is synchronous, and when it returns all    *)
(* callbacks have finished and no more will fire.  No thread that calls    *)
(* one is left: not the monitor thread, which the camera thread joins, not *)
(* the reader and worker, which the pipeline thread joins.                 *)
StopIsSynchronous ==
  api = "idle" /\ ~running =>
    /\ camera = "none" /\ pipeline = "none" /\ http = "none"
    /\ monitor = "off" /\ reader = "none" /\ worker = "none"
    /\ ffmpeg = "none"

(* stop() returns, though the camera thread may open raw_queue again after *)
(* stop() has closed it.                                                   *)
StopReturns == api # "idle" ~> api = "idle"

(* Every ffmpeg is given video frames only, in the order of arrival, from  *)
(* a frame marked "I" on, whatever the queue has dropped and whichever     *)
(* sessions with the DVR the frames come from.                             *)
FfmpegInput ==
  input # <<>> =>
    /\ input[1].mark = "I"
    /\ \A i \in 1 .. Len(input) : input[i].mark # "audio"
    /\ \A i \in 1 .. Len(input) - 1 : input[i].id < input[i + 1].id

(* An ffmpeg that has died is noticed and cleared away even when no frame  *)
(* arrives any more: the reader tells the pipeline.                        *)
DeadFfmpegIsCleared == ffmpeg = "dead" ~> ffmpeg # "dead"

(* A connection that has failed is followed by another login, unless the   *)
(* server is stopped.                                                      *)
CameraReconnects == monitor = "ended" ~> (camera = "login" \/ ~running)

(* The runs of ffmpeg stay apart, though the threads of one use its slot   *)
(* and flags by reference: once the next ffmpeg has been spawned, no frame *)
(* of an earlier one is in the slot, in the worker's hand or in a pipe.    *)
RunsStayApart ==
  \A jpg \in ({slot, hand} \cup Range(stdout)) \ {NoJpeg} : made_at_start < jpg.id

(* DecodeAccel::Auto: after a run on hardware that made no frame to the    *)
(* end of the worker, the next run of the same start is in software.       *)
FruitlessRunFallsBack ==
  [][PipelineSpawns /\ hw /\ FrameCount = frames_at_start => ~hw']_vars
=============================================================================
