---------------------------- MODULE VideoRecorder ----------------------------
(***************************************************************************)
(* The recorder of src/src/video_recorder.cpp: one API thread that starts, *)
(* saves and discards recordings, any number of threads that feed frames   *)
(* and pause or resume, and the writer thread that start_recording spawns  *)
(* and that moves frames from the queue into the stdin pipe of ffmpeg.     *)
(*                                                                         *)
(* Each critical section under mtx is one action, so the mutex itself and  *)
(* the condition variable are not variables: a thread waiting on cv is a   *)
(* thread whose action is not enabled.  docs/USAGE.md gives the contract   *)
(* on threads: feeding, pausing and resuming from any thread, every other  *)
(* call from one thread, which is the API thread here.                     *)
(*                                                                         *)
(* A few one-line operators have a faulty twin right before them (Always-  *)
(* Room before Room, and so on).  No action uses the twins: they are the   *)
(* faults that the README's table of mutations puts in.                    *)
(***************************************************************************)
EXTENDS Integers, Sequences

CONSTANTS
  Files,          \* output file names that start_recording may be given
  BufferFrames,   \* RECORDER_BUFFER_FRAMES, the capacity of the queue
  NoName,         \* the empty name, before the first start_recording
  NoFrame,        \* the writer holds no frame
  MaxFrames,      \* bound: frames fed over a behaviour
  MaxSessions     \* bound: successful calls of start_recording

ASSUME FilesAssumption  == Files # {}
ASSUME BufferAssumption == BufferFrames \in Nat \ {0}
ASSUME BoundsAssumption == MaxFrames \in Nat /\ MaxSessions \in Nat

RecorderState   == {"Idle", "Recording", "Paused"}
RecordingFormat == {"MP4", "MJPEG"}

(* A frame is its position in the order of feeding and whether             *)
(* rec_detect_codec finds an SPS, PPS or IDR unit in it.                   *)
QFrame == [id : Nat, key : BOOLEAN]

FileName == Files \cup {NoName}

ASSUME NoFrameAssumption == NoFrame \notin QFrame

VARIABLES
  rec_state, rec_fmt, out_fname,   \* the session, guarded by mtx
  q_stop, q_abort,                 \* stop requests to the writer, guarded by mtx
  queue,                           \* frames waiting for the writer
  count_written, count_dropped,    \* the atomic counters
  initialized,                     \* set by init, cleared by deinit
  writer_thr,                      \* the std::thread handle: "none" or "joinable"
  wpc,                             \* where the writer thread is
  fmt, fname,                      \* its copies of rec_fmt and out_fname
  ffp_started, aborted,            \* its locals
  frame,                           \* the frame it has popped, or NoFrame
  encoder,                         \* the ffmpeg process
  files,                           \* what is on disk under each name
  api_op, api_pc, api_fname,       \* the API thread: call, place in it, local
  process,                         \* "up", "destroyed" (object gone), "terminated"
  fed, sessions,                   \* counters bounded by MaxFrames, MaxSessions
  accepted, skipped, out           \* history of the session, see below

session == <<rec_state, rec_fmt, out_fname>>
request == <<q_stop, q_abort>>
counts  == <<count_written, count_dropped>>
writer  == <<fmt, fname, ffp_started, aborted, frame>>
api     == <<api_op, api_pc, api_fname>>
history == <<accepted, skipped, out>>

vars == <<session, request, queue, counts, initialized, writer_thr, wpc,
          writer, encoder, files, api, process, fed, sessions, history>>

(* History of the session: the frames push_frame put on the queue, how     *)
(* many it dropped because the recorder was paused, the frames that went   *)
(* into the pipe of ffmpeg.                                                *)

FileStatus    == {"absent", "partial", "complete"}
EncoderStatus == {"none", "running", "stalled", "dead"}
WriterPlaces  == {"none", "begin", "wait", "examine", "write", "finish",
                  "idle", "exited"}
ApiOps        == {"none", "save", "discard", "deinit", "destroy"}
ApiPlaces     == {"ready", "stopping", "joining", "clearing", "resetting",
                  "removing", "detaching", "freeing"}

FlagsTypeOK ==
  {q_stop, q_abort, initialized, ffp_started, aborted} \subseteq BOOLEAN

SessionTypeOK ==
  /\ rec_state \in RecorderState
  /\ rec_fmt \in RecordingFormat
  /\ {out_fname, fname, api_fname} \subseteq FileName
  /\ {count_written, count_dropped, fed, sessions, skipped} \subseteq Nat

FramesTypeOK ==
  /\ queue \in Seq(QFrame)
  /\ Len(queue) <= BufferFrames
  /\ accepted \in Seq(QFrame)
  /\ out \in Seq(QFrame)
  /\ frame \in QFrame \cup {NoFrame}

ThreadsTypeOK ==
  /\ writer_thr \in {"none", "joinable"}
  /\ wpc \in WriterPlaces
  /\ fmt \in RecordingFormat
  /\ encoder \in EncoderStatus
  /\ files \in [Files -> FileStatus]
  /\ api_op \in ApiOps
  /\ api_pc \in ApiPlaces
  /\ process \in {"up", "destroyed", "terminated"}

(* Every variable has its type, and the queue never holds more than        *)
(* RECORDER_BUFFER_FRAMES frames.                                          *)
TypeOK == FlagsTypeOK /\ SessionTypeOK /\ FramesTypeOK /\ ThreadsTypeOK

Init ==
  /\ rec_state = "Idle" /\ rec_fmt = "MP4" /\ out_fname = NoName
  /\ q_stop = FALSE /\ q_abort = FALSE
  /\ queue = <<>>
  /\ count_written = 0 /\ count_dropped = 0
  /\ initialized = FALSE
  /\ writer_thr = "none" /\ wpc = "none"
  /\ fmt = "MP4" /\ fname = NoName
  /\ ffp_started = FALSE /\ aborted = FALSE /\ frame = NoFrame
  /\ encoder = "none" /\ files = [f \in Files |-> "absent"]
  /\ api_op = "none" /\ api_pc = "ready" /\ api_fname = NoName
  /\ process = "up"
  /\ fed = 0 /\ sessions = 0
  /\ accepted = <<>> /\ skipped = 0 /\ out = <<>>
-----------------------------------------------------------------------------
(* Feeding threads: feed_raw, feed_jpeg_internal and push_frame.  A frame  *)
(* that meets an early return changes nothing and is not a step.           *)

(* Room for one more: a full queue gives up its oldest frame, which counts *)
(* as dropped.                                                             *)
Room(q) == IF Len(q) >= BufferFrames THEN Tail(q) ELSE q

Uncounted(q) == 0
Overflow(q) == IF Len(q) >= BufferFrames THEN 1 ELSE 0

AcceptsUntilIdle == rec_state = "Recording"
Accepts == rec_state = "Recording" /\ ~q_stop /\ ~q_abort

PushFrame(key) ==
  LET f == [id |-> fed + 1, key |-> key] IN
  /\ process = "up" /\ fed < MaxFrames
  /\ fed' = fed + 1
  /\ \/ /\ rec_state = "Paused"
        /\ count_dropped' = count_dropped + 1
        /\ skipped' = skipped + 1
        /\ UNCHANGED <<queue, accepted>>
     \/ /\ Accepts
        /\ queue' = Append(Room(queue), f)
        /\ count_dropped' = count_dropped + Overflow(queue)
        /\ accepted' = Append(accepted, f)
        /\ UNCHANGED skipped
  /\ UNCHANGED <<session, request, count_written, initialized, writer_thr,
                 wpc, writer, encoder, files, api, process, sessions, out>>

FeedRaw  == rec_fmt = "MP4" /\ \E key \in BOOLEAN : PushFrame(key)

FeedJpeg == rec_fmt = "MJPEG" /\ PushFrame(TRUE)

PauseRecording ==
  /\ process = "up" /\ rec_state = "Recording"
  /\ rec_state' = "Paused"
  /\ UNCHANGED <<rec_fmt, out_fname, request, queue, counts, initialized,
                 writer_thr, wpc, writer, encoder, files, api, process, fed,
                 sessions, history>>

ResumeRecording ==
  /\ process = "up" /\ rec_state = "Paused"
  /\ rec_state' = "Recording"
  /\ UNCHANGED <<rec_fmt, out_fname, request, queue, counts, initialized,
                 writer_thr, wpc, writer, encoder, files, api, process, fed,
                 sessions, history>>
-----------------------------------------------------------------------------
(* The writer thread, run_writer. *)

WriterGoes(from, to) == process = "up" /\ wpc = from /\ wpc' = to

WriterBegin ==
  /\ WriterGoes("begin", "wait")
  /\ fmt' = rec_fmt /\ fname' = out_fname
  /\ UNCHANGED <<session, request, queue, counts, initialized, writer_thr,
                 ffp_started, aborted, frame, encoder, files, api, process,
                 fed, sessions, history>>

(* The wait on cv ends with an abort, with a frame, or with a stop request *)
(* and nothing left to write.                                              *)
LeavesFrames == q_stop
WaitsWhilePaused == q_stop /\ queue = <<>> /\ rec_state # "Paused"
Drained == q_stop /\ queue = <<>>

WriterTake ==
  /\ \/ /\ q_abort
        /\ WriterGoes("wait", "finish")
        /\ aborted' = TRUE
        /\ UNCHANGED <<queue, frame>>
     \/ /\ ~q_abort /\ queue # <<>>
        /\ WriterGoes("wait", IF ffp_started THEN "write" ELSE "examine")
        /\ frame' = Head(queue) /\ queue' = Tail(queue)
        /\ UNCHANGED aborted
     \/ /\ ~q_abort /\ Drained
        /\ WriterGoes("wait", "finish")
        /\ UNCHANGED <<queue, frame, aborted>>
  /\ UNCHANGED <<session, request, counts, initialized, writer_thr, fmt, fname,
                 ffp_started, encoder, files, api, process, fed, sessions,
                 history>>

(* Before ffmpeg runs: an MP4 recording waits for a frame that             *)
(* rec_detect_codec recognises, an MJPEG recording starts on any.          *)
StartsOnAny == TRUE
StartsEncoder == fmt = "MP4" => frame.key

WriterSkipsFrame ==
  /\ WriterGoes("examine", "wait")
  /\ ~StartsEncoder
  /\ count_dropped' = count_dropped + 1
  /\ frame' = NoFrame
  /\ UNCHANGED <<session, request, queue, count_written, initialized,
                 writer_thr, fmt, fname, ffp_started, aborted, encoder, files,
                 api, process, fed, sessions, history>>

WriterStartsEncoder ==
  /\ wpc = "examine"
  /\ StartsEncoder
  /\ \/ /\ WriterGoes("examine", "write")
        /\ ffp_started' = TRUE
        /\ encoder' = "running"
        /\ files' = [files EXCEPT ![fname] = "partial"]
        /\ UNCHANGED <<aborted, frame>>
     \/ /\ WriterGoes("examine", "finish")      \* the spawn fails
        /\ aborted' = TRUE /\ frame' = NoFrame
        /\ UNCHANGED <<ffp_started, encoder, files>>
  /\ UNCHANGED <<session, request, queue, counts, initialized, writer_thr, fmt,
                 fname, api, process, fed, sessions, history>>

(* write_data succeeds, or fails because ffmpeg is gone or the write was   *)
(* cut short; on the pipe of a stalled ffmpeg it blocks.                   *)
WriterWrite ==
  /\ \/ /\ encoder = "running"
        /\ WriterGoes("write", "wait")
        /\ out' = Append(out, frame)
        /\ count_written' = count_written + 1
        /\ UNCHANGED aborted
     \/ /\ encoder \in {"running", "dead"}
        /\ WriterGoes("write", "finish")
        /\ aborted' = TRUE
        /\ UNCHANGED <<out, count_written>>
  /\ frame' = NoFrame
  /\ UNCHANGED <<session, request, queue, count_dropped, initialized,
                 writer_thr, fmt, fname, ffp_started, encoder, files, api,
                 process, fed, sessions, accepted, skipped>>

(* Finalise or abort.  After close_stdin a running ffmpeg finishes the     *)
(* container or is killed when 10 s have passed; one that had already      *)
(* exited makes wait_for_exit succeed all the same.                        *)
LivesPastAbort == IF aborted THEN encoder ELSE "none"
EncoderAfter == "none"

WriterFinish ==
  /\ WriterGoes("finish", "idle")
  /\ \/ ~ffp_started /\ UNCHANGED <<encoder, files>>
     \/ ffp_started /\ encoder' = EncoderAfter /\ UNCHANGED files
     \/ /\ ffp_started /\ ~aborted /\ encoder = "running"
        /\ encoder' = EncoderAfter
        /\ files' = [files EXCEPT ![fname] = "complete"]
  /\ UNCHANGED <<session, request, queue, counts, initialized, writer_thr,
                 writer, api, process, fed, sessions, history>>

WriterIdle ==
  /\ WriterGoes("idle", "exited")
  /\ rec_state' = "Idle"
  /\ UNCHANGED <<rec_fmt, out_fname, request, queue, counts, initialized,
                 writer_thr, writer, encoder, files, api, process, fed,
                 sessions, history>>

(* What ffmpeg does by itself: it exits, or it stops reading its stdin.    *)
EncoderDies ==
  /\ process = "up" /\ encoder \in {"running", "stalled"}
  /\ encoder' = "dead"
  /\ UNCHANGED <<session, request, queue, counts, initialized, writer_thr, wpc,
                 writer, files, api, process, fed, sessions, history>>

EncoderStops ==
  /\ process = "up" /\ encoder = "running"
  /\ encoder' = "stalled"
  /\ UNCHANGED <<session, request, queue, counts, initialized, writer_thr, wpc,
                 writer, files, api, process, fed, sessions, history>>
-----------------------------------------------------------------------------
(* The API thread.  A call is a sequence of actions that starts and ends   *)
(* with api_pc = "ready"; a call that returns at its first test changes    *)
(* nothing and is not a step.                                              *)

ApiGoes(from, to) == process = "up" /\ api_pc = from /\ api_pc' = to

Calls(op, to) == ApiGoes("ready", to) /\ api_op' = op

Returns(from) == ApiGoes(from, "ready") /\ api_op' = "none"

InitRecorder ==
  /\ process = "up" /\ api_pc = "ready" /\ ~initialized
  /\ initialized' = TRUE
  /\ UNCHANGED <<session, request, queue, counts, writer_thr, wpc, writer,
                 encoder, files, api, process, fed, sessions, history>>

MayStart == process = "up" /\ api_pc = "ready" /\ initialized /\ rec_state = "Idle"

StartRecording ==
  /\ MayStart /\ writer_thr = "none" /\ sessions < MaxSessions
  /\ out_fname' \in Files /\ rec_fmt' \in RecordingFormat
  /\ rec_state' = "Recording"
  /\ q_stop' = FALSE /\ q_abort' = FALSE
  /\ queue' = <<>>
  /\ count_written' = 0 /\ count_dropped' = 0
  /\ writer_thr' = "joinable" /\ wpc' = "begin"
  /\ ffp_started' = FALSE /\ aborted' = FALSE /\ frame' = NoFrame
  /\ sessions' = sessions + 1
  /\ accepted' = <<>> /\ skipped' = 0 /\ out' = <<>>
  /\ UNCHANGED <<initialized, fmt, fname, encoder, files, api, process, fed>>

(* Move assignment onto a std::thread that is still joinable calls         *)
(* std::terminate: the writer of the last session ended by itself, so no   *)
(* do_stop has joined it.                                                  *)
StartTerminates ==
  /\ MayStart /\ writer_thr = "joinable"
  /\ process' = "terminated"
  /\ UNCHANGED <<session, request, queue, counts, initialized, writer_thr, wpc,
                 writer, encoder, files, api, fed, sessions, history>>

(* save_recording: do_stop(false) up to the join. *)
SaveRecording ==
  /\ Calls("save", "joining")
  /\ rec_state # "Idle"
  /\ q_stop' = TRUE
  /\ UNCHANGED <<session, q_abort, queue, counts, initialized, writer_thr, wpc,
                 writer, encoder, files, api_fname, process, fed, sessions,
                 history>>

(* discard_recording up to the call of do_stop, on its own or from deinit  *)
(* or the destructor, which go on past an idle recorder.                   *)
DiscardRecording ==
  /\ \E op \in {"discard", "deinit", "destroy"} :
       /\ op # "discard" => initialized
       /\ \/ /\ rec_state # "Idle"
             /\ Calls(op, "stopping")
             /\ api_fname' = out_fname
          \/ /\ rec_state = "Idle" /\ op # "discard"
             /\ Calls(op, "detaching")
             /\ UNCHANGED api_fname
  /\ UNCHANGED <<session, request, queue, counts, initialized, writer_thr, wpc,
                 writer, encoder, files, process, fed, sessions, history>>

(* do_stop(true): the writer may have ended by itself since the last step, *)
(* and then there is no join.                                              *)
StopForDiscard ==
  /\ \/ /\ rec_state = "Idle"
        /\ ApiGoes("stopping", "removing")
        /\ UNCHANGED q_abort
     \/ /\ rec_state # "Idle"
        /\ ApiGoes("stopping", "joining")
        /\ q_abort' = TRUE
  /\ UNCHANGED <<session, q_stop, queue, counts, initialized, writer_thr, wpc,
                 writer, encoder, files, api_op, api_fname, process, fed,
                 sessions, history>>

JoinWriter ==
  /\ ApiGoes("joining", "clearing")
  /\ writer_thr = "joinable" => wpc = "exited"
  /\ writer_thr' = "none"
  /\ UNCHANGED <<session, request, queue, counts, initialized, wpc, writer,
                 encoder, files, api_op, api_fname, process, fed, sessions,
                 history>>

ForgetsAbort == q_stop' = FALSE /\ q_abort' = q_abort
ClearRequests == q_stop' = FALSE /\ q_abort' = FALSE

ClearAfterJoin ==
  /\ ApiGoes("clearing", "resetting")
  /\ queue' = <<>> /\ ClearRequests
  /\ UNCHANGED <<session, counts, initialized, writer_thr, wpc, writer,
                 encoder, files, api_op, api_fname, process, fed, sessions,
                 history>>

ResetCounters ==
  /\ \/ api_op = "save" /\ Returns("resetting")
     \/ api_op # "save" /\ ApiGoes("resetting", "removing") /\ UNCHANGED api_op
  /\ count_written' = 0 /\ count_dropped' = 0
  /\ UNCHANGED <<session, request, queue, initialized, writer_thr, wpc, writer,
                 encoder, files, api_fname, process, fed, sessions, history>>

RemoveFile ==
  /\ \/ api_op = "discard" /\ Returns("removing")
     \/ api_op # "discard" /\ ApiGoes("removing", "detaching") /\ UNCHANGED api_op
  /\ files' = [files EXCEPT ![api_fname] = "absent"]
  /\ UNCHANGED <<session, request, queue, counts, initialized, writer_thr, wpc,
                 writer, encoder, api_fname, process, fed, sessions, history>>

(* The end of deinit. *)
Detach ==
  /\ \/ api_op = "deinit" /\ Returns("detaching")
     \/ api_op # "deinit" /\ ApiGoes("detaching", "freeing") /\ UNCHANGED api_op
  /\ initialized' = FALSE
  /\ UNCHANGED <<session, request, queue, counts, writer_thr, wpc, writer,
                 encoder, files, api_fname, process, fed, sessions, history>>

(* The destructor of a recorder that was never initialised, or not since   *)
(* deinit, goes straight to its members; that of a std::thread that is     *)
(* still joinable calls std::terminate.                                    *)
Free ==
  /\ \/ api_pc = "freeing"
     \/ (api_pc = "ready" /\ ~initialized)
  /\ process = "up"
  /\ process' = IF writer_thr = "joinable" THEN "terminated" ELSE "destroyed"
  /\ UNCHANGED <<session, request, queue, counts, initialized, writer_thr, wpc,
                 writer, encoder, files, api, fed, sessions, history>>

Over == process # "up" /\ UNCHANGED vars
-----------------------------------------------------------------------------
Writer == \/ WriterBegin \/ WriterTake \/ WriterSkipsFrame
          \/ WriterStartsEncoder \/ WriterWrite \/ WriterFinish \/ WriterIdle

ApiCall == \/ StopForDiscard \/ JoinWriter \/ ClearAfterJoin \/ ResetCounters
           \/ RemoveFile \/ Detach \/ (api_pc = "freeing" /\ Free)

Next == \/ FeedRaw \/ FeedJpeg \/ PauseRecording \/ ResumeRecording
        \/ WriterBegin \/ WriterTake \/ WriterSkipsFrame \/ WriterStartsEncoder
        \/ WriterWrite \/ WriterFinish \/ WriterIdle
        \/ EncoderDies \/ EncoderStops
        \/ InitRecorder \/ StartRecording \/ StartTerminates \/ SaveRecording
        \/ DiscardRecording \/ StopForDiscard \/ JoinWriter \/ ClearAfterJoin
        \/ ResetCounters \/ RemoveFile \/ Detach \/ Free \/ Over

Spec == Init /\ [][Next]_vars

(* The scheduler runs the two threads; feeding threads, pause and resume   *)
(* and new calls of the API owe nothing.                                   *)
FairSpec == Spec /\ WF_vars(Writer) /\ WF_vars(ApiCall)
-----------------------------------------------------------------------------
(* Properties.  TypeOK, above, also bounds the queue. *)

InHand == IF frame = NoFrame THEN <<>> ELSE <<frame>>

(* Every frame fed into a live session is in one place: on the queue, in   *)
(* the writer's hand, counted as written or counted as dropped.  The two   *)
(* counters are updated by different threads, some outside mtx             *)
(* (push_frame, run_writer, do_stop); an aborted session has lost frames.  *)
FrameAccounting ==
  rec_state # "Idle" /\ ~aborted =>
    count_written + count_dropped + Len(queue) + Len(InHand)
      = Len(accepted) + skipped

Ascending(s) == \A i, j \in 1 .. Len(s) : i < j => s[i].id < s[j].id

(* What ffmpeg is given, followed by what it will be given, is in the      *)
(* order of feeding, without repetition, and made of frames this session   *)
(* accepted: none from before start_recording, none fed while paused.  An  *)
(* MP4 recording begins with a frame that carries an SPS, PPS or IDR unit. *)
OutputIsSelection ==
  rec_state # "Idle" =>
    /\ Ascending(out \o InHand \o queue)
    /\ \A i \in 1 .. Len(out) : \E j \in 1 .. Len(accepted) : out[i] = accepted[j]
    /\ rec_fmt = "MP4" /\ out # <<>> => out[1].key

Finalised == wpc = "idle" /\ ffp_started /\ ~aborted

(* When save_recording has finalised a file, no frame is stranded on the   *)
(* queue: each one accepted was written or counted as dropped, and none    *)
(* gets in between the last write and the return to Idle.                  *)
SavedFileIsWhole ==
  Finalised =>
    /\ queue = <<>> /\ frame = NoFrame /\ Len(out) = count_written
    /\ count_written + count_dropped = Len(accepted) + skipped

(* A stop or abort request belongs to one call in progress that is going   *)
(* to wait for the writer: none is left behind to end the next session     *)
(* before its first frame, and the two kinds never meet.                   *)
StopRequestIsServed ==
  /\ q_stop \/ q_abort => api_pc \in {"joining", "clearing"}
  /\ ~(q_stop /\ q_abort)

(* ffmpeg never outlives the session that spawned it: an idle recorder has *)
(* no process that could still write the file that was saved or removed.   *)
NoOrphanEncoder == rec_state = "Idle" => encoder = "none"

(* save, discard, deinit and the destructor return: the join in do_stop    *)
(* does not wait for ever, unless ffmpeg has stopped reading.              *)
CallsReturn ==
  (api_pc # "ready") ~> (api_pc = "ready" \/ process # "up" \/ encoder = "stalled")

(* The recorder implements RecordingSession. *)
Saved == wpc \in {"idle", "exited"} /\ ffp_started /\ ~aborted
         /\ files[fname] = "complete"

RS == INSTANCE RecordingSession WITH
        Frame     <- QFrame,
        phase     <- IF rec_state = "Idle" THEN "idle"
                     ELSE IF q_stop \/ q_abort THEN "closing" ELSE "open",
        line      <- IF rec_state = "Idle" THEN <<>> ELSE InHand \o queue,
        delivered <- out,
        result    <- IF Saved THEN "saved"
                     ELSE IF wpc = "exited" THEN "failed" ELSE "none"

(* The recorder's steps are steps of an abstract recording: FIFO order,    *)
(* nothing accepted once closing, saved only with nothing left to write.   *)
RefinesRecordingSession == RS!Spec

(* docs/USAGE.md draws IDLE --recorder_start()--> RECORDING and the header *)
(* has start_recording return false when it does not start: it does not    *)
(* end the program.                                                        *)
StartReturns == process # "terminated"
=============================================================================
