------------------------- MODULE VideoRecorderProofs -------------------------
(***************************************************************************)
(* Proofs about VideoRecorder, for every set of files, every capacity of   *)
(* the queue and every bound on frames and sessions.                       *)
(***************************************************************************)
EXTENDS VideoRecorder, SequenceTheorems, TLAPS

USE DEF session, request, counts, writer, api, history,
        WriterGoes, ApiGoes, Calls, Returns, Room, Overflow, Accepts, Drained,
        StartsEncoder, EncoderAfter, ClearRequests

-----------------------------------------------------------------------------
(* Type correctness, one part of TypeOK at a time.  The writer appends     *)
(* what it holds to the output, so the frames have their type only because *)
(* the writer holds a frame exactly where its code does.                   *)

HandOK == wpc \in {"examine", "write"} <=> frame # NoFrame

LEMMA FlagsStep == FlagsTypeOK /\ [Next]_vars => FlagsTypeOK'
<1> SUFFICES ASSUME FlagsTypeOK, [Next]_vars PROVE FlagsTypeOK'
  OBVIOUS
<1> USE DEF FlagsTypeOK
<1>1. CASE FeedRaw \/ FeedJpeg \/ PauseRecording \/ ResumeRecording
  BY <1>1 DEF FeedRaw, FeedJpeg, PushFrame, PauseRecording, ResumeRecording
<1>2. CASE WriterBegin \/ WriterTake \/ WriterSkipsFrame \/ WriterIdle
  BY <1>2 DEF WriterBegin, WriterTake, WriterSkipsFrame, WriterIdle
<1>3. CASE WriterStartsEncoder \/ WriterWrite \/ WriterFinish
  BY <1>3 DEF WriterStartsEncoder, WriterWrite, WriterFinish
<1>4. CASE EncoderDies \/ EncoderStops
  BY <1>4 DEF EncoderDies, EncoderStops
<1>5. CASE InitRecorder \/ StartRecording \/ StartTerminates
  BY <1>5 DEF InitRecorder, StartRecording, StartTerminates
<1>6. CASE SaveRecording \/ DiscardRecording \/ StopForDiscard \/ JoinWriter
  BY <1>6 DEF SaveRecording, DiscardRecording, StopForDiscard, JoinWriter
<1>7. CASE ClearAfterJoin \/ ResetCounters \/ RemoveFile \/ Detach \/ Free
  BY <1>7 DEF ClearAfterJoin, ResetCounters, RemoveFile, Detach, Free
<1>8. CASE Over \/ UNCHANGED vars
  BY <1>8 DEF Over, vars
<1>9. QED
  BY <1>1, <1>2, <1>3, <1>4, <1>5, <1>6, <1>7, <1>8 DEF Next

LEMMA SessionStep == SessionTypeOK /\ [Next]_vars => SessionTypeOK'
<1> SUFFICES ASSUME SessionTypeOK, [Next]_vars PROVE SessionTypeOK'
  OBVIOUS
<1> USE DEF SessionTypeOK, RecorderState, RecordingFormat, FileName
<1>1. CASE FeedRaw \/ FeedJpeg
  <2>1. PICK key \in BOOLEAN : PushFrame(key)
    BY <1>1 DEF FeedRaw, FeedJpeg
  <2>2. /\ count_dropped' \in {count_dropped, count_dropped + 1}
        /\ skipped' \in {skipped, skipped + 1} /\ fed' = fed + 1
    BY <2>1 DEF PushFrame
  <2>3. UNCHANGED <<session, fname, api_fname, count_written, sessions>>
    BY <2>1 DEF PushFrame
  <2>4. QED
    BY <2>2, <2>3
<1>2. CASE WriterBegin \/ WriterTake \/ WriterSkipsFrame \/ WriterIdle
  BY <1>2 DEF WriterBegin, WriterTake, WriterSkipsFrame, WriterIdle
<1>3. CASE WriterStartsEncoder \/ WriterWrite \/ WriterFinish
  BY <1>3 DEF WriterStartsEncoder, WriterWrite, WriterFinish
<1>4. CASE EncoderDies \/ EncoderStops \/ PauseRecording \/ ResumeRecording
  BY <1>4 DEF EncoderDies, EncoderStops, PauseRecording, ResumeRecording
<1>5. CASE StartRecording
  <2>1. /\ out_fname' \in Files /\ rec_fmt' \in RecordingFormat
        /\ rec_state' = "Recording" /\ UNCHANGED <<fname, api_fname>>
    BY <1>5 DEF StartRecording
  <2>2. /\ count_written' = 0 /\ count_dropped' = 0 /\ skipped' = 0
        /\ sessions' = sessions + 1 /\ fed' = fed
    BY <1>5 DEF StartRecording
  <2>3. QED
    BY <2>1, <2>2
<1>6. CASE InitRecorder \/ StartTerminates \/ SaveRecording \/ DiscardRecording
  BY <1>6 DEF InitRecorder, StartTerminates, SaveRecording, DiscardRecording
<1>7. CASE StopForDiscard \/ JoinWriter \/ ClearAfterJoin
  BY <1>7 DEF StopForDiscard, JoinWriter, ClearAfterJoin
<1>8. CASE ResetCounters \/ RemoveFile \/ Detach \/ Free
  BY <1>8 DEF ResetCounters, RemoveFile, Detach, Free
<1>9. CASE Over \/ UNCHANGED vars
  BY <1>9 DEF Over, vars
<1>10. QED
  BY <1>1, <1>2, <1>3, <1>4, <1>5, <1>6, <1>7, <1>8, <1>9 DEF Next

LEMMA ThreadsStep == ThreadsTypeOK /\ SessionTypeOK /\ [Next]_vars => ThreadsTypeOK'
<1> SUFFICES ASSUME ThreadsTypeOK, SessionTypeOK, [Next]_vars
             PROVE  ThreadsTypeOK'
  OBVIOUS
<1> USE DEF ThreadsTypeOK, WriterPlaces, EncoderStatus, ApiOps, ApiPlaces
<1>1. CASE FeedRaw \/ FeedJpeg \/ PauseRecording \/ ResumeRecording
  BY <1>1 DEF FeedRaw, FeedJpeg, PushFrame, PauseRecording, ResumeRecording
<1>2. CASE WriterBegin \/ WriterTake \/ WriterSkipsFrame \/ WriterIdle
  BY <1>2 DEF WriterBegin, WriterTake, WriterSkipsFrame, WriterIdle, SessionTypeOK
<1>3. CASE WriterStartsEncoder \/ WriterWrite \/ WriterFinish
  BY <1>3 DEF WriterStartsEncoder, WriterWrite, WriterFinish, FileStatus
<1>4. CASE EncoderDies \/ EncoderStops
  BY <1>4 DEF EncoderDies, EncoderStops
<1>5. CASE InitRecorder \/ StartRecording \/ StartTerminates \/ SaveRecording
  BY <1>5 DEF InitRecorder, StartRecording, StartTerminates, SaveRecording
<1>6. CASE DiscardRecording \/ StopForDiscard \/ JoinWriter \/ ClearAfterJoin
  BY <1>6 DEF DiscardRecording, StopForDiscard, JoinWriter, ClearAfterJoin
<1>7. CASE ResetCounters \/ RemoveFile \/ Detach \/ Free
  BY <1>7 DEF ResetCounters, RemoveFile, Detach, Free, FileStatus
<1>8. CASE Over \/ UNCHANGED vars
  BY <1>8 DEF Over, vars
<1>9. QED
  BY <1>1, <1>2, <1>3, <1>4, <1>5, <1>6, <1>7, <1>8 DEF Next

(* What push_frame leaves on the queue is a sequence of frames no longer   *)
(* than the buffer: an overflow takes one off before the new one goes on.  *)
LEMMA PushKeepsQueue ==
  ASSUME NEW q \in Seq(QFrame), Len(q) <= BufferFrames, NEW f \in QFrame
  PROVE  LET r == Append(IF Len(q) >= BufferFrames THEN Tail(q) ELSE q, f)
         IN  r \in Seq(QFrame) /\ Len(r) <= BufferFrames
<1>1. CASE Len(q) >= BufferFrames
  <2>1. q # <<>>
    BY <1>1, BufferAssumption, EmptySeq
  <2>2. Tail(q) \in Seq(QFrame) /\ Len(Tail(q)) = Len(q) - 1
    BY <2>1, HeadTailProperties
  <2>3. QED
    BY <1>1, <2>2, BufferAssumption, AppendProperties, LenProperties
<1>2. CASE ~(Len(q) >= BufferFrames)
  BY <1>2, BufferAssumption, AppendProperties, LenProperties
<1>3. QED
  BY <1>1, <1>2

LEMMA FramesStep ==
  FramesTypeOK /\ HandOK /\ SessionTypeOK /\ [Next]_vars => FramesTypeOK'
<1> SUFFICES ASSUME FramesTypeOK, HandOK, SessionTypeOK, [Next]_vars
             PROVE  FramesTypeOK'
  OBVIOUS
<1> USE DEF FramesTypeOK
<1>1. CASE FeedRaw \/ FeedJpeg
  <2>1. PICK key \in BOOLEAN : PushFrame(key)
    BY <1>1 DEF FeedRaw, FeedJpeg
  <2> DEFINE f == [id |-> fed + 1, key |-> key]
  <2>2. f \in QFrame
    BY DEF SessionTypeOK, QFrame
  <2>3. queue' \in Seq(QFrame) /\ Len(queue') <= BufferFrames
    BY <2>1, <2>2, PushKeepsQueue DEF PushFrame
  <2>4. accepted' \in {accepted, Append(accepted, f)}
    BY <2>1 DEF PushFrame
  <2>5. accepted' \in Seq(QFrame)
    BY <2>2, <2>4, AppendProperties
  <2>6. UNCHANGED <<out, frame>>
    BY <2>1 DEF PushFrame
  <2>7. QED
    BY <2>3, <2>5, <2>6
<1>2. CASE WriterTake
  <2>1. queue # <<>> => /\ Head(queue) \in QFrame
                        /\ Tail(queue) \in Seq(QFrame)
                        /\ Len(Tail(queue)) <= BufferFrames
    BY HeadTailProperties, LenProperties, BufferAssumption
  <2>2. \/ UNCHANGED <<queue, frame>>
        \/ queue # <<>> /\ queue' = Tail(queue) /\ frame' = Head(queue)
    BY <1>2 DEF WriterTake
  <2>3. UNCHANGED <<out, accepted>>
    BY <1>2 DEF WriterTake
  <2>4. QED
    BY <2>1, <2>2, <2>3
<1>3. CASE WriterWrite
  <2>1. frame \in QFrame
    BY <1>3 DEF WriterWrite, HandOK
  <2>2. out' \in {out, Append(out, frame)}
    BY <1>3 DEF WriterWrite
  <2>3. out' \in Seq(QFrame)
    <3>1. out \in Seq(QFrame)
      OBVIOUS
    <3>2. Append(out, frame) \in Seq(QFrame)
      BY <2>1, <3>1, AppendProperties
    <3>3. QED
      BY <2>2, <3>1, <3>2
  <2>4. UNCHANGED <<queue, accepted>> /\ frame' = NoFrame
    BY <1>3 DEF WriterWrite
  <2>5. QED
    BY <2>3, <2>4
<1>4. CASE StartRecording
  <2>1. queue' = <<>> /\ accepted' = <<>> /\ out' = <<>> /\ frame' = NoFrame
    BY <1>4 DEF StartRecording
  <2>2. <<>> \in Seq(QFrame) /\ Len(<<>>) <= BufferFrames
    BY BufferAssumption
  <2>3. QED
    BY <2>1, <2>2, Zenon
<1>5. CASE ClearAfterJoin
  <2>1. queue' = <<>> /\ UNCHANGED <<accepted, out, frame>>
    BY <1>5 DEF ClearAfterJoin
  <2>2. <<>> \in Seq(QFrame) /\ Len(<<>>) <= BufferFrames
    BY BufferAssumption
  <2>3. QED
    BY <2>1, <2>2, Zenon
<1>6. CASE WriterBegin \/ WriterFinish \/ WriterIdle
  BY <1>6 DEF WriterBegin, WriterFinish, WriterIdle
<1>7. CASE WriterSkipsFrame \/ WriterStartsEncoder
  BY <1>7 DEF WriterSkipsFrame, WriterStartsEncoder
<1>8. CASE EncoderDies \/ EncoderStops \/ PauseRecording \/ ResumeRecording
  BY <1>8 DEF EncoderDies, EncoderStops, PauseRecording, ResumeRecording
<1>9. CASE InitRecorder \/ StartTerminates \/ SaveRecording \/ DiscardRecording
  BY <1>9 DEF InitRecorder, StartTerminates, SaveRecording, DiscardRecording
<1>10. CASE StopForDiscard \/ JoinWriter \/ ResetCounters \/ RemoveFile
  BY <1>10 DEF StopForDiscard, JoinWriter, ResetCounters, RemoveFile
<1>11. CASE Detach \/ Free \/ Over \/ UNCHANGED vars
  BY <1>11 DEF Detach, Free, Over, vars
<1>12. QED
  BY <1>1, <1>2, <1>3, <1>4, <1>5, <1>6, <1>7, <1>8, <1>9, <1>10, <1>11 DEF Next

LEMMA HandStep == HandOK /\ FramesTypeOK /\ [Next]_vars => HandOK'
<1> SUFFICES ASSUME HandOK, FramesTypeOK, [Next]_vars PROVE HandOK'
  OBVIOUS
<1> USE DEF HandOK
<1>1. CASE FeedRaw \/ FeedJpeg \/ PauseRecording \/ ResumeRecording
  BY <1>1 DEF FeedRaw, FeedJpeg, PushFrame, PauseRecording, ResumeRecording
<1>2. CASE WriterTake
  <2>1. queue # <<>> => Head(queue) # NoFrame
    BY HeadTailProperties, NoFrameAssumption DEF FramesTypeOK
  <2>2. \/ wpc' = "finish" /\ wpc = "wait" /\ frame' = frame
        \/ wpc' \in {"examine", "write"} /\ queue # <<>> /\ frame' = Head(queue)
    BY <1>2 DEF WriterTake
  <2>3. QED
    BY <2>1, <2>2
<1>3. CASE WriterBegin \/ WriterSkipsFrame \/ WriterStartsEncoder
  BY <1>3 DEF WriterBegin, WriterSkipsFrame, WriterStartsEncoder
<1>4. CASE WriterWrite \/ WriterFinish \/ WriterIdle
  BY <1>4 DEF WriterWrite, WriterFinish, WriterIdle
<1>5. CASE EncoderDies \/ EncoderStops \/ InitRecorder \/ StartTerminates
  BY <1>5 DEF EncoderDies, EncoderStops, InitRecorder, StartTerminates
<1>6. CASE StartRecording \/ SaveRecording \/ DiscardRecording \/ StopForDiscard
  BY <1>6 DEF StartRecording, SaveRecording, DiscardRecording, StopForDiscard
<1>7. CASE JoinWriter \/ ClearAfterJoin \/ ResetCounters \/ RemoveFile
  BY <1>7 DEF JoinWriter, ClearAfterJoin, ResetCounters, RemoveFile
<1>8. CASE Detach \/ Free \/ Over \/ UNCHANGED vars
  BY <1>8 DEF Detach, Free, Over, vars
<1>9. QED
  BY <1>1, <1>2, <1>3, <1>4, <1>5, <1>6, <1>7, <1>8 DEF Next

LEMMA InitTypeOK == Init => TypeOK /\ HandOK
<1> SUFFICES ASSUME Init PROVE TypeOK /\ HandOK
  OBVIOUS
<1>1. FlagsTypeOK
  BY DEF Init, FlagsTypeOK
<1>2. SessionTypeOK
  BY DEF Init, SessionTypeOK, RecorderState, RecordingFormat, FileName
<1>3. ThreadsTypeOK
  BY DEF Init, ThreadsTypeOK, WriterPlaces, RecordingFormat, EncoderStatus,
         FileStatus, ApiOps, ApiPlaces
<1>4. FramesTypeOK
  <2>1. <<>> \in Seq(QFrame) /\ Len(<<>>) <= BufferFrames
    BY BufferAssumption
  <2>2. QED
    BY <2>1, Zenon DEF Init, FramesTypeOK
<1>5. HandOK
  BY DEF Init, HandOK
<1>6. QED
  BY <1>1, <1>2, <1>3, <1>4, <1>5 DEF TypeOK

LEMMA TypeStep == TypeOK /\ HandOK /\ [Next]_vars => TypeOK' /\ HandOK'
BY FlagsStep, SessionStep, ThreadsStep, FramesStep, HandStep DEF TypeOK

(* TypeOK of the specification: every variable keeps its type and the      *)
(* queue never grows past RECORDER_BUFFER_FRAMES, with any number of       *)
(* feeding threads and a writer that may be arbitrarily slow.              *)
THEOREM TypeCorrect == Spec => [](TypeOK /\ HandOK)
BY InitTypeOK, TypeStep, PTL DEF Spec
-----------------------------------------------------------------------------
(* The threads.  The session is not Idle exactly while the writer runs,    *)
(* and do_stop gets past its join only when the writer has ended.          *)

WriterRuns == wpc \notin {"none", "exited"}

ThreadInv ==
  /\ rec_state = "Idle" <=> ~WriterRuns
  /\ WriterRuns => writer_thr = "joinable"
  /\ api_pc \in {"clearing", "resetting"} => ~WriterRuns
  /\ aborted => wpc \in {"finish", "idle", "exited"}

(* What feeding a frame leaves alone. *)
LEMMA FeedFrame ==
  ASSUME FeedRaw \/ FeedJpeg
  PROVE  UNCHANGED <<session, request, count_written, initialized, writer_thr,
                     wpc, writer, encoder, files, api, process, sessions, out>>
BY DEF FeedRaw, FeedJpeg, PushFrame

LEMMA ThreadStep == TypeOK /\ ThreadInv /\ [Next]_vars => ThreadInv'
<1> SUFFICES ASSUME ThreadsTypeOK, SessionTypeOK, ThreadInv, [Next]_vars
             PROVE  ThreadInv'
  BY DEF TypeOK
<1> USE DEF ThreadInv, WriterRuns
<1>1. CASE FeedRaw \/ FeedJpeg
  BY <1>1, FeedFrame
<1>2. CASE PauseRecording \/ ResumeRecording
  BY <1>2 DEF PauseRecording, ResumeRecording
<1>3. CASE Writer
  <2>1. CASE WriterBegin \/ WriterSkipsFrame \/ WriterIdle
    BY <1>3, <2>1 DEF WriterBegin, WriterSkipsFrame, WriterIdle
  <2>2. CASE WriterTake
    BY <2>2 DEF WriterTake
  <2>3. CASE WriterStartsEncoder
    BY <2>3 DEF WriterStartsEncoder
  <2>4. CASE WriterWrite \/ WriterFinish
    BY <2>4 DEF WriterWrite, WriterFinish
  <2>5. QED
    BY <1>3, <2>1, <2>2, <2>3, <2>4 DEF Writer
<1>4. CASE EncoderDies \/ EncoderStops \/ InitRecorder \/ StartTerminates
  BY <1>4 DEF EncoderDies, EncoderStops, InitRecorder, StartTerminates
<1>5. CASE StartRecording
  BY <1>5 DEF StartRecording, MayStart
<1>6. CASE SaveRecording \/ DiscardRecording \/ StopForDiscard \/ JoinWriter
  BY <1>6 DEF SaveRecording, DiscardRecording, StopForDiscard, JoinWriter,
              ThreadsTypeOK
<1>7. CASE ClearAfterJoin \/ ResetCounters \/ RemoveFile
  BY <1>7 DEF ClearAfterJoin, ResetCounters, RemoveFile
<1>8. CASE Detach \/ Free \/ Over \/ UNCHANGED vars
  BY <1>8 DEF Detach, Free, Over, vars
<1>9. QED
  BY <1>1, <1>2, <1>3, <1>4, <1>5, <1>6, <1>7, <1>8 DEF Next, Writer

(* Requests to the writer: each belongs to the call that is in do_stop. *)
RequestInv ==
  /\ q_stop  => api_pc \in {"joining", "clearing"} /\ api_op = "save"
  /\ q_abort => api_pc \in {"joining", "clearing"} /\ api_op # "save"
  /\ api_pc = "stopping" => api_op # "save"

LEMMA RequestStep == FlagsTypeOK /\ RequestInv /\ [Next]_vars => RequestInv'
<1> SUFFICES ASSUME FlagsTypeOK, RequestInv, [Next]_vars PROVE RequestInv'
  OBVIOUS
<1> USE DEF RequestInv
<1>1. CASE FeedRaw \/ FeedJpeg
  BY <1>1, FeedFrame
<1>2. CASE PauseRecording \/ ResumeRecording
  BY <1>2 DEF PauseRecording, ResumeRecording
<1>3. CASE Writer
  BY <1>3 DEF Writer, WriterBegin, WriterTake, WriterSkipsFrame,
              WriterStartsEncoder, WriterWrite, WriterFinish, WriterIdle
<1>4. CASE EncoderDies \/ EncoderStops \/ InitRecorder \/ StartTerminates
  BY <1>4 DEF EncoderDies, EncoderStops, InitRecorder, StartTerminates
<1>5. CASE StartRecording
  BY <1>5 DEF StartRecording, MayStart
<1>6. CASE SaveRecording \/ DiscardRecording
  BY <1>6 DEF SaveRecording, DiscardRecording
<1>7. CASE StopForDiscard \/ JoinWriter \/ ClearAfterJoin
  BY <1>7 DEF StopForDiscard, JoinWriter, ClearAfterJoin
<1>8. CASE ResetCounters \/ RemoveFile
  BY <1>8 DEF ResetCounters, RemoveFile
<1>9. CASE Detach \/ Free \/ Over \/ UNCHANGED vars
  BY <1>9 DEF Detach, Free, Over, vars
<1>10. QED
  BY <1>1, <1>2, <1>3, <1>4, <1>5, <1>6, <1>7, <1>8, <1>9 DEF Next, Writer

(* ffmpeg: it lives in the part of the writer between spawn and finish. *)
EncoderInv ==
  encoder # "none" => ffp_started /\ wpc \in {"wait", "write", "finish"}

LEMMA EncoderStep == ThreadInv /\ EncoderInv /\ [Next]_vars => EncoderInv'
<1> SUFFICES ASSUME ThreadInv, EncoderInv, [Next]_vars PROVE EncoderInv'
  OBVIOUS
<1> USE DEF EncoderInv
<1>1. CASE FeedRaw \/ FeedJpeg
  BY <1>1, FeedFrame
<1>2. CASE Writer
  BY <1>2 DEF Writer, WriterBegin, WriterTake, WriterSkipsFrame,
              WriterStartsEncoder, WriterWrite, WriterFinish, WriterIdle
<1>3. CASE EncoderDies \/ EncoderStops \/ PauseRecording \/ ResumeRecording
  BY <1>3 DEF EncoderDies, EncoderStops, PauseRecording, ResumeRecording
<1>4. CASE StartRecording
  BY <1>4 DEF StartRecording, MayStart, ThreadInv, WriterRuns
<1>5. CASE InitRecorder \/ StartTerminates \/ SaveRecording \/ DiscardRecording
  BY <1>5 DEF InitRecorder, StartTerminates, SaveRecording, DiscardRecording
<1>6. CASE StopForDiscard \/ JoinWriter \/ ClearAfterJoin \/ ResetCounters
  BY <1>6 DEF StopForDiscard, JoinWriter, ClearAfterJoin, ResetCounters
<1>7. CASE RemoveFile \/ Detach \/ Free \/ Over \/ UNCHANGED vars
  BY <1>7 DEF RemoveFile, Detach, Free, Over, vars
<1>8. QED
  BY <1>1, <1>2, <1>3, <1>4, <1>5, <1>6, <1>7 DEF Next, Writer
-----------------------------------------------------------------------------
(* The frames of a session.  While the writer finalises without having     *)
(* been aborted, the stop request that ended its loop is still pending:    *)
(* that is what keeps push_frame from adding to the empty queue.           *)

Held == IF frame = NoFrame THEN 0 ELSE 1

Balanced == count_written + count_dropped + Len(queue) + Held
              = Len(accepted) + skipped

AccountInv ==
  /\ WriterRuns => Len(out) = count_written
  /\ WriterRuns /\ ~aborted => Balanced
  /\ wpc \in {"finish", "idle"} /\ ~aborted => queue = <<>> /\ q_stop

LEMMA FeedAccount ==
  ASSUME TypeOK, ThreadInv, AccountInv, FeedRaw \/ FeedJpeg
  PROVE  AccountInv'
<1>1. PICK key \in BOOLEAN : PushFrame(key)
  BY DEF FeedRaw, FeedJpeg
<1> DEFINE f == [id |-> fed + 1, key |-> key]
<1>2. f \in QFrame
  BY DEF TypeOK, SessionTypeOK, QFrame
<1>3. /\ Len(Append(accepted, f)) = Len(accepted) + 1 /\ Len(accepted) \in Nat
      /\ Len(queue) \in Nat /\ Held \in Nat
      /\ count_dropped \in Nat /\ skipped \in Nat /\ count_written \in Nat
  BY <1>2, AppendProperties, LenProperties
     DEF TypeOK, FramesTypeOK, SessionTypeOK, Held
<1>4. CASE rec_state = "Paused"
  <2>1. /\ count_dropped' = count_dropped + 1 /\ skipped' = skipped + 1
        /\ UNCHANGED <<queue, accepted>>
    BY <1>1, <1>4 DEF PushFrame
  <2>2. Balanced => Balanced'
    BY <1>3, <2>1, FeedFrame DEF Balanced, Held
  <2>3. QED
    BY <2>1, <2>2, FeedFrame DEF AccountInv, WriterRuns
<1>5. CASE rec_state = "Recording"
  <2>1. ~q_stop /\ skipped' = skipped
    BY <1>1, <1>5 DEF PushFrame
  <2>2. count_dropped' + Len(queue') = count_dropped + Len(queue) + 1
    <3>1. CASE Len(queue) >= BufferFrames
      <4>1. queue # <<>>
        BY <3>1, BufferAssumption, EmptySeq
      <4>2. Tail(queue) \in Seq(QFrame) /\ Len(Tail(queue)) = Len(queue) - 1
        BY <4>1, HeadTailProperties DEF TypeOK, FramesTypeOK
      <4>3. Len(Append(Tail(queue), f)) = Len(queue)
        BY <1>2, <1>3, <4>2, AppendProperties
      <4>4. queue' = Append(Tail(queue), f)
        BY <1>1, <1>5, <3>1 DEF PushFrame
      <4>5. Len(queue') = Len(queue)
        BY <4>3, <4>4, Zenon
      <4>6. count_dropped' = count_dropped + 1
        BY <1>1, <1>5, <3>1 DEF PushFrame
      <4>7. QED
        BY <1>3, <4>5, <4>6
    <3>2. CASE ~(Len(queue) >= BufferFrames)
      <4>1. Len(Append(queue, f)) = Len(queue) + 1
        BY <1>2, AppendProperties DEF TypeOK, FramesTypeOK
      <4>2. queue' = Append(queue, f)
        BY <1>1, <1>5, <3>2 DEF PushFrame
      <4>3. count_dropped' = count_dropped
        BY <1>1, <1>3, <1>5, <3>2 DEF PushFrame
      <4>4. QED
        BY <1>3, <4>1, <4>2, <4>3
    <3>3. QED
      BY <3>1, <3>2
  <2>3. Len(accepted') = Len(accepted) + 1
    <3>1. accepted' = Append(accepted, f)
      BY <1>1, <1>5 DEF PushFrame
    <3>2. QED
      BY <1>3, <3>1, Zenon
  <2>4. count_dropped' \in Nat /\ Len(queue') \in Nat
    <3>1. count_dropped' \in {count_dropped, count_dropped + 1}
      BY <1>1, <1>3 DEF PushFrame
    <3>2. queue' \in Seq(QFrame)
      BY <1>1, <1>2, <1>5, PushKeepsQueue DEF PushFrame, TypeOK, FramesTypeOK
    <3>3. QED
      BY <1>3, <3>1, <3>2, LenProperties
  <2>5. Held' = Held /\ count_written' = count_written
    BY FeedFrame DEF Held
  <2>6. Balanced => Balanced'
    <3>1. PICK d \in Nat, n \in Nat : d = count_dropped' /\ n = Len(queue')
      BY <2>4
    <3>2. d + n = count_dropped + Len(queue) + 1
      BY <2>2, <3>1
    <3>3. count_written + d + n + Held
            = count_written + count_dropped + Len(queue) + Held + 1
      BY <1>3, <3>2
    <3>4. count_written' + count_dropped' + Len(queue') + Held'
            = count_written + count_dropped + Len(queue) + Held + 1
      BY <2>5, <3>1, <3>3
    <3>5. QED
      BY <1>3, <2>1, <2>3, <3>4 DEF Balanced
  <2>7. ~(wpc \in {"finish", "idle"} /\ ~aborted)
    BY <2>1 DEF AccountInv
  <2>8. QED
    BY <2>6, <2>7, FeedFrame DEF AccountInv, WriterRuns
<1>6. QED
  BY <1>1, <1>4, <1>5 DEF PushFrame

LEMMA AccountStep ==
  TypeOK /\ HandOK /\ ThreadInv /\ AccountInv /\ [Next]_vars => AccountInv'
<1> SUFFICES ASSUME TypeOK, HandOK, ThreadInv, AccountInv, [Next]_vars
             PROVE  AccountInv'
  OBVIOUS
<1>1. CASE FeedRaw \/ FeedJpeg
  BY <1>1, FeedAccount
<1> USE DEF AccountInv, WriterRuns, Balanced, Held
<1>2. CASE PauseRecording \/ ResumeRecording \/ EncoderDies \/ EncoderStops
  BY <1>2 DEF PauseRecording, ResumeRecording, EncoderDies, EncoderStops
<1>3. CASE WriterBegin \/ WriterFinish \/ WriterIdle
  BY <1>3 DEF WriterBegin, WriterFinish, WriterIdle
<1>4. CASE WriterTake
  <2>1. UNCHANGED <<out, counts, accepted, skipped, q_stop>> /\ wpc = "wait" /\ frame = NoFrame
    BY <1>4 DEF WriterTake, HandOK
  <2>2. CASE queue # <<>> /\ ~q_abort
    <3>1. /\ Head(queue) \in QFrame /\ Head(queue) # NoFrame
          /\ Tail(queue) \in Seq(QFrame) /\ Len(Tail(queue)) = Len(queue) - 1
      BY <2>2, HeadTailProperties, NoFrameAssumption DEF TypeOK, FramesTypeOK
    <3>2. /\ wpc' \in {"write", "examine"} /\ aborted' = aborted
          /\ frame' = Head(queue) /\ queue' = Tail(queue)
      BY <1>4, <2>2 DEF WriterTake
    <3>3. Len(queue') = Len(queue) - 1 /\ Held = 0 /\ Held' = 1
      BY <2>1, <3>1, <3>2, Zenon
    <3>4. /\ Len(queue) \in Nat /\ Len(queue) - 1 + 1 = Len(queue)
          /\ count_written \in Nat /\ count_dropped \in Nat
      BY LenProperties DEF TypeOK, FramesTypeOK, SessionTypeOK
    <3>5. Balanced => Balanced'
      BY <2>1, <3>3, <3>4
    <3>6. QED
      BY <2>1, <3>2, <3>5
  <2>3. CASE queue = <<>> /\ ~q_abort
    BY <1>4, <2>1, <2>3 DEF WriterTake
  <2>4. CASE q_abort
    BY <1>4, <2>1, <2>4 DEF WriterTake
  <2>5. QED
    BY <2>2, <2>3, <2>4
<1>5. CASE WriterSkipsFrame
  BY <1>5 DEF WriterSkipsFrame, HandOK, TypeOK, SessionTypeOK, FramesTypeOK
<1>6. CASE WriterStartsEncoder
  BY <1>6 DEF WriterStartsEncoder
<1>7. CASE WriterWrite
  <2>1. frame \in QFrame /\ frame # NoFrame
    BY <1>7 DEF WriterWrite, HandOK, TypeOK, FramesTypeOK
  <2>2. Len(Append(out, frame)) = Len(out) + 1
    BY <2>1, AppendProperties DEF TypeOK, FramesTypeOK
  <2>3. /\ UNCHANGED <<queue, count_dropped, accepted, skipped>>
        /\ frame' = NoFrame /\ wpc' \in {"wait", "finish"}
    BY <1>7 DEF WriterWrite
  <2>4. CASE wpc' = "wait"
    <3>1. out' = Append(out, frame)
      BY <1>7, <2>4 DEF WriterWrite
    <3>2. Len(out') = Len(out) + 1
      BY <2>2, <3>1, Zenon
    <3>3. count_written' = count_written + 1 /\ aborted' = aborted /\ wpc = "write"
      BY <1>7, <2>4 DEF WriterWrite
    <3>4. /\ Len(queue) \in Nat /\ Len(out) \in Nat
          /\ count_written \in Nat /\ count_dropped \in Nat
      BY LenProperties DEF TypeOK, FramesTypeOK, SessionTypeOK
    <3>5. QED
      BY <2>1, <2>3, <2>4, <3>2, <3>3, <3>4
  <2>5. CASE wpc' = "finish"
    <3>1. aborted' = TRUE /\ UNCHANGED <<out, count_written>> /\ wpc = "write"
      BY <1>7, <2>5 DEF WriterWrite
    <3>2. QED
      BY <3>1, <2>5
  <2>6. QED
    BY <2>3, <2>4, <2>5
<1>8. CASE StartRecording
  <2>1. /\ count_written' = 0 /\ count_dropped' = 0 /\ skipped' = 0
        /\ frame' = NoFrame /\ wpc' = "begin"
    BY <1>8 DEF StartRecording
  <2>2. Len(queue') = 0 /\ Len(accepted') = 0 /\ Len(out') = 0
    BY <1>8 DEF StartRecording
  <2>3. QED
    BY <2>1, <2>2
<1>9. CASE InitRecorder \/ StartTerminates \/ DiscardRecording
  BY <1>9 DEF InitRecorder, StartTerminates, DiscardRecording
<1>10. CASE SaveRecording \/ StopForDiscard \/ JoinWriter
  BY <1>10 DEF SaveRecording, StopForDiscard, JoinWriter
<1>11. CASE ClearAfterJoin \/ ResetCounters
  BY <1>11 DEF ClearAfterJoin, ResetCounters, ThreadInv
<1>12. CASE RemoveFile \/ Detach \/ Free \/ Over \/ UNCHANGED vars
  BY <1>12 DEF RemoveFile, Detach, Free, Over, vars
<1>13. QED
  BY <1>1, <1>2, <1>3, <1>4, <1>5, <1>6, <1>7, <1>8, <1>9, <1>10, <1>11,
     <1>12 DEF Next
-----------------------------------------------------------------------------
RecorderInv == /\ TypeOK /\ HandOK
               /\ ThreadInv /\ RequestInv /\ EncoderInv /\ AccountInv

LEMMA RecorderInvariant == Spec => []RecorderInv
<1>1. Init => RecorderInv
  <2> SUFFICES ASSUME Init PROVE ThreadInv /\ RequestInv /\ EncoderInv /\ AccountInv
    BY InitTypeOK DEF RecorderInv
  <2> USE DEF Init
  <2>1. ThreadInv /\ RequestInv
    BY DEF ThreadInv, WriterRuns, RequestInv
  <2>2. EncoderInv
    BY DEF EncoderInv
  <2>3. AccountInv
    BY DEF AccountInv, WriterRuns
  <2>4. QED
    BY <2>1, <2>2, <2>3
<1>2. RecorderInv /\ [Next]_vars => RecorderInv'
  BY TypeStep, ThreadStep, RequestStep, EncoderStep, AccountStep
     DEF RecorderInv, TypeOK
<1>3. QED
  BY <1>1, <1>2, PTL DEF Spec

(* A request to stop or abort the writer is pending only while the call    *)
(* that made it waits in do_stop, and never both kinds at once: no session *)
(* starts with a request meant for the one before.                         *)
THEOREM RequestsServed == Spec => []StopRequestIsServed
<1>1. RecorderInv => StopRequestIsServed
  BY DEF RecorderInv, RequestInv, StopRequestIsServed
<1>2. QED
  BY <1>1, RecorderInvariant, PTL

(* An idle recorder has no ffmpeg: run_writer sets Idle only after it has  *)
(* waited for the process or terminated it.                                *)
THEOREM NoEncoderLeft == Spec => []NoOrphanEncoder
<1>1. RecorderInv => NoOrphanEncoder
  BY DEF RecorderInv, EncoderInv, ThreadInv, WriterRuns, NoOrphanEncoder
<1>2. QED
  BY <1>1, RecorderInvariant, PTL

LEMMA HandLength == Len(InHand) = Held
BY DEF InHand, Held

(* No frame fed into a live session is lost or counted twice, with any     *)
(* number of feeding threads and for every capacity of the queue.          *)
THEOREM FramesAccounted == Spec => []FrameAccounting
<1>1. RecorderInv => FrameAccounting
  BY HandLength DEF RecorderInv, AccountInv, ThreadInv, Balanced, FrameAccounting
<1>2. QED
  BY <1>1, RecorderInvariant, PTL

(* A file that save_recording finalises holds every frame that was         *)
(* accepted and not counted as dropped: none is left on the queue or in    *)
(* the writer's hand.                                                      *)
THEOREM SavedWhole == Spec => []SavedFileIsWhole
<1>1. RecorderInv => SavedFileIsWhole
  <2> SUFFICES ASSUME RecorderInv, Finalised PROVE
        /\ queue = <<>> /\ frame = NoFrame /\ Len(out) = count_written
        /\ count_written + count_dropped = Len(accepted) + skipped
    BY DEF SavedFileIsWhole
  <2>1. queue = <<>> /\ frame = NoFrame /\ Len(out) = count_written /\ Balanced
    BY DEF RecorderInv, Finalised, AccountInv, WriterRuns, HandOK
  <2>2. Len(queue) = 0 /\ Held = 0
    BY <2>1 DEF Held
  <2>3. count_written \in Nat /\ count_dropped \in Nat
    BY DEF RecorderInv, TypeOK, SessionTypeOK
  <2>4. QED
    BY <2>1, <2>2, <2>3 DEF Balanced
<1>2. QED
  BY <1>1, RecorderInvariant, PTL
-----------------------------------------------------------------------------
(* The frames of a session, from the file back to the queue: each one was  *)
(* accepted by this session, and each is newer than those before it.       *)
Was(f)  == \E j \in 1 .. Len(accepted) : f = accepted[j]
Fed(f)  == f.id <= fed /\ Was(f)

OutInv  == /\ \A i \in 1 .. Len(out) : Fed(out[i])
           /\ \A i, j \in 1 .. Len(out) : i < j => out[i].id < out[j].id
HandInv == frame # NoFrame => /\ Fed(frame)
                              /\ \A i \in 1 .. Len(out) : out[i].id < frame.id
NewInQueue(k) ==
  /\ Fed(queue[k])
  /\ \A i \in 1 .. Len(out) : out[i].id < queue[k].id
  /\ frame # NoFrame => frame.id < queue[k].id
  /\ \A j \in 1 .. k - 1 : queue[j].id < queue[k].id
QueueInv == \A k \in 1 .. Len(queue) : NewInQueue(k)

SelectionInv == OutInv /\ HandInv /\ QueueInv

(* The writer's copies belong to the session, and the file of an MP4       *)
(* recording begins with the frame that started ffmpeg.                    *)
CopiesInv ==
  /\ WriterRuns => out_fname \in Files
  /\ WriterRuns /\ wpc # "begin" => fmt = rec_fmt /\ fname = out_fname

FirstFrameInv ==
  /\ wpc \in {"begin", "examine"} => ~ffp_started
  /\ ~ffp_started => out = <<>>
  /\ wpc = "wait" /\ ffp_started => out # <<>>
  /\ wpc = "write" => ffp_started /\ (out = <<>> /\ fmt = "MP4" => frame.key)
  /\ rec_fmt = "MP4" /\ out # <<>> => out[1].key

(* A file is complete only when its session has been finalised, and a call *)
(* that is going to remove the file has to do with an aborted one.         *)
FileInv ==
  ffp_started /\ wpc \in {"wait", "write", "finish"} => files[fname] # "complete"

Discards == \/ api_pc \in {"stopping", "removing"}
            \/ api_pc \in {"joining", "clearing", "resetting"} /\ api_op # "save"
DiscardInv == Discards /\ wpc \in {"finish", "idle", "exited"} => aborted

SessionInv == SelectionInv /\ CopiesInv /\ FirstFrameInv /\ FileInv /\ DiscardInv

(* The steps that move a frame; no other step does. *)
Moves == \/ FeedRaw \/ FeedJpeg \/ WriterTake \/ WriterSkipsFrame
         \/ WriterStartsEncoder \/ WriterWrite \/ StartRecording \/ ClearAfterJoin

LEMMA OthersMoveNothing ==
  [Next]_vars /\ ~Moves => UNCHANGED <<queue, frame, out, accepted, fed>>
<1> SUFFICES ASSUME [Next]_vars, ~Moves
             PROVE  UNCHANGED <<queue, frame, out, accepted, fed>>
  OBVIOUS
<1>1. CASE \/ PauseRecording \/ ResumeRecording \/ WriterBegin \/ WriterFinish
           \/ WriterIdle \/ EncoderDies \/ EncoderStops
  BY <1>1 DEF PauseRecording, ResumeRecording, WriterBegin, WriterFinish, WriterIdle,
              EncoderDies, EncoderStops
<1>2. CASE \/ InitRecorder \/ StartTerminates \/ SaveRecording \/ DiscardRecording
           \/ StopForDiscard \/ JoinWriter
  BY <1>2 DEF InitRecorder, StartTerminates, SaveRecording, DiscardRecording,
              StopForDiscard, JoinWriter
<1>3. CASE \/ ResetCounters \/ RemoveFile \/ Detach \/ Free \/ Over
           \/ UNCHANGED vars
  BY <1>3 DEF ResetCounters, RemoveFile, Detach, Free, Over, vars
<1>4. QED
  BY <1>1, <1>2, <1>3 DEF Next, Moves

LEMMA SelectionKept ==
  ASSUME SelectionInv, UNCHANGED <<out, accepted, fed>>,
         frame' \in {frame, NoFrame}, queue' \in {queue, <<>>}
  PROVE  SelectionInv'
<1>1. OutInv' /\ HandInv'
  BY DEF SelectionInv, OutInv, HandInv, Fed, Was
<1>2. CASE queue' = queue
  <2>1. \A k \in 1 .. Len(queue) : NewInQueue(k)'
    BY <1>2 DEF SelectionInv, QueueInv, NewInQueue, Fed, Was
  <2>2. QED
    BY <1>1, <1>2, <2>1 DEF SelectionInv, QueueInv
<1>3. CASE queue' = <<>>
  BY <1>1, <1>3 DEF SelectionInv, QueueInv
<1>4. QED
  BY <1>2, <1>3

(* The oldest frame of the queue goes to the writer, or is given up.       *)
LEMMA SelectionTakes ==
  ASSUME TypeOK, SelectionInv, queue # <<>>, UNCHANGED <<out, accepted, fed>>,
         queue' = Tail(queue), frame' = Head(queue), frame = NoFrame
  PROVE  SelectionInv'
<1>1. /\ Head(queue) = queue[1] /\ Len(queue') = Len(queue) - 1
      /\ Len(queue) \in Nat /\ Len(queue) > 0
      /\ \A k \in 1 .. Len(queue') : queue'[k] = queue[k + 1]
  BY HeadTailProperties, LenProperties, EmptySeq DEF TypeOK, FramesTypeOK
<1>2. NewInQueue(1)
  BY <1>1 DEF SelectionInv, QueueInv
<1>3. ASSUME NEW k \in 1 .. Len(queue') PROVE NewInQueue(k)'
  <2>1. k + 1 \in 1 .. Len(queue) /\ 1 \in 1 .. (k + 1) - 1
    BY <1>1
  <2>2. NewInQueue(k + 1) /\ queue'[k] = queue[k + 1]
    BY <1>1, <2>1 DEF SelectionInv, QueueInv
  <2>3. ASSUME NEW j \in 1 .. k - 1 PROVE queue'[j].id < queue'[k].id
    <3>1. j \in 1 .. Len(queue') /\ j + 1 \in 1 .. (k + 1) - 1
      BY <1>1, <2>1
    <3>2. QED
      BY <1>1, <2>2, <3>1 DEF NewInQueue
  <2>4. frame'.id < queue'[k].id
    BY <1>1, <2>1, <2>2 DEF NewInQueue
  <2>5. QED
    BY <2>2, <2>3, <2>4 DEF NewInQueue, Fed, Was
<1>4. HandInv'
  BY <1>1, <1>2 DEF HandInv, NewInQueue, Fed, Was
<1>5. QED
  BY <1>3, <1>4 DEF SelectionInv, OutInv, QueueInv, Fed, Was

LEMMA SelectionWrites ==
  ASSUME TypeOK, SelectionInv, frame # NoFrame, UNCHANGED <<queue, accepted, fed>>,
         out' = Append(out, frame), frame' = NoFrame
  PROVE  SelectionInv'
<1>1. /\ Len(out') = Len(out) + 1 /\ Len(out) \in Nat /\ out'[Len(out) + 1] = frame
      /\ \A i \in 1 .. Len(out) : out'[i] = out[i]
  BY AppendProperties, LenProperties DEF TypeOK, FramesTypeOK
<1>2. \A i \in 1 .. Len(out') : i \in 1 .. Len(out) \/ i = Len(out) + 1
  BY <1>1
<1>3. Fed(frame) /\ \A i \in 1 .. Len(out) : Fed(out[i])
  BY DEF SelectionInv, HandInv, OutInv
<1>4. ASSUME NEW i \in 1 .. Len(out') PROVE Fed(out[i])'
  <2>1. Fed(out'[i])
    BY <1>1, <1>2, <1>3
  <2>2. QED
    BY <2>1 DEF Fed, Was
<1>5. ASSUME NEW i \in 1 .. Len(out'), NEW j \in 1 .. Len(out'), i < j
      PROVE  out'[i].id < out'[j].id
  <2>1. i \in 1 .. Len(out)
    BY <1>1, <1>5
  <2>2. CASE j = Len(out) + 1
    BY <1>1, <2>1, <2>2 DEF SelectionInv, HandInv
  <2>3. CASE j \in 1 .. Len(out)
    BY <1>1, <1>5, <2>1, <2>3 DEF SelectionInv, OutInv
  <2>4. QED
    BY <1>2, <2>2, <2>3
<1>6. ASSUME NEW k \in 1 .. Len(queue) PROVE NewInQueue(k)'
  <2>1. NewInQueue(k)
    BY DEF SelectionInv, QueueInv
  <2>2. \A i \in 1 .. Len(out') : out'[i].id < queue[k].id
    BY <1>1, <1>2, <2>1 DEF NewInQueue
  <2>3. QED
    BY <2>1, <2>2 DEF NewInQueue, Fed, Was
<1>7. OutInv'
  BY <1>4, <1>5 DEF OutInv
<1>8. QED
  BY <1>6, <1>7 DEF SelectionInv, HandInv, QueueInv

(* Room takes at most the oldest frame off the queue.                      *)
LEMMA RoomShifts ==
  ASSUME TypeOK
  PROVE  \E d \in {0, 1} :
           /\ Room(queue) \in Seq(QFrame) /\ Len(Room(queue)) \in Nat
           /\ Len(Room(queue)) = Len(queue) - d /\ Len(queue) \in Nat
           /\ \A k \in 1 .. Len(Room(queue)) : Room(queue)[k] = queue[k + d]
<1>1. queue \in Seq(QFrame) /\ Len(queue) \in Nat
  BY LenProperties DEF TypeOK, FramesTypeOK
<1>2. CASE Len(queue) >= BufferFrames
  <2>1. queue # <<>> /\ Room(queue) = Tail(queue)
    BY <1>1, <1>2, BufferAssumption, EmptySeq
  <2>2. /\ Tail(queue) \in Seq(QFrame) /\ Len(Tail(queue)) = Len(queue) - 1
        /\ Len(queue) > 0
        /\ \A k \in 1 .. Len(Tail(queue)) : Tail(queue)[k] = queue[k + 1]
    BY <1>1, <2>1, HeadTailProperties, EmptySeq
  <2>3. /\ Room(queue) \in Seq(QFrame) /\ Len(Room(queue)) = Len(queue) - 1
        /\ \A k \in 1 .. Len(Room(queue)) : Room(queue)[k] = queue[k + 1]
    BY <2>1, <2>2, Zenon
  <2> HIDE DEF Room
  <2>4. Len(Room(queue)) \in Nat
    BY <1>1, <2>2, <2>3
  <2> WITNESS 1 \in {0, 1}
  <2>5. QED
    BY <1>1, <2>3, <2>4
<1>3. CASE ~(Len(queue) >= BufferFrames)
  <2>1. Room(queue) = queue
    BY <1>3
  <2> HIDE DEF Room
  <2>2. /\ Room(queue) \in Seq(QFrame) /\ Len(Room(queue)) \in Nat
        /\ Len(Room(queue)) = Len(queue) - 0
        /\ \A k \in 1 .. Len(Room(queue)) : Room(queue)[k] = queue[k + 0]
    BY <1>1, <2>1
  <2> WITNESS 0 \in {0, 1}
  <2>3. QED
    BY <1>1, <2>2
<1>4. QED
  BY <1>2, <1>3

LEMMA SelectionGrows ==
  ASSUME TypeOK, SelectionInv, NEW f \in QFrame, f.id = fed + 1,
         fed' = fed + 1, accepted' = Append(accepted, f),
         queue' = Append(Room(queue), f), UNCHANGED <<frame, out>>
  PROVE  SelectionInv'
<1>1. PICK d \in {0, 1} :
        /\ Room(queue) \in Seq(QFrame) /\ Len(Room(queue)) \in Nat
        /\ Len(Room(queue)) = Len(queue) - d /\ Len(queue) \in Nat
        /\ \A k \in 1 .. Len(Room(queue)) : Room(queue)[k] = queue[k + d]
  BY RoomShifts
<1> HIDE DEF Room
<1> DEFINE room == Room(queue)
<1>2. /\ Len(queue') = Len(room) + 1 /\ queue'[Len(room) + 1] = f
      /\ \A k \in 1 .. Len(room) : queue'[k] = room[k]
  BY <1>1, AppendProperties
<1>3. /\ Len(accepted') = Len(accepted) + 1 /\ accepted'[Len(accepted) + 1] = f
      /\ Len(accepted) \in Nat
      /\ \A j \in 1 .. Len(accepted) : accepted'[j] = accepted[j]
  BY AppendProperties, LenProperties DEF TypeOK, FramesTypeOK
<1>4. fed \in Nat /\ \A g \in QFrame : g.id \in Nat
  BY DEF TypeOK, SessionTypeOK, QFrame
<1>5. \A g : Was(g) => Was(g)'
  BY <1>3 DEF Was
<1>6. /\ frame # NoFrame => frame \in QFrame
      /\ \A i \in 1 .. Len(out) : out[i] \in QFrame
      /\ \A k \in 1 .. Len(queue) : queue[k] \in QFrame
  BY ElementOfSeq DEF TypeOK, FramesTypeOK
<1>7. ASSUME NEW g \in QFrame, Fed(g) PROVE Fed(g)' /\ g.id < fed + 1
  BY <1>4, <1>5, <1>7 DEF Fed
<1>8. Fed(f)'
  BY <1>3, <1>4 DEF Fed, Was
<1>9. ASSUME NEW i \in 1 .. Len(out) PROVE Fed(out[i])' /\ out[i].id < fed + 1
  BY <1>6, <1>7 DEF SelectionInv, OutInv
<1>10. frame # NoFrame => Fed(frame)' /\ frame.id < fed + 1
  BY <1>6, <1>7 DEF SelectionInv, HandInv
<1>11. ASSUME NEW k \in 1 .. Len(room)
       PROVE  /\ k + d \in 1 .. Len(queue) /\ NewInQueue(k + d)
              /\ queue'[k] = queue[k + d] /\ queue[k + d] \in QFrame
  BY <1>1, <1>2, <1>6 DEF SelectionInv, QueueInv
<1>12. ASSUME NEW k \in 1 .. Len(room)
       PROVE  /\ NewInQueue(k)'
              /\ queue'[k].id < fed + 1
  <2>1. PICK g \in QFrame : g = queue[k + d]
    BY <1>11
  <2>2. /\ queue'[k] = g /\ Fed(g) /\ (frame # NoFrame => frame.id < g.id)
        /\ \A i \in 1 .. Len(out) : out[i].id < g.id
        /\ \A j \in 1 .. (k + d) - 1 : queue[j].id < g.id
    BY <1>11, <2>1 DEF NewInQueue
  <2>3. Fed(g)' /\ g.id < fed + 1
    BY <1>7, <2>2
  <2>4. ASSUME NEW j \in 1 .. k - 1 PROVE queue'[j].id < g.id
    <3>1. j \in 1 .. Len(room) /\ j + d \in 1 .. (k + d) - 1
      BY <1>1
    <3>2. queue'[j] = queue[j + d]
      BY <1>11, <3>1
    <3>3. QED
      BY <2>2, <3>1, <3>2
  <2>5. Fed(queue[k])'
    BY <2>2, <2>3 DEF Fed, Was
  <2>6. QED
    BY <2>2, <2>3, <2>4, <2>5 DEF NewInQueue
<1>13. ASSUME NEW k, k = Len(room) + 1 PROVE NewInQueue(k)'
  <2>1. \A j \in 1 .. k - 1 : queue'[j].id < fed + 1
    BY <1>1, <1>12, <1>13
  <2>2. Fed(queue[k])'
    BY <1>2, <1>8, <1>13 DEF Fed, Was
  <2>3. QED
    BY <1>2, <1>9, <1>10, <1>13, <2>1, <2>2 DEF NewInQueue
<1>14. QueueInv'
  <2> SUFFICES ASSUME NEW k \in 1 .. Len(queue') PROVE NewInQueue(k)'
    BY DEF QueueInv
  <2>1. k \in 1 .. Len(room) \/ k = Len(room) + 1
    BY <1>1, <1>2
  <2>2. QED
    BY <1>12, <1>13, <2>1
<1>15. OutInv' /\ HandInv'
  BY <1>9, <1>10 DEF SelectionInv, OutInv, HandInv
<1>16. QED
  BY <1>14, <1>15 DEF SelectionInv

LEMMA SelectionStep ==
  TypeOK /\ HandOK /\ SelectionInv /\ [Next]_vars => SelectionInv'
<1> SUFFICES ASSUME TypeOK, HandOK, SelectionInv, [Next]_vars PROVE SelectionInv'
  OBVIOUS
<1>1. CASE FeedRaw \/ FeedJpeg
  <2>1. PICK key \in BOOLEAN : PushFrame(key)
    BY <1>1 DEF FeedRaw, FeedJpeg
  <2> DEFINE f == [id |-> fed + 1, key |-> key]
  <2>2. f \in QFrame /\ f.id = fed + 1 /\ fed \in Nat
    BY DEF TypeOK, SessionTypeOK, QFrame
  <2>3. CASE rec_state = "Paused"
    <3>1. /\ fed' = fed + 1 /\ UNCHANGED <<queue, accepted, frame, out>>
      BY <2>1, <2>3 DEF PushFrame
    <3>2. /\ frame # NoFrame => frame.id \in Nat
          /\ \A i \in 1 .. Len(out) : out[i].id \in Nat
          /\ \A k \in 1 .. Len(queue) : queue[k].id \in Nat
      <4>1. \A g \in QFrame : g.id \in Nat
        BY DEF QFrame
      <4>2. QED
        BY <4>1, ElementOfSeq DEF TypeOK, FramesTypeOK
    <3>3. OutInv' /\ HandInv'
      BY <2>2, <3>1, <3>2 DEF SelectionInv, OutInv, HandInv, Fed, Was
    <3>4. QueueInv'
      BY <2>2, <3>1, <3>2 DEF SelectionInv, QueueInv, NewInQueue, Fed, Was
    <3>5. QED
      BY <3>3, <3>4 DEF SelectionInv
  <2>4. CASE rec_state = "Recording"
    <3>1. /\ fed' = fed + 1 /\ accepted' = Append(accepted, f)
          /\ queue' = Append(Room(queue), f) /\ UNCHANGED <<frame, out>>
      BY <2>1, <2>4 DEF PushFrame
    <3>2. QED
      BY <2>2, <3>1, SelectionGrows
  <2>5. QED
    BY <2>1, <2>3, <2>4 DEF PushFrame
<1>2. CASE WriterTake
  <2>1. UNCHANGED <<out, accepted, fed>> /\ frame = NoFrame
    BY <1>2 DEF WriterTake, HandOK
  <2>2. \/ UNCHANGED <<queue, frame>>
        \/ queue # <<>> /\ queue' = Tail(queue) /\ frame' = Head(queue)
    BY <1>2 DEF WriterTake
  <2>3. QED
    BY <2>1, <2>2, SelectionKept, SelectionTakes
<1>3. CASE WriterSkipsFrame \/ WriterStartsEncoder \/ ClearAfterJoin
  BY <1>3, SelectionKept DEF WriterSkipsFrame, WriterStartsEncoder, ClearAfterJoin
<1>4. CASE WriterWrite
  <2>1. UNCHANGED <<queue, accepted, fed>> /\ frame' = NoFrame /\ frame # NoFrame
    BY <1>4 DEF WriterWrite, HandOK
  <2>2. out' = out \/ out' = Append(out, frame)
    BY <1>4 DEF WriterWrite
  <2>3. QED
    BY <2>1, <2>2, SelectionKept, SelectionWrites
<1>5. CASE StartRecording
  BY <1>5 DEF StartRecording, SelectionInv, OutInv, HandInv, QueueInv
<1>6. CASE ~Moves
  BY <1>6, OthersMoveNothing, SelectionKept
<1>7. QED
  BY <1>1, <1>2, <1>3, <1>4, <1>5, <1>6 DEF Moves

(* Groups of steps that touch neither the writer nor the session. *)
ApiWaits == \/ InitRecorder \/ StartTerminates \/ SaveRecording \/ DiscardRecording
            \/ StopForDiscard \/ JoinWriter \/ ClearAfterJoin \/ ResetCounters
            \/ Detach \/ Free \/ Over \/ UNCHANGED vars

LEMMA ApiTouchesNoSession ==
  ASSUME ApiWaits
  PROVE  UNCHANGED <<session, wpc, writer, encoder, files, out, accepted, fed>>
<1>1. CASE \/ InitRecorder \/ StartTerminates \/ SaveRecording \/ DiscardRecording
  BY <1>1 DEF InitRecorder, StartTerminates, SaveRecording, DiscardRecording
<1>2. CASE StopForDiscard \/ JoinWriter \/ ClearAfterJoin \/ ResetCounters
  BY <1>2 DEF StopForDiscard, JoinWriter, ClearAfterJoin, ResetCounters
<1>3. CASE Detach \/ Free \/ Over \/ UNCHANGED vars
  BY <1>3 DEF Detach, Free, Over, vars
<1>4. QED
  BY <1>1, <1>2, <1>3 DEF ApiWaits

LEMMA CopiesStep == CopiesInv /\ [Next]_vars => CopiesInv'
<1> SUFFICES ASSUME CopiesInv, [Next]_vars PROVE CopiesInv'
  OBVIOUS
<1> USE DEF CopiesInv, WriterRuns
<1>1. CASE FeedRaw \/ FeedJpeg
  BY <1>1, FeedFrame
<1>2. CASE PauseRecording \/ ResumeRecording \/ EncoderDies \/ EncoderStops \/ RemoveFile
  BY <1>2 DEF PauseRecording, ResumeRecording, EncoderDies, EncoderStops, RemoveFile
<1>3. CASE \/ WriterBegin \/ WriterTake \/ WriterSkipsFrame \/ WriterStartsEncoder
  BY <1>3 DEF WriterBegin, WriterTake, WriterSkipsFrame, WriterStartsEncoder
<1>4. CASE WriterWrite \/ WriterFinish \/ WriterIdle
  BY <1>4 DEF WriterWrite, WriterFinish, WriterIdle
<1>5. CASE StartRecording
  BY <1>5 DEF StartRecording
<1>6. CASE ApiWaits
  BY <1>6, ApiTouchesNoSession
<1>7. QED
  BY <1>1, <1>2, <1>3, <1>4, <1>5, <1>6 DEF Next, ApiWaits

LEMMA FirstFrameStep ==
  TypeOK /\ CopiesInv /\ FirstFrameInv /\ [Next]_vars => FirstFrameInv'
<1> SUFFICES ASSUME TypeOK, CopiesInv, FirstFrameInv, [Next]_vars PROVE FirstFrameInv'
  OBVIOUS
<1> USE DEF FirstFrameInv
<1>1. CASE FeedRaw \/ FeedJpeg
  BY <1>1, FeedFrame
<1>2. CASE PauseRecording \/ ResumeRecording \/ EncoderDies \/ EncoderStops \/ RemoveFile
  BY <1>2 DEF PauseRecording, ResumeRecording, EncoderDies, EncoderStops, RemoveFile
<1>3. CASE WriterBegin
  BY <1>3 DEF WriterBegin
<1>4. CASE WriterTake \/ WriterSkipsFrame \/ WriterFinish \/ WriterIdle
  BY <1>4 DEF WriterTake, WriterSkipsFrame, WriterFinish, WriterIdle
<1>5. CASE WriterStartsEncoder
  BY <1>5 DEF WriterStartsEncoder
<1>6. CASE WriterWrite
  <2>1. CASE out' = out
    BY <1>6, <2>1, AppendProperties DEF WriterWrite
  <2>2. CASE out' = Append(out, frame)
    <3>1. /\ wpc = "write" /\ fmt = rec_fmt /\ frame \in QFrame \cup {NoFrame}
          /\ wpc' \in {"wait", "finish"} /\ UNCHANGED <<rec_fmt, ffp_started, fmt>>
          /\ ffp_started
      BY <1>6 DEF WriterWrite, CopiesInv, WriterRuns, TypeOK, FramesTypeOK
    <3>2. out \in Seq(QFrame \cup {NoFrame})
      BY SeqMonotonic DEF TypeOK, FramesTypeOK
    <3>3. /\ Len(out') = Len(out) + 1 /\ Len(out) \in Nat /\ out' # <<>>
          /\ out = <<>> => out'[1] = frame
          /\ out # <<>> => out'[1] = out[1]
      <4>1. /\ Len(out') = Len(out) + 1 /\ Len(out) \in Nat
            /\ out'[Len(out) + 1] = frame
            /\ \A i \in 1 .. Len(out) : out'[i] = out[i]
        BY <2>2, <3>1, <3>2, AppendProperties, LenProperties
      <4>2. out # <<>> => Len(out) > 0
        BY <3>2, <4>1, EmptySeq
      <4>3. QED
        BY <4>1, <4>2
    <3>4. QED
      BY <3>1, <3>3
  <2>3. QED
    BY <1>6, <2>1, <2>2 DEF WriterWrite
<1>7. CASE StartRecording
  BY <1>7 DEF StartRecording
<1>8. CASE ApiWaits
  BY <1>8, ApiTouchesNoSession
<1>9. QED
  BY <1>1, <1>2, <1>3, <1>4, <1>5, <1>6, <1>7, <1>8 DEF Next, ApiWaits

LEMMA FileStep ==
  TypeOK /\ ThreadInv /\ CopiesInv /\ FirstFrameInv /\ FileInv /\ [Next]_vars => FileInv'
<1> SUFFICES ASSUME TypeOK, ThreadInv, CopiesInv, FirstFrameInv, FileInv, [Next]_vars
             PROVE  FileInv'
  OBVIOUS
<1> USE DEF FileInv
<1>1. CASE FeedRaw \/ FeedJpeg
  BY <1>1, FeedFrame
<1>2. CASE PauseRecording \/ ResumeRecording \/ EncoderDies \/ EncoderStops
  BY <1>2 DEF PauseRecording, ResumeRecording, EncoderDies, EncoderStops
<1>3. CASE WriterBegin
  BY <1>3 DEF WriterBegin, FirstFrameInv
<1>4. CASE WriterTake \/ WriterSkipsFrame \/ WriterWrite \/ WriterFinish \/ WriterIdle
  BY <1>4 DEF WriterTake, WriterSkipsFrame, WriterWrite, WriterFinish, WriterIdle,
              FirstFrameInv
<1>5. CASE WriterStartsEncoder
  BY <1>5 DEF WriterStartsEncoder, FirstFrameInv, CopiesInv, WriterRuns, TypeOK,
              ThreadsTypeOK
<1>6. CASE StartRecording
  BY <1>6 DEF StartRecording
<1>7. CASE RemoveFile
  BY <1>7 DEF RemoveFile, TypeOK, ThreadsTypeOK, CopiesInv, WriterRuns
<1>8. CASE ApiWaits
  BY <1>8, ApiTouchesNoSession
<1>9. QED
  BY <1>1, <1>2, <1>3, <1>4, <1>5, <1>6, <1>7, <1>8 DEF Next, ApiWaits

LEMMA DiscardStep ==
  ThreadInv /\ RequestInv /\ AccountInv /\ DiscardInv /\ [Next]_vars => DiscardInv'
<1> SUFFICES ASSUME ThreadInv, RequestInv, AccountInv, DiscardInv, [Next]_vars
             PROVE  DiscardInv'
  OBVIOUS
<1> USE DEF DiscardInv, Discards
<1>1. CASE FeedRaw \/ FeedJpeg
  BY <1>1, FeedFrame
<1>2. CASE PauseRecording \/ ResumeRecording \/ EncoderDies \/ EncoderStops
  BY <1>2 DEF PauseRecording, ResumeRecording, EncoderDies, EncoderStops
<1>3. CASE WriterBegin \/ WriterSkipsFrame \/ WriterStartsEncoder
  BY <1>3 DEF WriterBegin, WriterSkipsFrame, WriterStartsEncoder
<1>4. CASE WriterTake
  BY <1>4 DEF WriterTake, RequestInv
<1>5. CASE WriterWrite \/ WriterFinish \/ WriterIdle
  BY <1>5 DEF WriterWrite, WriterFinish, WriterIdle
<1>6. CASE StartRecording
  BY <1>6 DEF StartRecording, MayStart
<1>7. CASE InitRecorder \/ StartTerminates \/ SaveRecording
  BY <1>7 DEF InitRecorder, StartTerminates, SaveRecording
<1>8. CASE DiscardRecording
  BY <1>8 DEF DiscardRecording, RequestInv, AccountInv, ThreadInv, WriterRuns
<1>9. CASE StopForDiscard
  BY <1>9 DEF StopForDiscard
<1>10. CASE JoinWriter \/ ClearAfterJoin \/ ResetCounters \/ RemoveFile
  BY <1>10 DEF JoinWriter, ClearAfterJoin, ResetCounters, RemoveFile
<1>11. CASE Detach \/ Free \/ Over \/ UNCHANGED vars
  BY <1>11 DEF Detach, Free, Over, vars
<1>12. QED
  BY <1>1, <1>2, <1>3, <1>4, <1>5, <1>6, <1>7, <1>8, <1>9, <1>10, <1>11 DEF Next

THEOREM RecorderKeepsInv == Spec => [](RecorderInv /\ SessionInv)
<1>1. Init => SessionInv
  BY DEF Init, SessionInv, SelectionInv, OutInv, HandInv, QueueInv, CopiesInv,
         WriterRuns, FirstFrameInv, FileInv, DiscardInv, Discards
<1>2. RecorderInv /\ SessionInv /\ [Next]_vars => SessionInv'
  BY SelectionStep, CopiesStep, FirstFrameStep, FileStep, DiscardStep
  DEF RecorderInv, SessionInv
<1>3. QED
  BY <1>1, <1>2, RecorderInvariant, PTL DEF Spec

LEMMA AscendingConcat ==
  ASSUME NEW s \in Seq(QFrame), NEW t \in Seq(QFrame), Ascending(s), Ascending(t),
         \A i \in 1 .. Len(s), j \in 1 .. Len(t) : s[i].id < t[j].id
  PROVE  Ascending(s \o t)
<1>1. Len(s) \in Nat /\ Len(t) \in Nat
  BY LenProperties
<1> DEFINE u == s \o t
<1>2. /\ Len(u) = Len(s) + Len(t)
      /\ \A i \in 1 .. Len(s) + Len(t) :
           u[i] = IF i <= Len(s) THEN s[i] ELSE t[i - Len(s)]
  BY ConcatProperties
<1> HIDE DEF u
<1>3. ASSUME NEW i \in 1 .. Len(u), NEW j \in 1 .. Len(u), i < j PROVE u[i].id < u[j].id
  <2>1. CASE j <= Len(s)
    <3>1. i \in 1 .. Len(s) /\ j \in 1 .. Len(s) /\ u[i] = s[i] /\ u[j] = s[j]
      BY <1>1, <1>2, <1>3, <2>1
    <3>2. QED
      BY <1>3, <3>1 DEF Ascending
  <2>2. CASE i <= Len(s) /\ ~(j <= Len(s))
    <3>1. i \in 1 .. Len(s) /\ j - Len(s) \in 1 .. Len(t) /\ u[i] = s[i] /\ u[j] = t[j - Len(s)]
      BY <1>1, <1>2, <2>2
    <3>2. QED
      BY <3>1
  <2>3. CASE ~(i <= Len(s))
    <3>1. /\ i - Len(s) \in 1 .. Len(t) /\ j - Len(s) \in 1 .. Len(t)
          /\ i - Len(s) < j - Len(s) /\ u[i] = t[i - Len(s)] /\ u[j] = t[j - Len(s)]
      BY <1>1, <1>2, <1>3, <2>3
    <3>2. QED
      BY <3>1 DEF Ascending
  <2>4. QED
    BY <1>1, <1>2, <1>3, <2>1, <2>2, <2>3
<1>4. QED
  BY <1>3 DEF Ascending, u

(* What is in the file, in the writer's hand and on the queue is, in this  *)
(* order, a selection of the frames that this session accepted, without    *)
(* repetition; and an MP4 file begins with a frame that starts a decoder.  *)
THEOREM OutputSelected == Spec => []OutputIsSelection
<1>1. RecorderInv /\ SessionInv => OutputIsSelection
  <2> SUFFICES ASSUME RecorderInv, SessionInv PROVE OutputIsSelection
    OBVIOUS
  <2>1. /\ out \in Seq(QFrame) /\ queue \in Seq(QFrame) /\ InHand \in Seq(QFrame)
        /\ Len(out) \in Nat /\ Len(queue) \in Nat
    BY LenProperties DEF RecorderInv, TypeOK, FramesTypeOK, InHand
  <2>2. \/ InHand = <<>> /\ Len(InHand) = 0
        \/ frame # NoFrame /\ Len(InHand) = 1 /\ InHand[1] = frame
    <3>1. CASE frame = NoFrame
      BY <3>1 DEF InHand
    <3>2. CASE frame # NoFrame
      BY <3>2 DEF InHand
    <3>3. QED
      BY <3>1, <3>2
  <2>3. Ascending(InHand \o queue)
    <3>1. Ascending(InHand)
      BY <2>2 DEF Ascending
    <3>2. Ascending(queue)
      BY <2>1 DEF SessionInv, SelectionInv, QueueInv, NewInQueue, Ascending
    <3>3. \A i \in 1 .. Len(InHand), j \in 1 .. Len(queue) : InHand[i].id < queue[j].id
      BY <2>2 DEF SessionInv, SelectionInv, QueueInv, NewInQueue
    <3>4. QED
      BY <2>1, <3>1, <3>2, <3>3, AscendingConcat
  <2> DEFINE line == InHand \o queue
  <2>4. /\ line \in Seq(QFrame) /\ Len(line) = Len(InHand) + Len(queue)
        /\ \A i \in 1 .. Len(InHand) + Len(queue) :
             line[i] = IF i <= Len(InHand) THEN InHand[i] ELSE queue[i - Len(InHand)]
    BY <2>1, ConcatProperties
  <2>5. \A i \in 1 .. Len(out), j \in 1 .. Len(line) : out[i].id < line[j].id
    <3> SUFFICES ASSUME NEW i \in 1 .. Len(out), NEW j \in 1 .. Len(line)
                 PROVE  out[i].id < line[j].id
      OBVIOUS
    <3>1. CASE j <= Len(InHand)
      <4>1. line[j] = frame /\ frame # NoFrame
        BY <2>1, <2>2, <2>4, <3>1
      <4>2. QED
        BY <4>1 DEF SessionInv, SelectionInv, HandInv
    <3>2. CASE ~(j <= Len(InHand))
      <4>1. PICK k \in 1 .. Len(queue) : line[j] = queue[k]
        BY <2>1, <2>2, <2>4, <3>2
      <4>2. QED
        BY <4>1 DEF SessionInv, SelectionInv, QueueInv, NewInQueue
    <3>3. QED
      BY <3>1, <3>2
  <2>6. Ascending(out \o line)
    <3>1. Ascending(out)
      BY DEF SessionInv, SelectionInv, OutInv, Ascending
    <3>2. QED
      BY <2>1, <2>3, <2>4, <2>5, <3>1, AscendingConcat
  <2>7. Ascending(out \o InHand \o queue)
    <3>1. (out \o InHand) \o queue = out \o (InHand \o queue)
      BY <2>1, ConcatAssociative
    <3>2. QED
      BY <2>6, <3>1
  <2>8. QED
    BY <2>7 DEF OutputIsSelection, SessionInv, SelectionInv, OutInv, Fed, Was,
                FirstFrameInv
<1>2. QED
  BY <1>1, RecorderKeepsInv, PTL
-----------------------------------------------------------------------------
(* The recorder implements RecordingSession: the refinement mapping of     *)
(* VideoRecorder.RS under short names, and what each step is there.        *)

Phase  == IF rec_state = "Idle" THEN "idle"
          ELSE IF q_stop \/ q_abort THEN "closing" ELSE "open"
Line   == IF rec_state = "Idle" THEN <<>> ELSE InHand \o queue
Result == IF Saved THEN "saved" ELSE IF wpc = "exited" THEN "failed" ELSE "none"

USE DEF RS!Without

LEMMA RSStutters ==
  UNCHANGED <<Phase, Line, out, Result>> => [RS!Next]_(RS!rsvars)
BY DEF Phase, Line, Result, RS!rsvars

LEMMA RSAccepts ==
  ASSUME Phase = "open", Line' # <<>>, Line'[Len(Line')] \in QFrame,
         \/ SubSeq(Line', 1, Len(Line') - 1) = Line
         \/ \E i \in 1 .. Len(Line) :
              SubSeq(Line', 1, Len(Line') - 1)
                = SubSeq(Line, 1, i - 1) \o SubSeq(Line, i + 1, Len(Line)),
         UNCHANGED <<Phase, out, Result>>
  PROVE  RS!Next
BY DEF Phase, Line, Result, RS!Accept, RS!Next

LEMMA RSGivesUp ==
  ASSUME Phase # "idle", UNCHANGED <<Phase, out, Result>>,
         \E i \in 1 .. Len(Line) :
           Line' = SubSeq(Line, 1, i - 1) \o SubSeq(Line, i + 1, Len(Line))
  PROVE  RS!Next
BY DEF Phase, Line, Result, RS!GiveUp, RS!Next

LEMMA RSDelivers ==
  ASSUME Phase # "idle", Line # <<>>, out' = Append(out, Head(Line)),
         Line' = Tail(Line), UNCHANGED <<Phase, Result>>
  PROVE  RS!Next
BY DEF Phase, Line, Result, RS!Deliver, RS!Next

LEMMA RSOpens ==
  ASSUME Phase = "idle", Phase' = "open", Line' = <<>>, out' = <<>>, Result' = "none"
  PROVE  RS!Next
BY DEF Phase, Line, Result, RS!Open, RS!Next

LEMMA RSCloses ==
  ASSUME Phase = "open", Phase' = "closing", UNCHANGED <<Line, out, Result>>
  PROVE  RS!Next
BY DEF Phase, Line, Result, RS!Close, RS!Next

LEMMA RSSaves ==
  ASSUME Phase = "closing", Line = <<>>, Result = "none", Result' = "saved",
         UNCHANGED <<Phase, Line, out>>
  PROVE  RS!Next
BY DEF Phase, Line, Result, RS!Save, RS!Next

LEMMA RSEnds ==
  ASSUME Phase # "idle", Phase' = "idle", Line' = <<>>, UNCHANGED out,
         Result' = IF Result = "saved" THEN "saved" ELSE "failed"
  PROVE  RS!Next
BY DEF Phase, Line, Result, RS!End, RS!Next

(* Sequences of frames: the first, the last, and all but one.              *)
LEMMA FirstAndRest ==
  ASSUME NEW f \in QFrame, NEW q \in Seq(QFrame)
  PROVE  LET w == <<f>> \o q
         IN  /\ w \in Seq(QFrame) /\ w # <<>> /\ Head(w) = f /\ Tail(w) = q
             /\ 1 \in 1 .. Len(w)
             /\ SubSeq(w, 1, 1 - 1) \o SubSeq(w, 1 + 1, Len(w)) = q
<1> DEFINE w == <<f>> \o q
<1>1. <<f>> \in Seq(QFrame) /\ Len(<<f>>) = 1 /\ <<f>>[1] = f /\ Len(q) \in Nat
  BY LenProperties
<1>2. /\ w \in Seq(QFrame) /\ Len(w) = 1 + Len(q)
      /\ w[1] = f /\ \A i \in 1 .. Len(q) : w[i + 1] = q[i]
  BY <1>1, ConcatProperties
<1> HIDE DEF w
<1>3. w # <<>> /\ 1 \in 1 .. Len(w) /\ Head(w) = f
  BY <1>1, <1>2
<1>4. Tail(w) = q
  <2>1. /\ Tail(w) \in Seq(QFrame) /\ Len(Tail(w)) = Len(q)
        /\ \A i \in 1 .. Len(Tail(w)) : Tail(w)[i] = w[i + 1]
    BY <1>1, <1>2, <1>3, HeadTailProperties
  <2>2. QED
    BY <1>2, <2>1, SeqEqual
<1>5. SubSeq(w, 1, 1 - 1) = <<>> /\ SubSeq(w, 1 + 1, Len(w)) = q
  BY <1>2, <1>3, <1>4, TailIsSubSeq, SubSeqEmpty
<1>6. QED
  BY <1>2, <1>3, <1>4, <1>5, ConcatEmptySeq DEF w

LEMMA FrontAndLast ==
  ASSUME NEW w \in Seq(QFrame), NEW f \in QFrame
  PROVE  LET v == Append(w, f)
         IN  v # <<>> /\ v[Len(v)] = f /\ SubSeq(v, 1, Len(v) - 1) = w
<1> DEFINE v == Append(w, f)
<1>1. /\ v \in Seq(QFrame) /\ Len(v) = Len(w) + 1 /\ Len(w) \in Nat
      /\ v[Len(w) + 1] = f /\ \A i \in 1 .. Len(w) : v[i] = w[i]
  BY AppendProperties, LenProperties
<1> HIDE DEF v
<1>2. \A i \in 1 .. Len(w) : v[i] \in QFrame
  BY <1>1, ElementOfSeq
<1>3. /\ SubSeq(v, 1, Len(w)) \in Seq(QFrame) /\ Len(SubSeq(v, 1, Len(w))) = Len(w)
      /\ \A i \in 1 .. Len(w) : SubSeq(v, 1, Len(w))[i] = v[i]
  BY <1>1, <1>2, SubSeqProperties
<1>4. SubSeq(v, 1, Len(w)) = w
  BY <1>1, <1>3, SeqEqual
<1>5. v # <<>> /\ v[Len(v)] = f /\ Len(v) - 1 = Len(w)
  BY <1>1
<1>6. QED
  BY <1>4, <1>5 DEF v

LEMMA AllButOne ==
  ASSUME NEW s \in Seq(QFrame), NEW t \in Seq(QFrame), NEW i \in 1 .. Len(s),
         Len(t) = Len(s) - 1, \A j \in 1 .. i - 1 : t[j] = s[j],
         \A j \in i .. Len(t) : t[j] = s[j + 1]
  PROVE  t = SubSeq(s, 1, i - 1) \o SubSeq(s, i + 1, Len(s))
<1>1. Len(s) \in Nat /\ Len(t) \in Nat /\ \A j \in 1 .. Len(s) : s[j] \in QFrame
  BY LenProperties, ElementOfSeq
<1> DEFINE a == SubSeq(s, 1, i - 1)
           b == SubSeq(s, i + 1, Len(s))
<1>2. /\ a \in Seq(QFrame) /\ Len(a) = i - 1
      /\ \A j \in 1 .. i - 1 : a[j] = s[j]
  BY <1>1, SubSeqProperties
<1>3. /\ b \in Seq(QFrame) /\ Len(b) = Len(s) - i
      /\ \A j \in 1 .. Len(s) - i : b[j] = s[i + j]
  <2>1. /\ b \in Seq(QFrame)
        /\ Len(b) = IF i + 1 <= Len(s) THEN Len(s) - (i + 1) + 1 ELSE 0
        /\ \A j \in 1 .. Len(s) - (i + 1) + 1 : b[j] = s[i + 1 + j - 1]
    BY <1>1, SubSeqProperties
  <2>2. QED
    BY <1>1, <2>1
<1> HIDE DEF a, b
<1>4. /\ a \o b \in Seq(QFrame) /\ Len(a \o b) = Len(s) - 1
      /\ \A j \in 1 .. Len(s) - 1 :
           (a \o b)[j] = IF j <= i - 1 THEN a[j] ELSE b[j - (i - 1)]
  BY <1>1, <1>2, <1>3, ConcatProperties
<1>5. ASSUME NEW j \in 1 .. Len(t) PROVE t[j] = (a \o b)[j]
  <2>1. CASE j <= i - 1
    BY <1>1, <1>2, <1>4, <2>1
  <2>2. CASE ~(j <= i - 1)
    <3>1. /\ j \in i .. Len(t) /\ j - (i - 1) \in 1 .. Len(s) - i
          /\ i + (j - (i - 1)) = j + 1
      BY <1>1, <2>2
    <3>2. QED
      BY <1>1, <1>3, <1>4, <2>2, <3>1
  <2>3. QED
    BY <2>1, <2>2
<1>6. QED
  BY <1>4, <1>5, SeqEqual DEF a, b

(* A frame that is pushed goes to the end of the line; when the queue is   *)
(* full the first one behind the writer's hand is given up for it.         *)
LEMMA PushRefines ==
  ASSUME TypeOK, rec_state = "Recording", Accepts, NEW f \in QFrame,
         queue' = Append(Room(queue), f),
         UNCHANGED <<session, request, wpc, frame, out, Result>>
  PROVE  RS!Next
<1>1. Phase = "open" /\ Phase' = Phase /\ Line = InHand \o queue
      /\ Line' = InHand \o Append(Room(queue), f)
  BY DEF Phase, Line, InHand
<1>2. PICK d \in {0, 1} :
        /\ Room(queue) \in Seq(QFrame) /\ Len(Room(queue)) \in Nat
        /\ Len(Room(queue)) = Len(queue) - d /\ Len(queue) \in Nat
        /\ \A k \in 1 .. Len(Room(queue)) : Room(queue)[k] = queue[k + d]
  BY RoomShifts
<1>3. /\ queue \in Seq(QFrame) /\ InHand \in Seq(QFrame) /\ Len(InHand) \in Nat
  BY LenProperties DEF TypeOK, FramesTypeOK, InHand
<1> DEFINE room == Room(queue)
           w    == InHand \o room
<1> HIDE DEF Room, room
<1>4. /\ w \in Seq(QFrame) /\ Len(w) = Len(InHand) + Len(room)
      /\ \A j \in 1 .. Len(InHand) + Len(room) :
           w[j] = IF j <= Len(InHand) THEN InHand[j] ELSE room[j - Len(InHand)]
  BY <1>2, <1>3, ConcatProperties DEF room
<1>5. Line' = Append(w, f)
  <2>1. Append(room, f) = room \o <<f>> /\ <<f>> \in Seq(QFrame)
    BY <1>2, AppendIsConcat DEF room
  <2>2. InHand \o (room \o <<f>>) = w \o <<f>>
    BY <1>2, <1>3, <2>1, ConcatAssociative DEF room
  <2>3. w \o <<f>> = Append(w, f)
    BY <1>4, AppendIsConcat
  <2>4. QED
    BY <1>1, <2>1, <2>2, <2>3 DEF room
<1>6. Line' # <<>> /\ Line'[Len(Line')] \in QFrame /\ SubSeq(Line', 1, Len(Line') - 1) = w
  <2> HIDE DEF w
  <2>1. QED
    BY <1>4, <1>5, FrontAndLast
<1>7. /\ Line \in Seq(QFrame) /\ Len(Line) = Len(InHand) + Len(queue)
      /\ \A j \in 1 .. Len(InHand) + Len(queue) :
           Line[j] = IF j <= Len(InHand) THEN InHand[j] ELSE queue[j - Len(InHand)]
  BY <1>1, <1>3, ConcatProperties
<1> HIDE DEF w
<1>8. CASE d = 0
  <2>1. ASSUME NEW j \in 1 .. Len(w) PROVE w[j] = Line[j]
    <3>1. CASE j <= Len(InHand)
      BY <1>2, <1>3, <1>4, <1>7, <3>1 DEF room
    <3>2. CASE ~(j <= Len(InHand))
      <4>1. j - Len(InHand) \in 1 .. Len(room) /\ w[j] = room[j - Len(InHand)]
        BY <1>2, <1>3, <1>4, <3>2 DEF room
      <4>2. room[j - Len(InHand)] = queue[j - Len(InHand)]
        BY <1>2, <1>3, <1>8, <4>1 DEF room
      <4>3. j \in 1 .. Len(InHand) + Len(queue)
        BY <1>2, <1>3, <1>4, <1>8 DEF room
      <4>4. QED
        BY <1>7, <3>2, <4>1, <4>2, <4>3
    <3>3. QED
      BY <3>1, <3>2
  <2>2. w = Line
    BY <1>2, <1>4, <1>7, <1>8, <2>1, SeqEqual DEF room
  <2>3. QED
    BY <1>1, <1>6, <2>2, RSAccepts
<1>9. CASE d = 1
  <2> DEFINE i == Len(InHand) + 1
  <2>1. i \in 1 .. Len(Line) /\ Len(w) = Len(Line) - 1
    BY <1>2, <1>3, <1>4, <1>7, <1>9 DEF room
  <2>2. ASSUME NEW j \in 1 .. i - 1 PROVE w[j] = Line[j]
    <3>1. /\ j \in 1 .. Len(InHand) + Len(room) /\ j \in 1 .. Len(InHand) + Len(queue)
          /\ j <= Len(InHand)
      BY <1>2, <1>3 DEF room
    <3>2. QED
      BY <1>4, <1>7, <3>1
  <2>3. ASSUME NEW j \in i .. Len(w) PROVE w[j] = Line[j + 1]
    <3>1. w[j] = room[j - Len(InHand)] /\ j - Len(InHand) \in 1 .. Len(room)
      BY <1>2, <1>3, <1>4 DEF room
    <3>2. room[j - Len(InHand)] = queue[(j - Len(InHand)) + 1]
      BY <1>2, <1>9, <3>1 DEF room
    <3>3. Line[j + 1] = queue[(j + 1) - Len(InHand)]
      BY <1>2, <1>3, <1>7, <1>9, <2>1, <2>3
    <3>4. (j - Len(InHand)) + 1 = (j + 1) - Len(InHand)
      BY <1>3, <2>3
    <3>5. QED
      BY <3>1, <3>2, <3>3, <3>4
  <2>4. w = SubSeq(Line, 1, i - 1) \o SubSeq(Line, i + 1, Len(Line))
    <3> HIDE DEF i
    <3>1. QED
      BY <1>4, <1>7, <2>1, <2>2, <2>3, AllButOne
  <2>5. QED
    BY <1>1, <1>6, <2>1, <2>4, RSAccepts
<1>10. QED
  BY <1>8, <1>9

(* The frame in the writer's hand is the head of the line.                 *)
LEMMA HeldLine ==
  ASSUME TypeOK
  PROVE  /\ frame = NoFrame => InHand \o queue = queue
         /\ frame # NoFrame =>
              LET w == InHand \o queue
              IN  /\ w # <<>> /\ Head(w) = frame /\ Tail(w) = queue
                  /\ 1 \in 1 .. Len(w)
                  /\ SubSeq(w, 1, 1 - 1) \o SubSeq(w, 1 + 1, Len(w)) = queue
<1>1. queue \in Seq(QFrame) /\ (frame # NoFrame => frame \in QFrame)
  BY DEF TypeOK, FramesTypeOK
<1>2. CASE frame = NoFrame
  BY <1>1, <1>2, ConcatEmptySeq DEF InHand
<1>3. CASE frame # NoFrame
  <2>1. InHand = <<frame>> /\ frame \in QFrame
    BY <1>1, <1>3 DEF InHand
  <2>2. QED
    BY <1>1, <1>3, <2>1, FirstAndRest
<1>4. QED
  BY <1>2, <1>3

(* A step of the writer in which the frame in its hand goes nowhere.       *)
LEMMA LosingRefines ==
  ASSUME TypeOK, ThreadInv, WriterRuns, frame # NoFrame, frame' = NoFrame,
         UNCHANGED <<session, request, queue, out>>, Result = "none", Result' = "none"
  PROVE  RS!Next
<1>1. rec_state # "Idle"
  BY DEF ThreadInv
<1>2. Phase # "idle" /\ Phase' = Phase /\ Line = InHand \o queue
      /\ Line' = queue
  BY <1>1, HeldLine, ConcatEmptySeq DEF Phase, Line, InHand, TypeOK, FramesTypeOK
<1>3. \E i \in 1 .. Len(Line) :
        Line' = SubSeq(Line, 1, i - 1) \o SubSeq(Line, i + 1, Len(Line))
  BY <1>2, HeldLine
<1>4. QED
  BY <1>2, <1>3, RSGivesUp

LEMMA WriterRefines ==
  ASSUME RecorderInv, SessionInv, Writer PROVE [RS!Next]_(RS!rsvars)
<1>1. TypeOK /\ HandOK /\ ThreadInv /\ RequestInv /\ AccountInv /\ CopiesInv /\ FileInv
  BY DEF RecorderInv, SessionInv
<1>2. queue \in Seq(QFrame) /\ (queue # <<>> => Head(queue) # NoFrame)
  BY <1>1, HeadTailProperties, NoFrameAssumption DEF TypeOK, FramesTypeOK
<1> USE DEF WriterRuns
<1>3. CASE WriterBegin
  <2>1. UNCHANGED <<Phase, Line, out, Result>>
    BY <1>3 DEF WriterBegin, Phase, Line, InHand, Result, Saved
  <2>2. QED
    BY <2>1, RSStutters
<1>4. CASE WriterTake
  <2>1. /\ UNCHANGED <<Phase, out, Result>> /\ rec_state # "Idle" /\ rec_state' # "Idle"
        /\ frame = NoFrame
    BY <1>1, <1>4 DEF WriterTake, Phase, Result, Saved, ThreadInv, HandOK
  <2>2. CASE UNCHANGED <<queue, frame>>
    BY <2>1, <2>2, RSStutters DEF Line, InHand
  <2>3. CASE queue # <<>> /\ queue' = Tail(queue) /\ frame' = Head(queue)
    <3>1. Line = queue
      BY <1>1, <2>1, HeldLine DEF Line
    <3>2. Line' = <<Head(queue)>> \o Tail(queue)
      BY <1>2, <2>1, <2>3 DEF Line, InHand
    <3>3. <<Head(queue)>> \o Tail(queue) = queue
      <4>1. /\ Head(queue) \in QFrame /\ Tail(queue) \in Seq(QFrame)
            /\ Len(Tail(queue)) = Len(queue) - 1 /\ Head(queue) = queue[1]
            /\ Len(queue) \in Nat /\ Len(queue) > 0
            /\ \A i \in 1 .. Len(queue) - 1 : Tail(queue)[i] = queue[i + 1]
        BY <1>2, <2>3, HeadTailProperties, LenProperties, EmptySeq
      <4> DEFINE w == <<Head(queue)>> \o Tail(queue)
      <4>2. /\ w \in Seq(QFrame) /\ Head(w) = Head(queue) /\ Tail(w) = Tail(queue) /\ w # <<>>
        BY <4>1, FirstAndRest
      <4> HIDE DEF w
      <4>3. /\ Len(w) = Len(queue) /\ w[1] = queue[1]
            /\ \A i \in 1 .. Len(queue) - 1 : w[i + 1] = queue[i + 1]
        BY <4>1, <4>2, HeadTailProperties, LenProperties
      <4>4. \A i \in 1 .. Len(w) : w[i] = queue[i]
        <5> SUFFICES ASSUME NEW i \in 1 .. Len(w) PROVE w[i] = queue[i]
          OBVIOUS
        <5>1. CASE i = 1
          BY <4>3, <5>1
        <5>2. CASE i # 1
          <6>1. i - 1 \in 1 .. Len(queue) - 1 /\ (i - 1) + 1 = i
            BY <4>1, <4>3, <5>2
          <6>2. QED
            BY <4>3, <6>1
        <5>3. QED
          BY <5>1, <5>2
      <4>5. QED
        BY <1>2, <4>2, <4>3, <4>4, SeqEqual DEF w
    <3>4. QED
      BY <2>1, <3>1, <3>2, <3>3, RSStutters
  <2>4. QED
    BY <1>4, <2>2, <2>3 DEF WriterTake
<1>5. CASE WriterSkipsFrame
  <2>1. /\ WriterRuns /\ frame # NoFrame /\ frame' = NoFrame
        /\ UNCHANGED <<session, request, queue, out>> /\ Result = "none" /\ Result' = "none"
    BY <1>1, <1>5 DEF WriterSkipsFrame, HandOK, Result, Saved
  <2>2. QED
    BY <1>1, <2>1, LosingRefines
<1>6. CASE WriterStartsEncoder
  <2>1. /\ WriterRuns /\ frame # NoFrame /\ frame' \in {frame, NoFrame}
        /\ UNCHANGED <<session, request, queue, out>> /\ Result = "none" /\ Result' = "none"
    BY <1>1, <1>6 DEF WriterStartsEncoder, HandOK, Result, Saved
  <2>2. CASE frame' = frame
    BY <2>1, <2>2, RSStutters DEF Phase, Line, InHand
  <2>3. QED
    BY <1>1, <2>1, <2>2, LosingRefines
<1>7. CASE WriterWrite
  <2>1. /\ WriterRuns /\ frame # NoFrame /\ frame' = NoFrame
        /\ UNCHANGED <<session, request, queue>> /\ Result = "none" /\ Result' = "none"
    BY <1>1, <1>7 DEF WriterWrite, HandOK, Result, Saved
  <2>2. CASE out' = out
    BY <1>1, <2>1, <2>2, LosingRefines
  <2>3. CASE out' = Append(out, frame)
    <3>1. /\ rec_state # "Idle" /\ Line = InHand \o queue /\ Phase # "idle"
          /\ Phase' = Phase /\ Line' = queue
      BY <1>1, <2>1, ConcatEmptySeq
      DEF ThreadInv, Line, Phase, InHand, TypeOK, FramesTypeOK
    <3>2. Line # <<>> /\ Head(Line) = frame /\ Tail(Line) = queue
      BY <1>1, <2>1, <3>1, HeldLine
    <3>3. QED
      BY <2>1, <2>3, <3>1, <3>2, RSDelivers
  <2>4. QED
    BY <1>7, <2>2, <2>3 DEF WriterWrite
<1>8. CASE WriterFinish
  <2>1. /\ wpc = "finish" /\ wpc' = "idle" /\ Result = "none" /\ frame = NoFrame
        /\ UNCHANGED <<session, request, queue, writer, out>> /\ rec_state # "Idle"
    BY <1>1, <1>8 DEF WriterFinish, Result, Saved, HandOK, ThreadInv
  <2>2. UNCHANGED <<Phase, Line>>
    BY <2>1 DEF Phase, Line, InHand
  <2>3. CASE ~Saved'
    <3>1. Result' = "none"
      BY <2>1, <2>3 DEF Result
    <3>2. QED
      BY <2>1, <2>2, <3>1, RSStutters
  <2>4. CASE Saved'
    <3>1. ffp_started /\ ~aborted /\ Result' = "saved"
      BY <2>1, <2>4 DEF Saved, Result
    <3>2. queue = <<>> /\ q_stop
      BY <1>1, <2>1, <3>1 DEF AccountInv
    <3>3. Phase = "closing" /\ Line = <<>>
      BY <1>1, <2>1, <3>2, HeldLine DEF Phase, Line
    <3>4. QED
      BY <2>1, <2>2, <3>1, <3>3, RSSaves
  <2>5. QED
    BY <2>3, <2>4
<1>9. CASE WriterIdle
  <2>1. /\ wpc = "idle" /\ wpc' = "exited" /\ rec_state # "Idle" /\ rec_state' = "Idle"
        /\ UNCHANGED <<writer, files, out>>
    BY <1>1, <1>9 DEF WriterIdle, ThreadInv
  <2>2. Saved' = Saved
    BY <2>1 DEF Saved
  <2>3. QED
    BY <2>1, <2>2, RSEnds DEF Phase, Line, Result
<1>10. QED
  BY <1>3, <1>4, <1>5, <1>6, <1>7, <1>8, <1>9 DEF Writer

LEMMA RecorderRefines ==
  RecorderInv /\ SessionInv /\ [Next]_vars => [RS!Next]_(RS!rsvars)
<1> SUFFICES ASSUME RecorderInv, SessionInv, [Next]_vars PROVE [RS!Next]_(RS!rsvars)
  OBVIOUS
<1>1. TypeOK /\ ThreadInv /\ RequestInv /\ AccountInv /\ DiscardInv
  BY DEF RecorderInv, SessionInv
<1>2. CASE FeedRaw \/ FeedJpeg
  <2>1. PICK key \in BOOLEAN : PushFrame(key)
    BY <1>2 DEF FeedRaw, FeedJpeg
  <2>2. UNCHANGED Result
    BY <1>2, FeedFrame DEF Result, Saved
  <2>3. CASE rec_state = "Paused"
    <3>1. UNCHANGED <<queue, session, request, frame, out>>
      BY <2>1, <2>3 DEF PushFrame
    <3>2. QED
      BY <2>2, <3>1, RSStutters DEF Phase, Line, InHand
  <2>4. CASE rec_state = "Recording"
    <3> DEFINE f == [id |-> fed + 1, key |-> key]
    <3>1. f \in QFrame
      BY <1>1 DEF TypeOK, SessionTypeOK, QFrame
    <3>2. /\ Accepts /\ queue' = Append(Room(queue), f)
          /\ UNCHANGED <<session, request, wpc, frame, out>>
      BY <2>1, <2>4 DEF PushFrame
    <3>3. QED
      BY <1>1, <2>2, <2>4, <3>1, <3>2, PushRefines
  <2>5. QED
    BY <2>1, <2>3, <2>4 DEF PushFrame
<1>3. CASE PauseRecording \/ ResumeRecording \/ EncoderDies \/ EncoderStops
  <2>1. UNCHANGED <<Phase, Line, out, Result>>
    BY <1>3 DEF PauseRecording, ResumeRecording, EncoderDies, EncoderStops, Phase, Line,
                InHand, Result, Saved
  <2>2. QED
    BY <2>1, RSStutters
<1>4. CASE Writer
  BY <1>4, WriterRefines
<1>5. CASE StartRecording
  <2>1. /\ Phase = "idle" /\ Phase' = "open" /\ out' = <<>> /\ Result' = "none"
    BY <1>5 DEF StartRecording, MayStart, Phase, Result, Saved
  <2>2. Line' = <<>> \o <<>>
    BY <1>5 DEF StartRecording, Line, InHand
  <2>3. Line' = <<>>
    BY <2>2, ConcatEmptySeq
  <2>4. QED
    BY <2>1, <2>3, RSOpens
<1>6. CASE InitRecorder \/ StartTerminates \/ DiscardRecording \/ JoinWriter
  <2>1. UNCHANGED <<Phase, Line, out, Result>>
    BY <1>6 DEF InitRecorder, StartTerminates, DiscardRecording, JoinWriter, Phase,
                Line, InHand, Result, Saved
  <2>2. QED
    BY <2>1, RSStutters
<1>7. CASE SaveRecording
  <2>1. Phase = "open" /\ Phase' = "closing"
    BY <1>1, <1>7 DEF SaveRecording, Phase, RequestInv
  <2>2. UNCHANGED <<Line, out, Result>>
    BY <1>7 DEF SaveRecording, Line, InHand, Result, Saved
  <2>3. QED
    BY <2>1, <2>2, RSCloses
<1>8. CASE StopForDiscard
  <2>1. UNCHANGED <<Line, out, Result>>
    BY <1>8 DEF StopForDiscard, Line, InHand, Result, Saved
  <2>2. CASE rec_state = "Idle"
    <3>1. UNCHANGED Phase
      BY <1>8, <2>2 DEF StopForDiscard, Phase
    <3>2. QED
      BY <2>1, <3>1, RSStutters
  <2>3. CASE rec_state # "Idle"
    <3>1. Phase = "open" /\ Phase' = "closing"
      BY <1>1, <1>8, <2>3 DEF StopForDiscard, Phase, RequestInv
    <3>2. QED
      BY <2>1, <3>1, RSCloses
  <2>4. QED
    BY <2>2, <2>3
<1>9. CASE ClearAfterJoin
  <2>1. rec_state = "Idle" /\ rec_state' = "Idle"
    BY <1>1, <1>9 DEF ClearAfterJoin, ThreadInv
  <2>2. UNCHANGED <<out, Result>>
    BY <1>9 DEF ClearAfterJoin, Result, Saved
  <2>3. QED
    BY <2>1, <2>2, RSStutters DEF Phase, Line
<1>10. CASE ResetCounters \/ Detach \/ Free
  <2>1. UNCHANGED <<Phase, Line, out, Result>>
    BY <1>10 DEF ResetCounters, Detach, Free, Phase, Line, InHand, Result, Saved
  <2>2. QED
    BY <2>1, RSStutters
<1>11. CASE RemoveFile
  <2>1. UNCHANGED <<Phase, Line, out>>
    BY <1>11 DEF RemoveFile, Phase, Line, InHand
  <2>2. ~Saved /\ ~Saved' /\ wpc' = wpc
    BY <1>1, <1>11 DEF RemoveFile, Saved, DiscardInv, Discards
  <2>3. QED
    BY <2>1, <2>2, RSStutters DEF Result
<1>12. CASE Over \/ UNCHANGED vars
  <2>1. UNCHANGED <<Phase, Line, out, Result>>
    BY <1>12 DEF Over, vars, Phase, Line, InHand, Result, Saved
  <2>2. QED
    BY <2>1, RSStutters
<1>13. QED
  BY <1>2, <1>3, <1>4, <1>5, <1>6, <1>7, <1>8, <1>9, <1>10, <1>11, <1>12
  DEF Next, Writer

(* The recorder implements RecordingSession: with any number of feeding    *)
(* threads, a writer that may be arbitrarily slow, an ffmpeg that dies or  *)
(* stalls and calls that stop or discard at any time, frames leave in the  *)
(* order in which they came, none is accepted once the session closes, and *)
(* a file is saved only when no frame is left.                             *)
THEOREM ImplementsSession == Spec => RefinesRecordingSession
<1>1. Init => RS!Init
  BY DEF Init, RS!Init, Saved
<1>2. QED
  BY <1>1, RecorderRefines, RecorderKeepsInv, PTL
  DEF Spec, RefinesRecordingSession, RS!Spec
=============================================================================
