# cppdvr in TLA+

This directory is a TLA+ model of the concurrent core of cppdvr, the C++ library
that logs in to a DVR or IP camera over the DVRIP protocol, decodes its video
with ffmpeg, shows it over HTTP and to callbacks, records it to disk and relays
it over UDP. It states what the code has to get right, checks it with TLC on
small instances, and proves with TLAPS, for every value of the constants, every safety
property, action property and refinement that the runs check: what stays with TLC
alone is liveness. Source paths below are relative to the repository.

Contents: [the system](#the-system), [the modules](#the-modules),
[the runs](#the-runs), [bounds](#bounds), [fairness](#fairness),
[mutations](#mutations), [proofs](#proofs),
[what the checks found](#what-the-checks-found),
[what is not modelled](#what-is-not-modelled), [plan](#plan).

## The system

### Inventory

| Component | Source | State it keeps | Operations |
|---|---|---|---|
| Recorder | `src/video_recorder.cpp` | `rec_state`, `q_stop`, `q_abort`, frame queue, two counters, the writer thread's handle, ffmpeg | `init`, `start_recording`, `feed_raw_frame`, `feed_jpeg`, `pause`, `resume`, `save`, `discard`, `deinit`, destructor, `run_writer` |
| Stream server, threads | `src/stream_server.cpp` | `running`, `raw_queue`, camera, pipeline and HTTP threads, ffmpeg, HTTP socket | `start`, `stop`, `run_camera`, `run_pipeline`, `run_http` |
| Stream server, JPEG path | `src/stream_server.cpp` | `JpegSlot`, double-buffered overlay text and boxes, `LatestJpeg`, one thread per client | reader thread, overlay worker, `overlay_print`, `overlay_box_*`, `/stream` |
| DVRIP client | `src/dvrip.cpp` | socket, sequence number, `send_mutex`, keep-alive and monitor threads, `recv_failed` | `connect`, `login`, commands, `snapshot`, `start_monitor`, `stop_monitor`, `close`; reading, changing and writing back the settings of a device |
| UDP relay | `src/udp_stream_server.cpp` | socket, receive thread, `JpegReassembler`, callbacks, target address | `init`, `start`, `stop`, `deinit`, `sendJpeg`, `feed`, setters |
| C API | `src/cppdvr_api.cpp` | handles, the slots of callbacks with their user data, the structures that settings are read into | setters, create and destroy, and one call of a class each |
| JPEG overlay | `src/jpeg_overlay.cpp` | a text's lines while a box is drawn | decode, `build_lines`, draw, encode |
| Platform layer | `src/platform/` | the descriptors of pipes, process handles | spawn, write, read, wait and kill; sockets, hashes |

### How the components interact

`StreamServer` owns a `DVRIPCam`. Its camera thread logs in and starts a monitor;
the monitor thread belongs to `DVRIPCam`, and its callback pushes raw frames on
`raw_queue` and calls the server's raw-frame callback. The pipeline thread takes
the frames off the queue and writes them to the stdin of ffmpeg. For each run of
ffmpeg two more threads exist: the reader takes JPEG frames off ffmpeg's stdout
and puts the newest into a slot, the overlay worker takes it, draws, calls two
callbacks and updates `LatestJpeg`, where the HTTP client threads wait.
`VideoRecorder::init` subscribes to the raw frames or to the drawn JPEGs; it
queues them, and its writer thread feeds a second ffmpeg. A JPEG callback may as
well call `UdpStreamServer::sendJpeg`, which cuts the frame into datagrams that
another process puts together.

The two ffmpegs are children of one process and are spawned by two threads. What
one inherits of the other's pipes decides whether the end of a pipe is ever seen.

The C API hands the callbacks on with a `void *` of the application. The server
calls some of them with the mutex of their slot held and copies the others first;
which of the two it is decides when the application may free what it passed.

The contract on threads is in `docs/USAGE.md`: one thread makes the calls of an
object (the "API thread" of the models); feeding frames, pausing and resuming a
recording, printing on the overlay and all callbacks come from any thread.

### What is hard, and what makes each component correct

*Recorder.* Four parties change its state: feeders under `mtx`, the writer
partly outside it, the caller in `do_stop` in three separate steps, and ffmpeg,
which may end or stop reading whenever it likes. Correct means: every accepted
frame is accounted for once; a saved file holds everything that was accepted and
not dropped, in order; a stop request never leaks into the next session; no
ffmpeg outlives its session; calls return.

*Stream server, threads.* `stop` joins threads that wait for each other, through
a queue that the camera thread opens again without the mutex. Correct means:
`stop` returns, and when it has no callback can come any more; each ffmpeg
is given frames in order, from one marked "I" on; nothing of one ffmpeg is left when
the next is spawned; a dead ffmpeg and a lost camera are noticed; a GPU that delivers
nothing is given up.

*Stream server, JPEG path.* A slot of one frame that is overwritten, a double
buffer that is swapped by the worker while users print, three consumers that are
served one after the other. Correct means: no consumer sees a frame twice or out
of order, all see the same frames, the last frame of a run is not lost in the
slot, and the text on a frame is the current one.

*DVRIP client.* Up to three threads send and receive on one TCP connection with
a timeout for each receive, and the state of the connection is spread over four
flags. A packet arrives in pieces, and whatever is skipped must be skipped to the
end of a packet. Correct means: a reply goes to the call that asked; the monitor
delivers whole frames, in order; a lost connection ends the monitor; calls return. A
setting is a document that is read, changed and written back, while another
client may do the same and any of the requests may fail: correct means that no
field is lost, that an update is lost only to one that overlaps, and that a call
that says it succeeded was carried out.

*UDP relay.* Datagrams are lost, repeated and reordered, and the reassembler
keeps one frame; the target is discovered from what arrives, some of which may be
the relay's own mirrored packets. Correct means: what comes out is what was sent;
a lost chunk costs its own frame only; answers go to the host that was heard
first; after `stop` no callback runs.

*Callbacks.* They are replaced while threads are inside them, and what they point
to is freed by the application. Correct means: an application that keeps the
documented rules is never called with a freed object.

*Child processes.* A spawn is interrupted by another, a process dies, hangs or is
killed at any point, and three threads share its pipes. Correct means: no
descriptor, thread or zombie is left; a save does not kill an ffmpeg that still
writes its file; a death is noticed; stops return.

*Text boxes.* A text of any shape is cut into lines of a bounded buffer for a box
of any width. Correct means: lines fit buffer and box, which the code does not keep in a
very wide box; no character is lost; the block is where it was asked for.

The individual hazards, each with its line, are in `PROJECT.json` under
`hazards`, with the properties that would catch them, what those except, or the reason
why none does. A property that excepts a hazard by name does not cover it, and where
only such a property exists the hazard is listed without one: the age of queued frames,
UDP ids that are used twice, answers after a failed receive and the terminations it may
lead to, a keep-alive that ended by itself, and the Windows handle of a process that died.

## The modules

In all of them a critical section is one action, so a mutex is not a variable
(except `send_mutex` of the DVRIP client, which is held across a receive, and the
mutex of a callback's slot, which is held across the call), and a
thread that waits on a condition variable is a thread whose action is not
enabled. A thread's place in the code is a variable; the values are named for
what comes next. Bytes, command lines and wording are abstracted: a frame is its
number and the little the code looks at. Counters that would be unbounded have a
bound in a guard; every bound is a constant called `Max...` or `NetSize`.

| Module | Models | Extends |
|---|---|---|
| `VideoRecorder` | the recorder, its writer thread and ffmpeg | |
| `RecordingSession` | what a recording promises (abstract) | |
| `JpegPath` | ffmpeg's output, reader, worker, overlay, HTTP clients | |
| `StreamServer` | `start`, `stop`, camera, pipeline and HTTP threads | `JpegPath` |
| `UdpStreamServer` | sender, network, receiver, target | |
| `DvripCam` | connection, calls, keep-alive, monitor, DVR | |
| `DvripFraming` | packets and frames in the monitor's byte stream | |
| `DeviceConfig` | settings read, changed and written back by several clients | |
| `CallbackSlots` | setting, calling and freeing callbacks | |
| `ChildProcess` | the two owners of ffmpeg processes, pipes, the system | |
| `TextBox` | `build_lines` and the placing of a box | |
| `VideoRecorderProofs`, `UdpProofs`, `DvripCamProofs`, `DvripFramingProofs`, `ChildProcessProofs`, `TextBoxProofs` | theorems | the module in the name, `TLAPS` |
| `StreamProofs` | theorems about `JpegPath` and `StreamServer` | `StreamServer`, `TLAPS` |
| `CApiProofs` | theorems about `CallbackSlots` and `DeviceConfig` | both, `TLAPS` |
| `MCCApi` | both for TLC: they share no state, and each is explored while the other rests in its initial state | `CallbackSlots`, `DeviceConfig` |
| `MC...` | finite sets for TLC | the module named |

### VideoRecorder

`rec_state`, `rec_fmt`, `out_fname`, `q_stop`, `q_abort`, `queue`,
`count_written`, `count_dropped`, `initialized` and `writer_thr` are the members
of `Impl` of the same name. `wpc`, `fmt`, `fname`, `ffp_started`, `aborted` and
`frame` are the writer's place and locals; `encoder` is the ffmpeg process
(`none`, `running`, `stalled` when it lives and does not read, `dead`); `files`
is what each output name holds. `accepted`, `skipped` and `out` are history.

- `FeedRaw`, `FeedJpeg` (both `PushFrame`), `PauseRecording` and
  `ResumeRecording` are the calls of any thread.
- `InitRecorder`, `StartRecording`, `SaveRecording`, `DiscardRecording` begin the
  calls of the API thread. `do_stop` is `StopForDiscard` (the critical section
  with the flags), `JoinWriter` and `ClearAfterJoin`, between which anything may
  happen; `RemoveFile`, `ResetCounters`, `Detach` and `Free` are the rest of
  `discard`, `save`, `deinit` and the destructor.
- `WriterBegin`, `WriterTake`, `WriterSkipsFrame`, `WriterStartsEncoder`,
  `WriterWrite`, `WriterFinish`, `WriterIdle` are `run_writer`.
- `EncoderDies` and `EncoderStops` are ffmpeg. A write to a stalled ffmpeg is a
  step that is not enabled: the writer is blocked.
- `StartTerminates` is `std::terminate` in the assignment to a joinable thread.

`RecordingSession` is the promise without threads: a session is open, then
closing; frames join a line, some are given up, the head is delivered; it is
saved only with nobody left in the line. The mapping reads the line off the
writer's hand and the queue.

### JpegPath

`slot` and `slot_done` are `JpegSlot`; `back`, `front` and `dirty` the double
buffers of each region, region 0 being the overlay and the others the text
boxes; `latest` is `LatestJpeg`. `reader` and `worker` are the two threads of a
run, `client` the HTTP client threads. A text is the number of the print that
wrote it; a JPEG is its number in the output of ffmpeg and the text drawn into
each region. `shown` and `recorded` are what the two JPEG callbacks received,
`current` the texts that have been current since the worker took its frame.

A run of ffmpeg is spawned (`SpawnRun`), its threads are started (`StartThreads`), it is
terminated (`Terminate`) and its threads are joined (`JoinRun`). These steps and the
changes of `running` are made by other threads of the server: here they come at any
moment, as long as one run follows the other (`Threadless`), and `StreamServer` says
when they do. `OverlayPrint`, `OverlayClear` and `OverlayConfigure` are the users'
calls.

### StreamServer

Extends `JpegPath`, takes its actions and adds the API thread (`api`: the steps
of `stop`), the camera thread (`camera`, one value per call of `DVRIPCam` in
`run_camera`), the monitor thread (`monitor`), `raw_queue` and `closed`
(`FrameQueue`), the pipeline thread (`pipeline`, with its locals `raw`, `hw`,
`hw_fallback`, `frames_at_start`) and the HTTP thread. Here `DVRIPCam` is only
what the server sees of it: a login that fails or succeeds, a monitor that
delivers frames and may end by itself. Prints on the overlay are left to
`JpegPath`: they share nothing with the threads added here.

The start of a run is as many steps as the code has: `PipelineChecks` that the server
still runs, `PipelineSpawns` (or `PipelineSpawnFails`), `PipelineCounts` the frames made
so far, `PipelineWritesFirst`, `PipelineStartsThreads`. `stop` or the death of ffmpeg may
come between any two. `input` is history, what the ffmpeg of the run has been given, and
`made_at_start` is the number of JPEGs that existed when it was spawned.

A raw frame has an `id`, its place in the order of arrival, and a `mark`, which is the
string `meta.frame` that the code compares with "I": `src/dvrip.cpp` sets it to "I" or
"P" by the type the DVR gave the packet, and says nothing about what is in the frame.

The steps of a run are `JpegPath`'s actions, conjoined with the pipeline's. That the
server's behaviours, seen on `JpegPath`'s variables, are behaviours of `JpegPathSpec` is
therefore so by construction and not a result: it is why what is checked of `JpegPath`
with more frames, clients and prints holds in the server as well. What the pipeline's
order of steps adds is stated by `RunsStayApart`.

### UdpStreamServer

The peer's threads call `sendJpeg` (`SendJpeg` takes an id, `SendChunk` sends the
next chunk, so that two threads may mix their chunks), and its process may
restart and count from the beginning. The network is a sequence: `RecvChunk(i)`
may take any datagram and may leave it there, `Lose(i)` loses one, so there is
loss, duplication and reordering. The receiver has its API thread (`InitServer`,
`Start`, `Stop`, `StopJoins`, `Deinit`, `SetOnJpegCallback`) and its receive
thread (`recv`), which feeds the reassembler (`frame_id`, `total`, `chunks`),
copies the callback and calls it in two steps.

`target_ip` is the configured host and `target_ip_discovered` what the receive
thread makes of the first packet it hears (`Hear`); `get_target_ip` prefers the
former. The mirror sends copies of the relay's own packets to itself, which
`Discarded` throws away by their source. `RecvOther` receives packets of the other
types from any host: an input packet, whose callback runs until
`RecvInputReturns`, and a composite packet, which holds a whole JPEG (`Embedded`).
`first` is history: the host heard first since `init`.

### DvripCam

`call[t]` is the `send_msg` that thread `t` is in, `buf[t]` its
`reassemble_bin_payload`; `tx`, `rx`, `up` and `dvr` are the connection and the
DVR, which answers in order, begins frames of several packets when a monitor or
a snapshot has asked for them, may fall silent, and may lose the connection. A
keep-alive closes the socket when its answer has no Ret or a Ret of 101
(`KeepaliveReturns`), and any reply may be such an answer.
`packet_count` numbers the requests. A call gets the lock, sends, receives and
releases it; every receive may fail, by timeout or because the connection is
gone, and then `recv_failed` is set. `snapshot` reads its picture without the
lock, as the code does. Packets are received whole here.

### DvripFraming

The stream is a sequence of units `<<k, n>>`, the n-th piece of the k-th packet, and
`next` the unit that is received next. `Receives`, `ReceiveFails` and
`DeadlinePasses` are `tcp_recv_exact`, which asks for `want` pieces and has `pkt`; its
two failures differ in `recv_failed`. `HasHeader`, `HasNoPayload`, `BeginsFrame` and
`ContinuesFrame` are `reassemble_bin_payload` with its locals `remaining` and `buf`,
`GotNothing` and `CallReturns` are `monitor_loop`. The DVR sends frames of several
packets, pictures, packets of unknown type and empty ones. What is read from the wrong
place may mean anything (`Lengths`, `Meaning`).

`HeadersAreHeaders` justifies that `DvripCam` receives packets whole.

### DeviceConfig

`device` holds three documents: `net`, an object, and `enc` and `color`, arrays
with an element for each channel. Of the fields the model keeps one for each way
the code treats them, with a value that says who wrote it. Each client is a
connection with one thread. A set is `Call("read", ...)`, which asks for the
document, and, once `HasRead` has made of the reply what `get_info` and the
function make of it, a write of the changed document (`ChangesNetwork`,
`ChangesEncode`). `GotNetwork` and `GotChannel` are the returns of the reads, and
`TellsTime` is what `get_time` asks of a reply. `GetNetwork` fills the structure of the C API (`form`), which
the application may change and give to `SetNetwork`, or give a new one.
`GetEncode`, `GetColor`, `GetTime` and `Command` are the other shapes of a call.

`SendFails` is the reply `{"Ret": 101}` that `send_msg` makes up; `Sends` is a device
that does what is asked or refuses; after `ReceiveFails` the reply is lost or
comes late and is read by the client's next call. `Throws` is `value()` of a null
json, which leaves the C API as an exception: that client is gone.

### ChildProcess

A descriptor is an end of a pipe, `<<child, stream, side>>`. `open` is what the
library's process has open, `held[c]` what the child `c` has; an end of a pipe is
seen as closed when neither has its other end. `owner` is where the pipeline and the
writer thread are in spawning, feeding and stopping, `readers` their threads that read
stdout and stderr, `proc` each child: running, hung, zombie or reaped.

- `SpawnBegins`, `CreatePipe` for one pipe after the other, `Fork`, and
  `ParentCloses` for one end after the other are `platform_spawn_process`, between
  whose calls the other owner runs; `SpawnFails` comes with any number of the pipes
  made. On POSIX a fork copies everything that is open, on Windows only the listed
  handles (`PosixHandles`, `WindowsHandles`).
- `FirstWrite` and `FirstWriteFails` are the pipeline's write before it has threads
  that read, and `StartThreads` starts those of either owner.
- `WriteFails` and `WriteBlocks` are `platform_write_pipe`; a write that fails
  kills the process on POSIX unless the application ignores SIGPIPE.
- `Save` (`close_stdin`) with `WaitSucceeds`, `WaitTimesOut` and `KillOverdue`
  (`wait_for_exit`), `Terminate` and `PipelineNotices` with `Kill`, and `Join` are
  the ways to an end.
- `ChildFinishes`, `ChildDies`, `ChildHangs` are ffmpeg.

### CallbackSlots

`slot` is the object of each callback, `call` what each thread of the server does,
`alive` the objects that have not been freed. `CallLocked` calls a slot with its
mutex held (`CalledLocked`), so that a setter waits; `CopyCallback` and `CallCopy`
are the other slots. `SetStreamCallback`, `SetOverlayCallback`, `SetUdpCallback`
and `InitRecorder` are the setters, the last being `VideoRecorder::init`, whose
object is the recorder. `MayFree` and `MayStart` are the rules of the application,
taken from the headers' "safe to replace at any time" and `docs/USAGE.md`:
what no slot points to may be freed, but what a copied slot has had since the
start only after `stop`; and no slot may point to a freed object at a start.

### TextBox

One step is one turn of a loop of `build_lines`. `p`, `wlen`, `i`, `cur` and `out`
are its locals. A line holds the places in the text its characters come from, and 0
for a space `build_lines` puts in, so that what is shown can be compared with what was
given. `BreakWord` copies a word that is longer than the box, `AddWord` one that
is not. `BoxX`, `BoxY`, `LineX` and `LineY` are the placing in
`jpeg_overlay_draw_textbox`.

A copy that goes beyond the end of `cur` leaves the program undefined: such a behaviour
ends at the place `overrun`, with the line as long as it was to become.

## The runs

States and times are those of two TLC workers on an ordinary machine.

| Run | Specification | Checks | Distinct states |
|---|---|---|---|
| `recorder` | `FairSpec` | `FrameAccounting`, `OutputIsSelection`, `SavedFileIsWhole`, `StopRequestIsServed`, `NoOrphanEncoder`, `CallsReturn`, `RefinesRecordingSession` | 325,000, 50 s |
| `jpeg_path` | `JpegPathSpec` | `ShownInOrder`, `ConsumersAgree`, `OverlayIsCurrent` | 527,000, 13 s |
| `stream` | `FairSpec` | `StopIsSynchronous`, `FfmpegInput`, `RunsStayApart`, `FruitlessRunFallsBack`, `StopReturns`, `DeadFfmpegIsCleared`, `CameraReconnects` | 245,000, 125 s |
| `udp` | `Spec` | `TargetIsFirstHeard`, `FrameIntact`, `LossIsLocal`, `StopEndsReceiving` | 2,582,000, 65 s |
| `dvrip` | `FairSpec` | `RepliesMatch`, `FramesAreWhole`, `CallsReturn`, `LossEndsMonitor` | 403,000, 100 s |
| `framing` | `Spec` | `HeadersAreHeaders`, `FramesComeWhole`, `OnlyBrokenFramesAreLost` | 900,000, 11 s |
| `c_api` | `MCSpec`, with symmetry | `NoCallAfterFree`, `ReplacedIsDone`, `SettingsStayWhole`, `UpdatesAreAtomic`, `AnswersAreTrue` | 871,000, 39 s |
| `process` | `FairSpec` | `NothingIsLeft`, `OverdueOnlyIfStuck`, `OwnersGoOn` | 150,000, 60 s |
| `textbox` | `Spec` | `OnlyWideBoxesOverrun`, `TextIsKept`, `TextStaysInBox` | 172,000, 4 s |
| `recorder_restart` | `FairSpec` | `StartReturns`, which is violated | see [below](#what-the-checks-found) |
| `textbox_wide` | `Spec` | `LinesFit`, which is violated | see [below](#what-the-checks-found) |
| `framing_slow` | `Spec` | `SkippingIsRecoverable`, which is violated | see [below](#what-the-checks-found) |

Each module also has a definition of the values its variables may take
(`TypeOK`, `JpegPathTypeOK`, ...). These document the variables; all of them are
proved, and none is checked by a run of its own.

What the runs show:

- `recorder`: across two sessions, ended by saving, discarding, `deinit`, the
  destructor or a failure of ffmpeg at any moment, with pauses, drops and feeders
  at any moment, the counters add up, a saved file is complete and in order, no
  request or process is left over, and every call returns unless ffmpeg has
  stopped reading. The recorder implements `RecordingSession`.
- `jpeg_path`: whatever the slot drops and however often ffmpeg is replaced, the
  consumers agree and see each frame at most once and in order, and the last frame of
  a run is not left in the slot; the worker draws
  a text that was current after it took the frame.
- `stream`: after `stop` has returned only detached HTTP client threads are left.
  An ffmpeg is never given a frame before one that is marked "I", nor two sessions'
  frames in the wrong order, although the queue survives both reconnections and `stop`;
  no frame of one ffmpeg is left in the slot, in the worker's hand or in a pipe when the
  next has been spawned.
  `stop` returns although the camera thread may open the queue again behind its back,
  because `pop` has a timeout; a dead ffmpeg is noticed by the reader alone; the
  camera logs in again.
- `udp`: a frame with an id of its own comes out as it was sent under any loss,
  repetition and reordering; on a network that only loses, nothing but the
  frames that lost a chunk is missing; other hosts, mirrored packets and restarts of
  the receiver do not change the host that is answered.
- `dvrip`: as long as no receive has failed, nobody gets another's reply; the
  monitor delivers whole frames even after late replies and reconnections. No call
  waits for ever, and a connection that is lost at any point of the start or the loop
  of a monitor ends it.
- `framing`: unless a deadline cuts a packet, the monitor is at a header whenever it
  looks for one, whatever it skipped, abandoned or found empty; what it delivers are
  whole frames in order; and without timeouts only the frames that the DVR itself
  broke with an empty packet are missing.
- `c_api`, settings: fields that the library does not know and channels other than the one that
  is set survive every mixture of two clients' sets, as long as the reads succeed;
  a client's update is lost only when another read before it was written; a call
  that says yes was carried out, and one that says no was not.
- `c_api`, callbacks: the rules for freeing are enough: a thread is never in a callback
  whose object is gone, across replacements, stops and starts. A setter of a slot
  that is called under its mutex returns with nobody in the old callback.
- `process`: however the two owners' spawns, failures, saves and stops interleave, and
  at whichever pipe a spawn fails,
  an idle owner has no descriptor, thread or process left, but for the handle that
  Windows keeps of a process that died by itself; on Windows, and on POSIX
  unless the other child holds the same pipes, stops return, a death is noticed
  and a save is not cut short.
- `textbox`: every text of up to six places, in boxes from nothing to four characters,
  comes out in full and in order as far as there are lines, and within box and buffer;
  only a word that is too long for a box as wide as a buffer overruns it.

`CHECK_DEADLOCK FALSE` stands where the system may really stop. In `dvrip` the
caller is done and the bounds on connections and requests are used up, in
`framing*` the packets; in `c_api` the calls, or the server is destroyed and
everything freed; in `stream` the server has been stopped and may not be started
again within `MaxStarts`; in `process` the owners have made their children and
are idle, or the process has been killed. In `recorder` a destroyed or
terminated process stutters (`Over`), as does a `build_lines` that is done or
has overrun its buffer (`Drawn`), and deadlock is checked there as it is in
`jpeg_path` and `udp`.

## Bounds

| Run | Bounds | Why they are enough |
|---|---|---|
| `recorder`, `recorder_restart` | queue of 2, 4 frames, 2 sessions, 1 file name | the queue overflows while the writer holds a frame, and a frame is left to feed in the second session; one name lets the second session overwrite or remove the first one's file |
| `jpeg_path` | pipe of 2, 3 frames, 1 text box, 1 print, 1 client | one frame each in the pipe, the slot and the worker's hand, so that an unread one is overwritten; two regions, so that a print falls between them |
| `stream` | queue of 1; 2 raw frames, at most 1 of them in the first start, 1 JPEG, 2 starts, no client of `/stream` (on which nothing here depends, and which `jpeg_path` has), no text box | the second frame may overflow the queue, or the first one survive into a second run, connection or start; a run without any JPEG may come before or after one with; ffmpeg may die at any point. Without the liveness properties, 4 raw frames, at most 2 of them in the first start, and 2 JPEGs (15,172,000 states) were run once; with them, 1 client, 1 raw frame and 1 start (80,000 states): no error |
| `udp` | 2 senders, 2 calls, frames of 1 or 2 chunks, 2 datagrams under way, 1 restart, 1 chosen id; the peer, another host and localhost | two frames meet in the reassembler with every mixture of their chunks, ids that repeat after the restart or are chosen twice, sizes that differ; two hosts are enough for a wrong one to be heard first or later |
| `dvrip` | 2 connections, requests until the number reaches 2, a frame of up to 2 packets and one of 1 packet, at most 1 of them in the first connection | all three threads send on a connection and a second one follows it; a frame of two packets may be cut by a reply, a timeout or a close, and another one follow. Without the liveness properties, later frames as long as the first, with 2 frames in either connection (1,784,000 states) or with `MaxPackets = 3` (2,050,000 states), were run once and showed no error |
| `framing*` | 3 packets of up to 2 pieces, frames of up to 2 pieces | a frame of three packets; a frame, or what is left of one, before and after an empty, unknown or abandoned packet; headers and payloads that can be cut |
| `c_api` | 2 objects, all slots, any number of stops and starts; 2 clients, 2 channels, 3 calls, 1 failed receive | one object replaces the other in each slot, or has two slots; a set of one client may enclose one of the other and a third call follows to read a late answer or use the form; the array has an element beside the one that is set |
| `process` | 1 child of the recorder, 2 of the pipeline | the pipeline replaces its ffmpeg while the recorder's one lives, and either may fork between any two of the other's pipes and closes |
| `textbox`, `textbox_wide` | texts of up to 6 characters, spaces and newlines; boxes of 0, 5, 17, 24 and 32 pixels at scales 1 and 2; 3 lines of at most 3 characters | no limit, less than a character, a width that does not divide and one that does, one more character than the buffer holds; words that fit, break once and break twice; more lines than there are |

`MaxPackets` bounds what is in flight only by not letting a call begin: whatever has
begun finishes. Sequence numbers and frame ids do not overflow within the
bounds, and the 32-bit wrap of the UDP counter is not modelled.

## Fairness

- Recorder: weak fairness of the writer thread and of the API thread inside a
  call. Both are threads of the process, and the mutex and condition variable
  they wait on are released by steps that are themselves fair. Feeders, pause and
  resume and new calls owe nothing, and nor does ffmpeg: it may go on without
  reading for ever, and `CallsReturn` says so.
- Stream server: weak fairness of each of its threads, which is named by what each of its
  steps changes. The waits in them have a
  timeout (20 s and 10 s on the queue, 250 ms in the camera's poll, 500 ms in
  `accept`), a step that is always enabled while they wait. That connecting,
  logging in and user callbacks come to an end is assumed: the first two have
  timeouts in `DVRIPCam`, where `dvrip` shows that calls return. The write to
  ffmpeg is assumed to end because ffmpeg reads its input or dies; the recorder's
  run shows what happens otherwise. Nothing is asked of the DVR, of clients, of
  users, or of ffmpeg's output.
- DVRIP: weak fairness of the three threads inside their code. Receives have a
  timeout, so a failing receive is a step that is always enabled while one waits.
  The DVR may fall silent and the caller may never call again.
- Child processes: weak fairness of the owners once they stop or have forked, of
  the waits, which have a timeout, of the readers at the end of their pipe, and of
  the pipeline when it has been told. An ffmpeg whose input has ended finishes,
  unless it hangs, which it may at any time. Nobody has to start or stop, a
  read on a descriptor that was closed under it need not fail, and the first write to
  an ffmpeg that reads nothing may last for ever.
- `JpegPath`, `UdpStreamServer`, `DvripFraming`, `DeviceConfig`, `CallbackSlots` and `TextBox`
  have safety properties only and no fairness.

## Mutations

A property is worth stating when a plausible mistake in the code would break it.
For each property of the passing runs there is a faulty twin of one operator;
with the twin in its place TLC finds the property violated in the same run.

| Property | Operator | Twin | The mistake |
|---|---|---|---|
| `FrameAccounting` | `Overflow` | `Uncounted` | an overwritten frame is not counted |
| `OutputIsSelection` | `StartsEncoder` | `StartsOnAny` | MP4 starts at any frame |
| `SavedFileIsWhole` | `Drained` | `LeavesFrames` | the writer ends without draining |
| `StopRequestIsServed` | `ClearRequests` | `ForgetsAbort` | `q_abort` is not cleared after the join |
| `NoOrphanEncoder` | `EncoderAfter` | `LivesPastAbort` | an abort does not kill ffmpeg |
| `CallsReturn` (recorder) | `Drained` | `WaitsWhilePaused` | a paused recording does not stop |
| `RefinesRecordingSession` | `Accepts` | `AcceptsUntilIdle` | frames are accepted after the stop request |
| `ShownInOrder` | `TakenSlot` | `KeepsFrame` | `get` leaves the frame in the slot |
| `ConsumersAgree` | `ThreadsEnded` | `LeavesWorker` | the next run starts beside the old worker |
| `ConsumersAgree` | `EndsWhenEmpty` | `EndsWhenDone` | `get` tests `done` before the slot |
| `OverlayIsCurrent` | `MarksDirty` | `ClearsQuietly` | clearing does not set `dirty` |
| `StopIsSynchronous` | `JoinedMonitor` | `LeavesMonitor` | the monitor thread is not joined |
| `FfmpegInput` | `StartsRun` | `AnyFrameStarts` | ffmpeg starts at any frame |
| `RunsStayApart` | `PipelineJoins` | `JoinsReaderOnly` | the worker is not joined |
| `FruitlessRunFallsBack` | `Fruitless` | `FruitfulRun` | the test of the frame count is inverted |
| `StopReturns` | `WatchEnds` | `EndsWithMonitor` | the camera's poll ignores `running` |
| `DeadFfmpegIsCleared` | `FeedGoesOn` | `FeedsWhileRunning` | the feed loop ignores `pipe_ok` |
| `CameraReconnects` | `WatchEnds` | `EndsWhenStopped` | the camera's poll ignores the monitor |
| `TargetIsFirstHeard` | `Discarded` | `NoneDiscarded` | mirrored packets are taken for a host |
| `FrameIntact` | `StartsOver` | `OnlyWhenEmpty` | a new id does not reset the reassembler |
| `LossIsLocal` | `Complete` | `CountsBeforeAdding` | the chunks are counted before the new one is added |
| `StopEndsReceiving` | `Joined` | `NotJoined` | `stop` does not join |
| `RepliesMatch` | `MutexFree` | `MutexIgnored` | `send_msg` does not lock |
| `FramesAreWhole` | `KeepaliveJoined` | `LeavesKeepalive` | `start_monitor` does not join the keep-alive |
| `CallsReturn` (DVRIP) | `Cleared` | `StaysSet` | `start_monitor` joins the keep-alive without clearing its flag |
| `LossEndsMonitor` | `Lost` | `NeverLost` | the monitor ignores `recv_failed` |
| `HeadersAreHeaders` | `Gone` | `ReadsOn` | the monitor reads on after a receive has failed |
| `FramesComeWhole` | `StartsAnew` | `KeepsPart` | what was received of an abandoned frame is kept |
| `OnlyBrokenFramesAreLost` | `Completes` | `Exceeds` | a frame needs more than its length to be complete |
| `SettingsStayWhole` | `ChangesEncode` | `CutsAfter` | the array ends at the channel that is set |
| `UpdatesAreAtomic` | `ChangesNetwork` | `OnlyNamed` | the fields that are not set are not written back |
| `AnswersAreTrue` | `Succeeded` | `AnyAnswer` | any reply counts as success |
| `NothingIsLeft` | `PosixKilled` | `LeavesIt` | a process that is already dead is not reaped |
| `OverdueOnlyIfStuck` | `WindowsHandles` | `EveryHandle` | a child inherits every handle on Windows as well |
| `OwnersGoOn` | `WaitTimesOut` | `WaitsForEver` | the wait for ffmpeg has no timeout |
| `NoCallAfterFree` | `MayEnd` | `LeavesThem` | the camera thread does not join what it started |
| `ReplacedIsDone` | `CalledLocked` | `NotEvenJpeg` | the JPEG callback is copied and called without its mutex |
| `OnlyWideBoxesOverrun` | `Needs` | `NeedsWord` | the space before a word is not counted |
| `TextIsKept` | `LastLine` | `OnlyEnded` | the last line is left out |
| `TextStaysInBox` | `CharsIn` | `RoundsUp` | the width in characters is rounded up |

## Proofs

Eight modules hold theorems, for every value of the constants; `tlapm` checks them
to the last leaf.

| Module | Theorem | Statement |
|---|---|---|
| `VideoRecorderProofs` (1732 obligations) | `TypeCorrect` | `Spec => [](TypeOK /\ HandOK)` |
| | `FramesAccounted` | `Spec => []FrameAccounting` |
| | `SavedWhole` | `Spec => []SavedFileIsWhole` |
| | `RequestsServed` | `Spec => []StopRequestIsServed` |
| | `NoEncoderLeft` | `Spec => []NoOrphanEncoder` |
| | `OutputSelected` | `Spec => []OutputIsSelection` |
| | `ImplementsSession` | `Spec => RefinesRecordingSession` |
| `StreamProofs` (1553) | `JpegPathTypes` | `JpegPathSpec => []JpegPathTypeOK` |
| | `FramesAreShownInOrder` | `JpegPathSpec => []ShownInOrder` |
| | `ConsumersStayTogether` | `JpegPathSpec => []ConsumersAgree` |
| | `DrawnTextIsCurrent` | `JpegPathSpec => []OverlayIsCurrent` |
| | `StreamTypes` | `Spec => []StreamTypeOK` |
| | `StopReturnsLast` | `Spec => []StopIsSynchronous` |
| | `FfmpegIsFedInOrder` | `Spec => []FfmpegInput` |
| | `RunsAreKeptApart` | `Spec => []RunsStayApart` |
| | `FallbackFollows` | `Spec => FruitlessRunFallsBack` |
| `UdpProofs` (1412) | `TypeCorrect` | `Spec => []UdpTypeOK` |
| | `StopEnds` | `Spec => []StopEndsReceiving` |
| | `TargetIsRight` | `Spec => []TargetIsFirstHeard` |
| | `FramesIntact` | `Spec => []FrameIntact` |
| | `LossesAreLocal` | `Spec => []LossIsLocal` |
| `DvripCamProofs` (2702) | `ConnectionTypes` | `Spec => []CamTypeOK` |
| | `RepliesAreOwn` | `Spec => []RepliesMatch` |
| | `FramesComeOutWhole` | `Spec => []FramesAreWhole` |
| `DvripFramingProofs` (2002) | `TypeCorrect` | `Spec => []FramingTypeOK` |
| | `HeadersFound` | `Spec => []HeadersAreHeaders` |
| | `CallbackGetsWholeFrames` | `Spec => []FramesComeWhole` |
| | `OthersAreDelivered` | `Spec => []OnlyBrokenFramesAreLost` |
| `CApiProofs` (1788) | `TypeCorrect` | `Spec => []CallbackTypeOK` |
| | `CallsAreSafe` | `Spec => []NoCallAfterFree` |
| | `ReplacingWaits` | `Spec => []ReplacedIsDone` |
| | `SettingsTypes` | `ConfigSpec => []ConfigTypeOK` |
| | `SettingsAreKept` | `ConfigSpec => []SettingsStayWhole` |
| | `UpdatesInTurn` | `ConfigSpec => []UpdatesAreAtomic` |
| | `AnswersHold` | `ConfigSpec => []AnswersAreTrue` |
| `ChildProcessProofs` (745) | `TypeCorrect` | `Spec => []ProcessTypeOK` |
| | `OwnersCleanUp` | `Spec => []NothingIsLeft` |
| | `SavesAreNotCutShort` | `Spec => []OverdueOnlyIfStuck` |
| `TextBoxProofs` (1452) | `TypeCorrect` | `Spec => []TextBoxTypeOK` |
| | `OnlyWideBoxesOverrunBuffers` | `Spec => []OnlyWideBoxesOverrun` |
| | `BoxHoldsText` | `Spec => []TextStaysInBox` |
| | `NoCharacterIsLost` | `Spec => []TextIsKept` |

They rest on the assumptions of the modules they are about, all of which TLC
evaluates in the runs. The queue of the recorder, that of the server and the pipe
have room for a frame; there is a file to record to and a channel to set; "no
frame", "no JPEG", "no raw frame", "no object", "no callback" and "no host" are none
of the things they stand beside, and localhost is none of the hosts; bounds are
numbers. Of a text box only that its sizes are numbers: nothing in the code limits the
width of a box, and no assumption does.

None of the properties is inductive, and each module has a stronger invariant that is.
One lemma for each part says
that every step preserves it, given the others; the theorems combine them with PTL.

*Recorder.* `RecorderInv` is `TypeOK` with

- `HandOK`: the writer holds a frame exactly where it has popped one and not yet
  written it, and that frame is a frame;
- `ThreadInv`: which places of the API thread and of the writer go together. This
  is what the join in `do_stop` gives: a caller that is past it has no live
  running writer, `rec_state` is Idle exactly when no writer runs, and an aborted
  writer is on its way out;
- `RequestInv`: `q_stop` and `q_abort` are set only between the critical section
  of `do_stop` and its clearing after the join, and not together;
- `EncoderInv`: there is an ffmpeg only after the writer has started it, and only in
  its loop or on the way to finishing it;
- `AccountInv`: while the writer runs, `out` is as long as `count_written`; without
  an abort the counters balance with the queue and the hand (`Balanced`); and a
  writer that has left its loop without an abort left an empty queue and a stop
  request, which keeps feeders out.

`ThreadInv` carries the argument: without it a second session could be opened
while a writer of the first one is still to count its frame, and neither the
balance nor the requests would be preserved.

`SessionInv` adds what the frames of one session have to do with each other:
`SelectionInv` that file, hand and queue hold frames that this session accepted, each
newer than those before it; `CopiesInv` that the writer's copies of format and file
name are the session's; `FirstFrameInv` that an MP4 file begins with a keyframe;
`FileInv` and `DiscardInv` that a file is complete only once it has been finalised, and
that a call which removes one has aborted its writer. With both,
`ImplementsSession` maps every step of the recorder to a step of `RecordingSession` or
to a stutter: the abstract line is the writer's hand followed by the queue, and a
session closes in the critical section of `do_stop`, where feeders are shut out.

*JPEG path.* A frame is in one place at a time, and what has been shown is older than
the worker's hand, that older than the slot, and that older than the pipe (`OrderInv`);
`NumberedInv` bounds how far behind the last one shown can be. `RecordedAsShown`
and `LatestIsRecorded` say how far each of the three consumers has come, by the place
of the worker, and give `ConsumersAgree`. `SlotInv` is what the end of a run needs: a
reader that has closed the slot puts nothing into it. `OverlayInv` says that a region
that is not dirty is the same in both buffers, so that the buffer a snapshot reads has
been current.

*Stream server.* `StopInv`, `MonitorInv` and `RunInv` are the joins of `stop`, of
`run_camera` and of a run, in their order: a thread lives inside the one that joins
it. `RawInv` and `RawOrderInv` put the frames for ffmpeg in the order of arrival: its
input, the pipeline's hand, the queue. `FallbackInv` says that a hardware run that made
nothing has left its mark by the time the next one is chosen.
For `RunsStayApart`, `ApartInv` adds to the property what the end of a run leaves: a
worker that has ended has nothing in its hand, and without one the slot is empty. The
rest is in `SlotInv`, and in `RunInv`, by which the pipeline spawns the next ffmpeg only
past the join of both threads. The invariants of `JpegPath` hold along the server's
steps, which take its actions (`JpegPathInvStep`).

*UDP relay.* `LifeOK` says which places of the API and the receive thread go
together, and gives `StopEndsReceiving`; with it a receive thread exists only
between an `init` that has cleared the discovered host and a join, which gives
`TargetIsFirstHeard`. For `FrameIntact`, `WireOK` follows a chunk from the call
that cut the frame to the reassembler: every packet on the wire, and every chunk
that is kept, belongs to a call that has the id it is filed under. If the id was
used by one call, all chunks of a complete frame are that call's, and there are as
many as it has places. For `LossIsLocal`, `OrderOK` says, as long as nothing is out of
order, that what has been fed comes before what is on the wire, that in order and before
what is still to be sent; and that the reassembler keeps exactly the chunks that have
come of the last call any have come of. A frame of which a chunk is lost is then given
up by the first chunk of a later one, and by nothing else.

*DVR connection.* `CallInv` says that one thread at most waits for its answer, with
the mutex held; `SocketInv` that a closed socket has nothing in it. `PairInv` is the
argument for `RepliesMatch`: while the connection is *paired*, what is under way is
nothing, the request of the thread that waits, or the reply to it. For `FramesAreWhole`,
`AloneInv` says that nobody else receives while the monitor is the only user, and
`FrameInv` follows the parts of a frame through the DVR, the socket and the monitor's
buffer: they follow one another (`LineInv`, `PartInv`), and no answer comes between them
because nobody asks once frames flow (`RequestInv`).

*Framing.* `AlignedOK` says that, unless a deadline has cut a packet or a receive has
failed, there is a packet `k` in which the monitor is: `At(k)` says how much of
it has come and which unit is next; `FrameOK(k)` that `buf` holds exactly the pieces
that packets up to `k` brought of the frame in which it began, in order, and as many as
`remaining` leaves; and `CountOK(k)`, without any timeout, which frames have been
delivered and which is unfinished. Sizes are cardinalities of sets of pieces, and
`FramesSent` is what the DVR sends. A failed receive leaves the stream anywhere, and
`FailedOK` says that the monitor then reads no more. Types hold in either case, by the
invariant `TypesOK`.

*Callbacks.* `LockedIsCurrent` says that a call under a mutex is of the object in the
slot; `CopiedIsLoose` that a copied callback's object is among those that may not be
freed before `stop`; `SlotsAreAlive` that a running server's slots point to live
objects. `ResidentsAreLast` and `StoppedIsQuiet` bring in the joins: the camera
and the receive thread outlive those they start, so that `stop`, which waits for
them, leaves nobody in a call.

*Settings.* A document is followed from the device to the reply, to the call that
changes it and back to the device. `WholeInv` and `StreamInv` say that all of them have
every field and channel, with what the library does not know untouched; `PromptInv` that
a client whose receives have not failed gets its replies in turn; `FreshInv` that a
client no other has overtaken is about to write the document as the device has it;
`AnswerInv` that reply, call and return value say what the device did. A client whose
receive has failed may read another call's reply, and the properties say what holds
then.

*Child processes.* The invariant follows the descriptors: `OpenOK` says which ends the
library has open at each place of an owner, `HeldOK` which ends a child may hold
by then, `ReadersOK` which threads run, `ProcOK` which children have ended, and
`StdinOK` who else may hold the recorder's stdin. The last is what
`OverdueOnlyIfStuck` needs: a copy of stdin exists only in a child that was forked
while the library had it open, and that is what `beside` records.

*Text box.* `PlaceOK` bounds the places in the text, `LinesOK` the line that is being
filled and those before it. The two branches that copy a word need different reasons: a
short word is cut to the room in the buffer, a long one only to the width of the box.
The latter stays in the buffer if the box is narrower than one, and otherwise is what
`OnlyWideBoxesOverrun` excepts: the proof shows that there is no second way.
`TextStaysInBox` follows from it by arithmetic, for every anchor, alignment and scale.
For `TextIsKept`, `Bound` moves through the text: every character before it has been
placed, in order, and none from there on, unless a line or the lines have come to their
end (`Cut`).

`LossIsLocal`, `FramesComeWhole`, `OnlyBrokenFramesAreLost` and `TextIsKept` are stated by
sets of numbers and their order, and not by filtering or flattening sequences: what
a recursive operator gives for every sequence needs an induction the provers cannot do.

Only model-checked: liveness under fairness (`CallsReturn`, `StopReturns`, `OwnersGoOn`,
`CameraReconnects`, `LossEndsMonitor`, `DeadFfmpegIsCleared`), which is beyond the prover,
as is `ENABLED`.

## What the checks found

Three runs expect a violation, and are listed in `PROJECT.json` under `findings`:

| Run | Property | The text | The code |
|---|---|---|---|
| `recorder_restart` | `StartReturns` | `start_recording` "Returns false if already recording or not initialised." (`include/video_recorder.h:136`) | after a session that ended by itself `writer_thr` is joinable; the next `start_recording` assigns to it and the process terminates |
| `framing_slow` | `SkippingIsRecoverable` | `recv_failed` is set "so the monitor loop can distinguish" a socket error "from an unrecognised frame type (which is recoverable)" (`src/dvrip.cpp:151`) | when a packet takes longer than the deadline, `tcp_recv_exact` drops the part that has come and does not set the flag; the monitor goes on from the middle of the packet and does not reconnect |
| `textbox_wide` | `LinesFit` | `build_lines` "hard-breaks words longer than `box_w`; up to 64 lines of 256 chars each" (`docs/feature-status.md:145`), and the excess of a text is "silently truncated (buffer-overflow safe)" (line 137 there) | a word that is too long for the box is copied by the width of the box alone (`src/jpeg_overlay.cpp:571-574`). No caller limits `box_w`, and a text may have 511 characters: from 2048 pixels on, at scale 1, a longer word than the box is wide goes beyond the end of `cur` |

The models also reach the following, which the properties except by name or which
a reader should know of. Some are at odds with a comment, which is quoted.

*Recorder.* `discard_recording` "Kills ffmpeg immediately" (`include/video_recorder.h:154`),
but the writer looks at `q_abort` between writes only: blocked in a write to an
ffmpeg that does not read, it never kills it, and the call waits. A destroyed
recorder whose last session ended by itself has a joinable thread as well. `deinit`
does not take the recorder out of the server's raw-frame slot, which the C API
cannot clear, and the next recorder that is attached takes the slot over.

*Stream server.* `LatestJpeg::wait` is to "Wait up to 'ms' for a new frame"
(`src/stream_server.cpp:143`), but its predicate is that there is any frame, so
clients are sent duplicates. `stop` is to "Stop all background threads"
(`include/stream_server.h:85`), but client threads are detached and go on after it.

The repository disagrees with itself on what marks a key frame. `include/dvrip.h:21` says
"I" (keyframe) or "P", `include/stream_server.h:121` "is_iframe is true for keyframes",
and the pipeline waits for a frame with that mark before it starts ffmpeg, "waiting for
first I-frame" (`src/stream_server.cpp:758`). The recorder does not trust the same flag:
"the DVRIP is_iframe flag is buggy and always true" (`src/video_recorder.cpp:502-506`),
and it looks for a parameter set in the bytes instead. Which of them is right depends on
the DVR, which sets the type of the packet. The models keep to what the code knows:
`FfmpegInput` speaks of the mark and of the order. That the first frame can be
decoded by itself it does not say, and nor does it bound the age of frames: both
queues survive `stop`, and an ffmpeg may begin with what an earlier session left there.

*DVRIP.* `send_mutex` is to "serialise send+recv pairs" (`src/dvrip.cpp:109`), but
`snapshot` receives its picture without it (line 716), beside the keep-alive, and either
may get what the other asked for.
A set whose read failed writes a document that holds the changed fields
only, for the network, or one with a single channel, for the encoding. Two clients
that set at once may lose an update. A command whose receive fails throws, out of the
C API (line 741).

*UDP.* Callbacks are "always invoked under a lock"
(`include/udp_stream_server.h:171`), but the JPEG and the input callback are copied
first and called without it (`src/udp_stream_server.cpp:361`): a callback that was
replaced may still run, and with it the object that was passed.

*Callbacks.* A callback that sets its own slot, where the slot is called under its
mutex, waits for itself, and so does one that asks for the target from the UDP
log callback.

*Child processes.* On POSIX the descriptors are not close-on-exec, so that an ffmpeg
forked between the other owner's pipe and close holds the other one's ends: its stdin
then does not end when it is closed, a save is killed after its timeout, and the
joins wait for as long as that other child lives. On Windows the handle of a
process that died by itself is not closed.

*Text boxes.* A long word that is broken is joined to the text before it without a
space. With no width, lines are cut at the size of the buffer and the rest of the word is
dropped; a box that is narrower than a character is given one.

## What is not modelled

- *Demo, tests, build.* Users of the library, with no protocol of their own.
- *C API.* Beyond callbacks and the forms of settings: one call of a class each, or a
  copy of a buffer. The tables of names and accelerators.
- *JPEG overlay.* The shadow, which is the text drawn once more `scale` to the right and
  below (`src/jpeg_overlay.cpp:659`) and may leave the box by that. Decoding, encoding, glyphs, pixels and the choice of a backend:
  pure functions on bytes. The overlay's cursor, scale and colours, and
  `/snapshot`, are left out of `JpegPath` for the same reason.
- *Platform layer.* Sockets are wrappers of the system's calls and are seen through
  their callers, as receives that fail; hashes are pure functions. That a
  descriptor's number may be used again once it is closed is not modelled.
- *Recorder:* the choice of an encoder and ffmpeg's exit code, which the code
  ignores: a file counts as complete when ffmpeg was given everything and ended.
- *Stream server:* FPS measurement and configuration.
- *DVRIP:* `discover` and the hash of the password. After a packet has been cut by the
  deadline arbitrary bytes are read as headers, about which nothing can be promised;
  replies that are cut (`send_msg` asks for header and payload as the monitor does) are
  replies that come late in `DvripCam` and `DeviceConfig`.
  A receive that is under way when its socket is closed fails. The destructor is
  `StopMonitor` followed by `Close`. Documents of the wrong type and channel numbers
  the device does not have.
- *UDP:* the layout of packets, `sendCommand`, `sendGuiUpdate` and `sendComposite`,
  which are one datagram each, and the truncation of the number of chunks to 16 bits.

## Plan

1. The core: recorder, JPEG path, server, DVRIP client, UDP relay; runs,
   mutations; proofs for the recorder. Done.
2. Extend the model: target discovery of the UDP relay, callbacks and their lifetime,
   child processes, framing of the DVRIP stream, device settings, text boxes. Done.
3. Prove every safety property, action property and step refinement that the runs
   check. Done.
4. Left: the recorder composed with the server, whose raw frames are its input;
   `StreamServer`'s camera as an abstraction that `DvripCam` implements; the hazards
   without a property, see [what makes it hard](#what-is-hard-and-what-makes-each-component-correct).
