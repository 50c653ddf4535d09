---------------------------- MODULE CallbackSlots ----------------------------
(***************************************************************************)
(* The callbacks of a StreamServer or a UdpStreamServer, as the C API       *)
(* (src/src/cppdvr_api.cpp) hands them out: functions with a pointer to an   *)
(* object of the application, its user data or a recorder.  One API thread  *)
(* sets and replaces them, starts and stops the server and frees objects;   *)
(* the server's threads call them meanwhile.  A slot is either called under *)
(* its mutex, or copied under it and called afterwards.                     *)
(*                                                                         *)
(* What the calls do is in the modules of their components.  The API thread *)
(* keeps the rules of docs/USAGE.md and of the headers (MayStart, MayFree); *)
(* the code does not enforce them.  Faulty twins serve mutations only.      *)
(***************************************************************************)
EXTENDS FiniteSets

CONSTANTS
  Objects,     \* user data and recorders that callbacks point to
  NoObject     \* a slot is empty

ASSUME NoObjectAssumption == NoObject \notin Objects

Kinds == {"stream", "udp"}

(* "camera" stands for the camera, pipeline and HTTP threads, which log.     *)
Threads(k) == IF k = "stream" THEN {"camera", "monitor", "worker"} ELSE {"receiver"}

(* Threads that start and end with the server. *)
Resident == {"camera", "receiver"}

(* The slots a thread calls, in any order: JpegPath has the order.          *)
Slots(t) ==
  CASE t = "camera"   -> {"log"}
    [] t = "monitor"  -> {"log", "raw"}
    [] t = "worker"   -> {"log", "overlayFrame", "jpeg", "overlayJpeg"}
    [] t = "receiver" -> {"udpLog", "udpInput", "udpJpeg"}

AllThreads == UNION {Threads(k) : k \in Kinds}
AllSlots   == UNION {Slots(t) : t \in AllThreads}

(* The slots that are called with their mutex held. *)
NotEvenJpeg   == {"log", "raw", "overlayJpeg", "udpLog"}
CalledLocked  == {"log", "raw", "jpeg", "overlayJpeg", "udpLog"}

Off  == [at |-> "off", slot |-> "none", object |-> NoObject]
Free == [at |-> "free", slot |-> "none", object |-> NoObject]

VARIABLES
  kind,     \* the kind of server
  server,   \* stopped, running, stopping (stop waits in join) or destroyed
  slot,     \* the object of the callback in each slot
  call,     \* what each thread of the server does: off, free of calls,
            \* holding a copy of a callback, or inside one
  alive,    \* objects that have not been freed
  loose     \* history: objects a copied slot has had since start

vars == <<kind, server, slot, call, alive, loose>>

CallbackTypeOK ==
  /\ kind \in Kinds
  /\ server \in {"stopped", "running", "stopping", "destroyed"}
  /\ slot \in [AllSlots -> Objects \cup {NoObject}]
  /\ call \in [AllThreads -> [at     : {"off", "free", "copied", "inside"},
                              slot   : AllSlots \cup {"none"},
                              object : Objects \cup {NoObject}]]
  /\ alive \subseteq Objects /\ loose \subseteq Objects

Init ==
  /\ kind \in Kinds /\ server = "stopped"
  /\ slot = [s \in AllSlots |-> NoObject]
  /\ call = [t \in AllThreads |-> Off]
  /\ alive = Objects /\ loose = {}

SlotsOfKind == UNION {Slots(t) : t \in Threads(kind)}
Holders     == {s \in AllSlots : slot[s] # NoObject}
LooseNow    == {slot[s] : s \in Holders \ CalledLocked}
MutexHeld(s) == \E t \in AllThreads : call[t].at = "inside" /\ call[t].slot = s

ApiReady == server \in {"stopped", "running"}
-----------------------------------------------------------------------------
(* The API thread. *)

(* The setters of the two servers wait for a call in progress under the     *)
(* mutex of the slot.                                                       *)
SetCallback(s, o) ==
  /\ ApiReady /\ s \in SlotsOfKind
  /\ s \in CalledLocked => ~MutexHeld(s)
  /\ slot' = [slot EXCEPT ![s] = o]
  /\ loose' = IF server = "running" /\ s \notin CalledLocked
              THEN loose \cup ({o} \ {NoObject}) ELSE loose
  /\ UNCHANGED <<kind, server, call, alive>>

(* stream_set_log_callback and stream_set_jpeg_callback.                    *)
SetStreamCallback(o)  == \E s \in {"log", "jpeg"} : SetCallback(s, o)

(* stream_set_overlay_frame_callback and stream_set_overlay_jpeg_callback.  *)
SetOverlayCallback(o) == \E s \in {"overlayFrame", "overlayJpeg"} : SetCallback(s, o)

(* udp_set_input_callback, udp_set_jpeg_callback and udp_set_log_callback.  *)
SetUdpCallback(o)     == \E s \in {"udpInput", "udpJpeg", "udpLog"} : SetCallback(s, o)

(* VideoRecorder::init takes the slot of the raw frames, whoever had it.    *)
InitRecorder(o)       == o # NoObject /\ SetCallback("raw", o)

(* recorder_deinit leaves the recorder in the slot, so an application that  *)
(* frees one has to fill the slot again before the next start.              *)
MayStart == \A s \in Holders : slot[s] \in alive

Start ==
  /\ server = "stopped" /\ MayStart
  /\ server' = "running"
  /\ call' = [t \in AllThreads |-> IF t \in Threads(kind) \cap Resident
                                   THEN Free ELSE Off]
  /\ loose' = LooseNow
  /\ UNCHANGED <<kind, slot, alive>>

Stop ==
  /\ server = "running" /\ server' = "stopping"
  /\ UNCHANGED <<kind, slot, call, alive, loose>>

Joined == \A t \in Resident : call[t] = Off

StopReturns ==
  /\ server = "stopping" /\ Joined
  /\ server' = "stopped"
  /\ UNCHANGED <<kind, slot, call, alive, loose>>

(* stream_destroy and udp_destroy; the destructors stop a running server,   *)
(* which is Stop and StopReturns.                                           *)
Destroy ==
  /\ server = "stopped" /\ server' = "destroyed"
  /\ UNCHANGED <<kind, slot, call, alive, loose>>

(* While the server runs, "safe to replace at any time" lets an application *)
(* free what no slot points to any more; what a copied slot has had has to  *)
(* wait for stop.                                                           *)
MayFree(o) ==
  \/ server \in {"stopped", "destroyed"}
  \/ ApiReady /\ o \notin loose /\ \A s \in AllSlots : slot[s] # o

FreeObject(o) ==
  /\ o \in alive /\ MayFree(o)
  /\ alive' = alive \ {o}
  /\ UNCHANGED <<kind, server, slot, call, loose>>
-----------------------------------------------------------------------------
(* The threads of the server. *)

Goes(t, c) ==
  /\ call' = [call EXCEPT ![t] = c]
  /\ UNCHANGED <<kind, server, slot, alive, loose>>

(* The monitor starts with each connection and the worker with each run of  *)
(* ffmpeg, also once stop has begun, until their resident thread has ended. *)
Begin(t) ==
  /\ t \in Threads(kind) \ Resident /\ call[t] = Off
  /\ call["camera"] # Off
  /\ Goes(t, Free)

(* A resident thread joins those it has started. *)
LeavesThem(t) == t \in Resident => server = "stopping"
MayEnd(t) == t \in Resident =>
               server = "stopping" /\ \A u \in AllThreads \ {t} : call[u] = Off

End(t) ==
  /\ call[t] = Free /\ MayEnd(t)
  /\ Goes(t, Off)

CallLocked(t, s) ==
  /\ call[t] = Free /\ s \in Slots(t) \cap CalledLocked
  /\ slot[s] # NoObject /\ ~MutexHeld(s)
  /\ Goes(t, [at |-> "inside", slot |-> s, object |-> slot[s]])

CopyCallback(t, s) ==
  /\ call[t] = Free /\ s \in Slots(t) \ CalledLocked
  /\ slot[s] # NoObject
  /\ Goes(t, [at |-> "copied", slot |-> s, object |-> slot[s]])

CallCopy(t) ==
  /\ call[t].at = "copied"
  /\ Goes(t, [call[t] EXCEPT !.at = "inside"])

CallReturns(t) ==
  /\ call[t].at = "inside"
  /\ Goes(t, Free)
-----------------------------------------------------------------------------
ApiStep ==
  \/ \E o \in alive \cup {NoObject} : \/ SetStreamCallback(o) \/ SetOverlayCallback(o)
                                      \/ SetUdpCallback(o) \/ InitRecorder(o)
  \/ Start \/ Stop \/ StopReturns \/ Destroy
  \/ \E o \in Objects : FreeObject(o)

ThreadStep(t) ==
  \/ Begin(t) \/ End(t)
  \/ \E s \in AllSlots : CallLocked(t, s) \/ CopyCallback(t, s)
  \/ CallCopy(t) \/ CallReturns(t)

Next == ApiStep \/ \E t \in AllThreads : ThreadStep(t)

Spec == Init /\ [][Next]_vars
-----------------------------------------------------------------------------
(* Properties. *)

(* An application that keeps the rules is never called back with an object *)
(* it has freed, whatever it replaces while the threads are in calls and    *)
(* however often the server is stopped and started: stop waits for every    *)
(* thread that calls, and a setter for the call in progress.                *)
NoCallAfterFree ==
  \A t \in AllThreads : call[t].at = "inside" => call[t].object \in alive

(* Once a slot that is called under its mutex has been replaced, no thread  *)
(* is in the callback that was there: "safe to replace at any time", as     *)
(* include/stream_server.h:104 and :123 say of the JPEG and raw frame ones. *)
(* (It does not hold of the slots that are copied.)                         *)
ReplacedIsDone ==
  \A t \in AllThreads, s \in {"log", "raw", "jpeg", "overlayJpeg", "udpLog"} :
    (call[t].at = "inside" /\ call[t].slot = s) => call[t].object = slot[s]
=============================================================================
