---------------------------- MODULE CApiProofs ----------------------------
(***************************************************************************)
(* Proofs about what goes through the C API.                               *)
(*                                                                         *)
(* Callbacks, for any set of objects: a call under a mutex is a call of    *)
(* what the slot holds, and what the slots hold while the server runs is   *)
(* alive; a copy may be older than the slot, but what has been in such a   *)
(* slot since start is not freed until stop has joined the resident        *)
(* threads, which join the others before they end.                         *)
(*                                                                         *)
(* Settings, for any number of clients and channels: a document is         *)
(* followed from the device to the reply, to the call that changes it and  *)
(* back to the device, as a whole document and, while nobody else writes,  *)
(* as the setting itself.                                                  *)
(***************************************************************************)
EXTENDS CallbackSlots, DeviceConfig, SequenceTheorems, TLAPS

Serving == server \in {"running", "stopping"}

(* A call under a mutex is of what is in the slot; a copy was there since   *)
(* start.                                                                  *)
LockedIsCurrent ==
  \A t \in AllThreads :
    call[t].at = "inside" /\ call[t].slot \in CalledLocked =>
      call[t].object # NoObject /\ call[t].object = slot[call[t].slot]

CopiedIsLoose ==
  \A t \in AllThreads :
    /\ call[t].at = "copied" => call[t].slot \notin CalledLocked
    /\ call[t].at \in {"copied", "inside"} => Serving /\ call[t].slot \in AllSlots
    /\ call[t].at \in {"copied", "inside"} /\ call[t].slot \notin CalledLocked =>
         call[t].object \in loose \cap alive

(* What the slots of a server that runs hold is alive, and known to be      *)
(* loose where copies are made.                                            *)
SlotsAreAlive ==
  Serving => \A s \in Holders : /\ slot[s] \in alive
                                /\ s \notin CalledLocked => slot[s] \in loose

(* No thread outlasts the resident ones, nor any of them stop.              *)
ResidentsAreLast ==
  (\A t \in Resident : call[t] = Off) => \A t \in AllThreads : call[t] = Off

StoppedIsQuiet == Serving \/ \A t \in AllThreads : call[t] = Off

IInv == /\ CallbackTypeOK /\ LockedIsCurrent /\ CopiedIsLoose /\ SlotsAreAlive
        /\ ResidentsAreLast /\ StoppedIsQuiet

(* The names of the threads. *)
LEMMA ThreadNames ==
  /\ Resident \subseteq AllThreads /\ "camera" \in Resident
  /\ \A k \in Kinds : Threads(k) \subseteq AllThreads
  /\ \A t \in AllThreads : Slots(t) \subseteq AllSlots
BY SMT DEF AllThreads, AllSlots, Threads, Kinds, Resident

LEMMA SlotNames ==
  {"log", "jpeg", "raw", "overlayFrame", "overlayJpeg", "udpInput", "udpJpeg", "udpLog"}
    \subseteq AllSlots
BY SMT DEF AllSlots, AllThreads, Threads, Kinds, Slots

(* The server begins with no thread and no call. *)
LEMMA InitIInv == Init => IInv
<1> SUFFICES ASSUME Init PROVE IInv OBVIOUS
<1>1. \A t \in AllThreads : call[t] = Off BY DEF Init
<1>2. CallbackTypeOK BY NoObjectAssumption DEF Init, CallbackTypeOK, Off
<1> QED BY <1>1, <1>2 DEF Init, IInv, LockedIsCurrent, CopiedIsLoose, SlotsAreAlive,
     Serving, ResidentsAreLast, StoppedIsQuiet, Off

(* Setting a callback: an object that is alive, into a slot nobody is in   *)
(* when it is called under its mutex.                                      *)
LEMMA SetKeepsIInv ==
  ASSUME IInv, NEW s \in AllSlots, NEW o \in alive \cup {NoObject}, SetCallback(s, o)
  PROVE  IInv'
<1> USE DEF SetCallback, Serving
<1>1. CallbackTypeOK' BY DEF IInv, CallbackTypeOK
<1>2. LockedIsCurrent'
  <2> SUFFICES ASSUME NEW t \in AllThreads, call[t].at = "inside", call[t].slot \in CalledLocked
               PROVE  call[t].object # NoObject /\ call[t].object = slot'[call[t].slot]
      BY DEF LockedIsCurrent
  <2>1. call[t].slot # s BY DEF MutexHeld
  <2> QED BY <2>1 DEF IInv, LockedIsCurrent, CallbackTypeOK, CopiedIsLoose
<1>3. CopiedIsLoose' BY DEF IInv, CopiedIsLoose
<1>4. SlotsAreAlive' BY DEF IInv, SlotsAreAlive, Holders, CallbackTypeOK, ApiReady
<1>5. ResidentsAreLast' /\ StoppedIsQuiet' BY DEF IInv, ResidentsAreLast, StoppedIsQuiet
<1> QED BY <1>1, <1>2, <1>3, <1>4, <1>5 DEF IInv

(* start, stop and the destruction. *)
LEMMA LifecycleKeepsIInv ==
  ASSUME IInv, Start \/ Stop \/ StopReturns \/ Destroy
  PROVE  IInv'
<1>1. CASE Start
  <2>1. CallbackTypeOK'
        BY <1>1 DEF Start, IInv, CallbackTypeOK, Off, Free, LooseNow, Holders
  <2>2. \A t \in AllThreads : call'[t] \in {Off, Free} BY <1>1 DEF Start
  <2>3. LockedIsCurrent' /\ CopiedIsLoose'
        BY <2>2 DEF LockedIsCurrent, CopiedIsLoose, Off, Free
  <2>4. SlotsAreAlive'
        BY <1>1 DEF Start, MayStart, SlotsAreAlive, Holders, LooseNow
  <2>5. ResidentsAreLast' BY <1>1, ThreadNames DEF Start, ResidentsAreLast, Free, Off
  <2>6. StoppedIsQuiet' BY <1>1 DEF Start, StoppedIsQuiet, Serving
  <2> QED BY <2>1, <2>3, <2>4, <2>5, <2>6 DEF IInv
<1>2. CASE Stop
  BY <1>2 DEF Stop, IInv, CallbackTypeOK, LockedIsCurrent, CopiedIsLoose, SlotsAreAlive,
     Holders, Serving, ResidentsAreLast, StoppedIsQuiet
<1>3. CASE StopReturns
  <2>1. \A t \in AllThreads : call[t] = Off
        BY <1>3 DEF StopReturns, Joined, IInv, ResidentsAreLast
  <2> QED BY <2>1, <1>3 DEF StopReturns, IInv, CallbackTypeOK, LockedIsCurrent, CopiedIsLoose,
           SlotsAreAlive, Serving, ResidentsAreLast, StoppedIsQuiet, Off
<1>4. CASE Destroy
  BY <1>4 DEF Destroy, IInv, CallbackTypeOK, LockedIsCurrent, CopiedIsLoose, SlotsAreAlive,
     Holders, Serving, ResidentsAreLast, StoppedIsQuiet
<1> QED BY <1>1, <1>2, <1>3, <1>4

(* The application frees an object: of a server at rest, or one that no     *)
(* slot and no copy can have.                                              *)
LEMMA FreeKeepsIInv ==
  ASSUME IInv, NEW o \in Objects, FreeObject(o)
  PROVE  IInv'
<1> USE DEF FreeObject
<1>1. CallbackTypeOK' /\ LockedIsCurrent' /\ ResidentsAreLast' /\ StoppedIsQuiet'
      BY DEF IInv, CallbackTypeOK, LockedIsCurrent, ResidentsAreLast, StoppedIsQuiet, Serving
<1>2. Serving => o \notin loose /\ \A s \in AllSlots : slot[s] # o
      BY DEF MayFree, Serving
<1>3. CopiedIsLoose' BY <1>2 DEF IInv, CopiedIsLoose, Serving
<1>4. SlotsAreAlive' BY <1>2 DEF IInv, SlotsAreAlive, Serving, Holders
<1> QED BY <1>1, <1>3, <1>4 DEF IInv

(* A thread begins, ends, calls or returns. *)
LEMMA ThreadKeepsIInv ==
  ASSUME IInv, NEW t \in AllThreads, ThreadStep(t)
  PROVE  IInv'
<1> USE DEF Goes, Serving
<1>1. CASE Begin(t)
  <2>1. t \notin Resident /\ call["camera"] # Off /\ call' = [call EXCEPT ![t] = Free]
        BY <1>1 DEF Begin
  <2>2. Serving /\ ResidentsAreLast'
        BY <2>1, ThreadNames DEF IInv, CallbackTypeOK, StoppedIsQuiet, ResidentsAreLast
  <2>3. CallbackTypeOK' BY <1>1 DEF Begin, IInv, CallbackTypeOK, Free
  <2>4. LockedIsCurrent' /\ CopiedIsLoose' /\ SlotsAreAlive' /\ StoppedIsQuiet'
        BY <1>1, <2>2 DEF Begin, IInv, CallbackTypeOK, LockedIsCurrent, CopiedIsLoose,
           SlotsAreAlive, Holders, StoppedIsQuiet, Free
  <2> QED BY <2>2, <2>3, <2>4 DEF IInv
<1>2. CASE End(t)
  <2>1. CallbackTypeOK' BY <1>2 DEF End, IInv, CallbackTypeOK, Off
  <2>2. ResidentsAreLast'
    <3>1. CASE t \in Resident
      BY <1>2, <3>1 DEF End, MayEnd, ResidentsAreLast, IInv, CallbackTypeOK
    <3>2. CASE t \notin Resident
      BY <1>2, <3>2, ThreadNames DEF End, ResidentsAreLast, IInv, CallbackTypeOK, Free, Off
    <3> QED BY <3>1, <3>2
  <2>3. LockedIsCurrent' /\ CopiedIsLoose' /\ SlotsAreAlive' /\ StoppedIsQuiet'
        BY <1>2 DEF End, IInv, CallbackTypeOK, LockedIsCurrent, CopiedIsLoose,
           SlotsAreAlive, Holders, StoppedIsQuiet, Off
  <2> QED BY <2>1, <2>2, <2>3 DEF IInv
<1>3. ASSUME NEW c, call' = [call EXCEPT ![t] = c], c # Off, call[t] # Off, IInv
      PROVE  ResidentsAreLast'
  BY <1>3, ThreadNames DEF IInv, ResidentsAreLast, CallbackTypeOK
<1>4. call[t] # Off => Serving BY DEF IInv, StoppedIsQuiet
<1>5. ASSUME NEW s \in AllSlots, CallLocked(t, s) \/ CopyCallback(t, s) PROVE IInv'
  <2>1. CallbackTypeOK' BY <1>5 DEF CallLocked, CopyCallback, IInv, CallbackTypeOK
  <2>2. call[t] # Off BY <1>5 DEF CallLocked, CopyCallback, Free, Off
  <2>3. ResidentsAreLast' BY <1>5, <2>2, <1>3 DEF CallLocked, CopyCallback, Off
  <2>4. slot[s] \in alive /\ (s \notin CalledLocked => slot[s] \in loose)
        BY <1>4, <1>5, <2>2 DEF CallLocked, CopyCallback, IInv, SlotsAreAlive, Holders
  <2>5. LockedIsCurrent' 
        BY <1>5 DEF CallLocked, CopyCallback, IInv, LockedIsCurrent, CallbackTypeOK
  <2>6. CopiedIsLoose'
        BY <1>5, <1>4, <2>2, <2>4 DEF CallLocked, CopyCallback, IInv, CopiedIsLoose, CallbackTypeOK
  <2>7. SlotsAreAlive' /\ StoppedIsQuiet'
        BY <1>5, <1>4, <2>2 DEF CallLocked, CopyCallback, IInv, SlotsAreAlive, Holders, StoppedIsQuiet
  <2> QED BY <2>1, <2>3, <2>5, <2>6, <2>7 DEF IInv
<1>6. CASE CallCopy(t) \/ CallReturns(t)
  <2>1. CallbackTypeOK' BY <1>6 DEF CallCopy, CallReturns, IInv, CallbackTypeOK, Free
  <2>2. call[t] # Off BY <1>6 DEF CallCopy, CallReturns, Off
  <2>3. ResidentsAreLast'
        BY <1>6, <2>2, <1>3 DEF CallCopy, CallReturns, Free, Off, IInv, CallbackTypeOK
  <2>4. LockedIsCurrent' /\ CopiedIsLoose'
        BY <1>6 DEF CallCopy, CallReturns, IInv, LockedIsCurrent, CopiedIsLoose, CallbackTypeOK, Free
  <2>5. SlotsAreAlive' /\ StoppedIsQuiet'
        BY <1>6, <1>4, <2>2 DEF CallCopy, CallReturns, IInv, SlotsAreAlive, Holders, StoppedIsQuiet
  <2> QED BY <2>1, <2>3, <2>4, <2>5 DEF IInv
<1> QED BY <1>1, <1>2, <1>5, <1>6 DEF ThreadStep

(* The invariant is inductive. *)
LEMMA NextKeepsIInv == IInv /\ [Next]_vars => IInv'
<1> SUFFICES ASSUME IInv, [Next]_vars PROVE IInv' OBVIOUS
<1>1. CASE ApiStep
  <2>1. ASSUME NEW o \in alive \cup {NoObject},
               \/ SetStreamCallback(o) \/ SetOverlayCallback(o)
               \/ SetUdpCallback(o) \/ InitRecorder(o)
        PROVE  IInv'
    <3>1. \E s \in AllSlots : SetCallback(s, o)
          BY <2>1, SlotNames DEF SetStreamCallback, SetOverlayCallback, SetUdpCallback, InitRecorder
    <3> QED BY <3>1, SetKeepsIInv
  <2> QED BY <1>1, <2>1, LifecycleKeepsIInv, FreeKeepsIInv DEF ApiStep
<1>2. CASE \E t \in AllThreads : ThreadStep(t) BY <1>2, ThreadKeepsIInv
<1>3. CASE UNCHANGED vars
  BY <1>3 DEF vars, IInv, CallbackTypeOK, LockedIsCurrent, CopiedIsLoose, SlotsAreAlive,
     Holders, Serving, ResidentsAreLast, StoppedIsQuiet
<1> QED BY <1>1, <1>2, <1>3 DEF Next

LEMMA Invariant == Spec => []IInv
BY InitIInv, NextKeepsIInv, PTL DEF Spec

(* The types of the callback slots (Impl's functions of StreamServer and    *)
(* UdpStreamServer), for any set of objects.                               *)
THEOREM TypeCorrect == Spec => []CallbackTypeOK
<1>1. IInv => CallbackTypeOK BY DEF IInv
<1> QED BY <1>1, Invariant, PTL

(* No callback gets an object that has been freed, however many there are  *)
(* and however they are swapped while the threads of the server call.      *)
THEOREM CallsAreSafe == Spec => []NoCallAfterFree
<1>1. IInv => NoCallAfterFree
  BY DEF IInv, NoCallAfterFree, LockedIsCurrent, CopiedIsLoose, SlotsAreAlive, Holders, CallbackTypeOK
<1> QED BY <1>1, Invariant, PTL

(* When a setter of a slot under a mutex has returned, the callback that   *)
(* was there is not running (set_jpeg_callback, set_raw_frame_callback).   *)
THEOREM ReplacingWaits == Spec => []ReplacedIsDone
<1>1. IInv => ReplacedIsDone BY DEF IInv, ReplacedIsDone, LockedIsCurrent, CalledLocked
<1> QED BY <1>1, Invariant, PTL
-----------------------------------------------------------------------------
(* The settings of a device.                                                *)

(* A call keeps its fields, and a set has a channel. *)
CallFields == {"at", "op", "name", "info", "channel", "doc"}

CallShape(k) ==
  /\ DOMAIN k = CallFields
  /\ k.at \in {"idle", "send", "receive", "gone"}
  /\ k.op \in {"none", "get", "read", "write", "time", "command"}
  /\ k.name \in Settings
  /\ k.op \in {"read", "write"} /\ k.name # "net" => k.channel \in Channels

ShapeInv ==
  /\ DOMAIN device = Settings /\ DOMAIN latest = Settings
  /\ DOMAIN callof = Clients /\ DOMAIN stream = Clients /\ DOMAIN returned = Clients
  /\ \A c \in Clients : CallShape(callof[c])

(* What a document has while nothing else than the setting has been read:   *)
(* all its fields, and the one the library does not know as it was.         *)
Writers == Clients \cup {"device"}

Whole(s, doc) ==
  IF s = "net"
  THEN doc.type = "object" /\ DOMAIN doc.at = NetFields /\ doc.at["Other"] = "device"
  ELSE /\ doc.type = "array" /\ doc.at \in [Channels -> [PartFields -> Writers]]
       /\ \A ch \in Channels : doc.at[ch]["Other"] = "device"

Trusted(s) == s = "color" \/ ~misread

Sound(r) == r.op = "read" /\ r.ok /\ Trusted(r.name) => Whole(r.name, r.doc)

Carries(k, amiss) ==
  k.op = "write" /\ (k.name = "color" \/ ~amiss) => Whole(k.name, k.doc)

WholeInv ==
  /\ \A s \in Settings : Trusted(s) => Whole(s, device[s])
  /\ \A c \in Clients : Carries(callof[c], misread)

StreamInv == \A c \in Clients : \E R : stream[c] \in Seq(R) /\ \A r \in R : Sound(r)

(* Until a receive of a client fails, what it may receive is the reply to   *)
(* what it has sent.                                                        *)
Answered(op) == IF op = "get" THEN "read" ELSE op

Replied(k, s) ==
  IF k.at = "receive"
  THEN Len(s) = 1 /\ s[1].op = Answered(k.op) /\ s[1].name = k.name
  ELSE s = <<>>

PromptInv == \A c \in Clients \ late : Replied(callof[c], stream[c])

(* Unless another client has written the setting since, a client that is    *)
(* about to write has it as it is, and so has the reply on its way to one.  *)
Fresh(k, s, untimely, now) ==
  /\ k.op = "write" /\ k.at = "send" => k.doc = now[k.name]
  /\ k.op = "read" /\ k.at = "receive" /\ ~untimely /\ s[1].ok => s[1].doc = now[k.name]

FreshInv ==
  /\ ~misread => \A c \in Clients \ overtaken : Fresh(callof[c], stream[c], c \in late, device)
  /\ UpdatesAreAtomic

(* What the device did and what the reply and then the call says.           *)
Told(k, s, did, value) ==
  /\ k.at = "send" => ~did
  /\ k.at \in {"send", "receive"} => value = "none"
  /\ k.at = "receive" =>
       /\ k.op = "read" => ~did
       /\ k.op \in {"write", "time", "command"} => (did <=> s[1].ok)
       /\ k.op = "get" /\ k.name # "net" => (did <=> s[1].ok /\ HasChannel(s[1].doc, k.channel))
  /\ value = "yes" => did
  /\ value = "no" => ~did

AnswerInv ==
  \A c \in Clients \ late : Told(callof[c], stream[c], c \in stored, returned[c])

-----------------------------------------------------------------------------
(* The changes to a document.                                               *)

(* set_network_info keeps the fields of a whole document, and changes what  *)
(* the structure names.                                                     *)
LEMMA NetworkChanges ==
  ASSUME NEW doc, NEW info, Whole("net", doc)
  PROVE  /\ Whole("net", ChangesNetwork(doc, info))
         /\ ChangesNetwork(doc, info) =
              Object([f \in DOMAIN doc.at |-> IF f \in Named(info) THEN info[f] ELSE doc.at[f]])
<1>1. Named(info) \subseteq InfoFields BY DEF Named
<1>2. "Other" \in NetFields /\ "Other" \notin InfoFields BY DEF NetFields, InfoFields
<1>3. DOMAIN doc.at = NetFields /\ doc.at["Other"] = "device" BY DEF Whole
<1>4. DOMAIN doc.at \cup Named(info) = DOMAIN doc.at BY <1>1, <1>3 DEF NetFields
<1>5. ChangesNetwork(doc, info) =
        Object([f \in DOMAIN doc.at |-> IF f \in Named(info) THEN info[f] ELSE doc.at[f]])
      BY <1>4, Zenon DEF ChangesNetwork
<1> QED BY <1>1, <1>2, <1>3, <1>5 DEF Whole, Object

(* The length of an array for all channels. *)
LEMMA ArrayLength ==
  ASSUME NEW V, NEW arr \in [Channels -> V]
  PROVE  Len(arr) = NumChannels
BY ConfigAssumption DEF Channels

LEMMA MaxOfTwo ==
  ASSUME NEW a \in Nat, NEW b \in Nat, a <= b
  PROVE  Max({a, b}) = b
<1> DEFINE P(x) == x \in {a, b} /\ \A y \in {a, b} : x >= y
<1>1. P(b) OBVIOUS
<1>2. \A x : P(x) => x = b OBVIOUS
<1>3. P(CHOOSE x : P(x)) BY <1>1, Zenon
<1> QED BY <1>2, <1>3, Zenon DEF Max

(* set_encode_config and set_video_color keep the channels and the fields   *)
(* of a whole document, and change one field of one channel.                *)
LEMMA EncodeChanges ==
  ASSUME NEW s \in {"enc", "color"}, NEW doc, NEW channel \in Channels, NEW value \in Writers,
         Whole(s, doc)
  PROVE  /\ Whole(s, ChangesEncode(doc, channel, value))
         /\ ChangesEncode(doc, channel, value) = Array([doc.at EXCEPT ![channel]["Format"] = value])
<1> DEFINE arr  == doc.at
           part(i) == IF i <= Len(arr) THEN arr[i] ELSE NoFields
           new  == [arr EXCEPT ![channel]["Format"] = value]
<1>1. doc.type = "array" /\ arr \in [Channels -> [PartFields -> Writers]] BY DEF Whole
<1>2. \A ch \in Channels : arr[ch]["Other"] = "device" BY DEF Whole
<1>3. Len(arr) = NumChannels BY <1>1, ArrayLength
<1>4. Elements(doc) = arr BY <1>1 DEF Elements
<1>5. channel \in Nat /\ NumChannels \in Nat /\ channel <= NumChannels
      BY ConfigAssumption DEF Channels
<1>6. Max({channel, Len(arr)}) = NumChannels BY <1>3, <1>5, MaxOfTwo
<1>7. \A i \in Channels : part(i) = arr[i] BY <1>3, ConfigAssumption DEF Channels
<1>8. ChangesPart(arr[channel], value) = [arr[channel] EXCEPT !["Format"] = value]
  <2>1. arr[channel] \in [PartFields -> Writers] BY <1>1
  <2>2. PartFields \cup {"Format"} = PartFields BY DEF PartFields
  <2>3. ASSUME NEW p \in [PartFields -> Writers]
        PROVE  [f \in PartFields |-> IF f = "Format" THEN value ELSE p[f]] = [p EXCEPT !["Format"] = value]
        OBVIOUS
  <2> QED BY <2>1, <2>2, <2>3 DEF ChangesPart
<1>9. new = [i \in Channels |-> IF i = channel THEN [arr[channel] EXCEPT !["Format"] = value] ELSE arr[i]]
      BY <1>1
<1>10. ChangesEncode(doc, channel, value) =
         Array([i \in 1 .. NumChannels |->
                  IF i = channel THEN ChangesPart(part(i), value) ELSE part(i)])
       BY <1>4, <1>6 DEF ChangesEncode
<1>11. [i \in 1 .. NumChannels |-> IF i = channel THEN ChangesPart(part(i), value) ELSE part(i)]
         = [i \in Channels |-> IF i = channel THEN [arr[channel] EXCEPT !["Format"] = value] ELSE arr[i]]
  <2> HIDE DEF part
  <2> QED BY <1>7, <1>8 DEF Channels
<1>12. ChangesEncode(doc, channel, value) = Array(new) BY <1>9, <1>10, <1>11
<1>13. new \in [Channels -> [PartFields -> Writers]] BY <1>1 DEF PartFields
<1>14. \A ch \in Channels : new[ch]["Other"] = "device" BY <1>1, <1>2 DEF PartFields
<1>15. Whole(s, Array(new)) BY <1>13, <1>14 DEF Whole, Array
<1> QED BY <1>12, <1>15

(* What a write makes of a whole document: the change of what it names.     *)
LEMMA WholeChanges ==
  ASSUME NEW k, CallShape(k), k.op = "write", NEW c \in Clients, Whole(k.name, k.doc)
  PROVE  Whole(k.name, Changed(k, c)) /\ Changed(k, c) = Update(k.doc, k, c)
<1>1. CASE k.name = "net" BY <1>1, NetworkChanges DEF Changed, Update
<1>2. CASE k.name # "net"
  <2>1. k.name \in {"enc", "color"} /\ k.channel \in Channels /\ c \in Writers
        BY <1>2 DEF CallShape, Settings, Writers
  <2> QED BY <1>2, <2>1, EncodeChanges DEF Changed, Update
<1> QED BY <1>1, <1>2

-----------------------------------------------------------------------------
(* What the steps do to the calls.                                          *)

(* A call begins with what it asks first. *)
Opening(k) ==
  CallShape(k) /\ k.at = "send" /\ k.op \in {"get", "read", "time", "command"}

Starts(c) ==
  \/ GetNetwork(c) \/ SetNetwork(c) \/ Command(c) \/ GetTime(c)
  \/ \E channel \in Channels : \/ SetEncode(c, channel) \/ SetColor(c, channel)
                               \/ GetEncode(c, channel) \/ GetColor(c, channel)

LEMMA CallsOpen ==
  ASSUME NEW c \in Clients, Starts(c)
  PROVE  \E k : Begins(c, k) /\ Opening(k)
<1>1. ASSUME NEW op \in {"get", "read", "time", "command"}, NEW name \in Settings,
             NEW channel \in Channels
      PROVE  Opening([Call(op, name) EXCEPT !.channel = channel])
      BY DEF Opening, CallShape, CallFields, Call, NoCall
<1>2. ASSUME NEW op \in {"get", "read", "time", "command"}
      PROVE  Opening(Call(op, "net"))
      BY DEF Opening, CallShape, CallFields, Call, NoCall, Settings
<1>3. ASSUME NEW info PROVE Opening([Call("read", "net") EXCEPT !.info = info])
      BY DEF Opening, CallShape, CallFields, Call, NoCall, Settings
<1>4. CASE GetNetwork(c) \/ Command(c) \/ GetTime(c)
      BY <1>2, <1>4, Zenon DEF GetNetwork, Command, GetTime
<1>5. CASE SetNetwork(c) BY <1>3, <1>5, Zenon DEF SetNetwork
<1>6. ASSUME NEW channel \in Channels,
             \/ SetEncode(c, channel) \/ SetColor(c, channel)
             \/ GetEncode(c, channel) \/ GetColor(c, channel)
      PROVE  \E k : Begins(c, k) /\ Opening(k)
  <2>1. {"net", "enc", "color"} \subseteq Settings BY DEF Settings
  <2> QED BY <1>1, <1>6, <2>1, Zenon DEF SetEncode, SetColor, GetEncode, GetColor
<1> QED BY <1>4, <1>5, <1>6 DEF Starts

(* A call that has its reply is over, or a set that has read is about to    *)
(* write.                                                                   *)
Over(k, next) == next \in {NoCall, [NoCall EXCEPT !.at = "gone"]}

Writes(k, next, reply) ==
  LET doc == GetInfo(reply, k.name) IN
  /\ k.op = "read" /\ (k.name = "color" => HasChannel(doc, k.channel))
  /\ next = [k EXCEPT !.at = "send", !.op = "write", !.doc = doc]

LEMMA CallsContinue ==
  ASSUME ShapeInv, NEW c \in Clients, NEW reply, Continues(c, reply)
  PROVE  /\ \E next : /\ callof' = [callof EXCEPT ![c] = next]
                      /\ \/ Over(callof[c], next)
                         \/ Writes(callof[c], next, reply) /\ returned' = returned
         /\ callof[c].op = "read" =>
              misread' = (misread \/ ~HasDocument(reply, callof[c].name) \/ c \in late')
         /\ callof[c].op # "read" => UNCHANGED misread
<1> DEFINE doc == GetInfo(reply, callof[c].name)
<1>2. CASE callof[c].op = "get" \/ HasAnswer(c, reply)
  BY <1>2 DEF Continues, GotChannel, GotNetwork, HasRead, HasAnswer, Finishes, TellsTime, Throws, Over
<1>3. CASE callof[c].op = "read"
  <2>1. misread' = (misread \/ ~HasDocument(reply, callof[c].name) \/ c \in late')
        BY <1>3, Zenon DEF Continues, GotChannel, GotNetwork, HasRead, HasAnswer
  <2>2. \/ Finishes(c, FALSE)
        \/ /\ ~(callof[c].name = "color" /\ ~HasChannel(doc, callof[c].channel))
           /\ callof' = [callof EXCEPT ![c].at = "send", ![c].op = "write", ![c].doc = doc]
           /\ UNCHANGED returned
        BY <1>3, Zenon DEF Continues, GotChannel, GotNetwork, HasRead, HasAnswer
  <2>3. CASE Finishes(c, FALSE) BY <1>3, <2>1, <2>3 DEF Finishes, Over
  <2>4. ASSUME callof' = [callof EXCEPT ![c].at = "send", ![c].op = "write", ![c].doc = doc]
        PROVE  callof' = [callof EXCEPT ![c] = [callof[c] EXCEPT !.at = "send", !.op = "write", !.doc = doc]]
    <3> HIDE DEF doc
    <3> QED BY <2>4 DEF ShapeInv, CallShape, CallFields
  <2> QED BY <1>3, <2>1, <2>2, <2>3, <2>4, Zenon DEF Writes
<1> QED BY <1>2, <1>3, Zenon DEF Continues, GotChannel, GotNetwork, HasRead

LEMMA ShapeKept == ShapeInv /\ [ConfigNext]_configvars => ShapeInv'
<1> SUFFICES ASSUME ShapeInv, [ConfigNext]_configvars PROVE ShapeInv' OBVIOUS
<1>1. ASSUME NEW c \in Clients, NEW k, callof' = [callof EXCEPT ![c] = k], CallShape(k)
      PROVE  DOMAIN callof' = Clients /\ \A d \in Clients : CallShape(callof'[d])
      BY <1>1 DEF ShapeInv
<1>2. ASSUME NEW c \in Clients, NEW k, Begins(c, k), Opening(k) PROVE ShapeInv'
  <2>1. CallShape(k) BY <1>2 DEF Opening
  <2> QED BY <1>1, <1>2, <2>1 DEF Begins, ShapeInv
<1>3. ASSUME NEW c \in Clients, NEW reply, Continues(c, reply)
      PROVE  /\ DOMAIN callof' = Clients /\ \A d \in Clients : CallShape(callof'[d])
             /\ DOMAIN returned' = Clients
  <2>1. PICK next : /\ callof' = [callof EXCEPT ![c] = next]
                    /\ Over(callof[c], next) \/ Writes(callof[c], next, reply)
        BY <1>3, CallsContinue
  <2>4. CallShape(next) 
    <3>1. CASE Over(callof[c], next) BY <3>1 DEF Over, CallShape, CallFields, NoCall, Settings
    <3>2. CASE Writes(callof[c], next, reply)
      <4>1. ASSUME NEW k, NEW doc, CallShape(k), k.op = "read"
            PROVE  CallShape([k EXCEPT !.at = "send", !.op = "write", !.doc = doc])
            BY <4>1 DEF CallShape, CallFields
      <4> QED BY <3>2, <4>1 DEF Writes, ShapeInv
    <3> QED BY <2>1, <3>1, <3>2
  <2>5. DOMAIN returned' = Clients
        BY <1>3 DEF Continues, GotChannel, GotNetwork, HasRead, HasAnswer, Finishes, TellsTime, Throws, ShapeInv
  <2> QED BY <1>1, <2>1, <2>4, <2>5
<1>4. ASSUME NEW c \in Clients, SendFails(c) PROVE ShapeInv'
      BY <1>3, <1>4 DEF SendFails, ShapeInv
<1>5. ASSUME NEW c \in Clients, Sends(c) PROVE ShapeInv'
  <2>1. callof' = [callof EXCEPT ![c] = [callof[c] EXCEPT !.at = "receive"]]
        BY <1>5 DEF Sends
  <2>2. CallShape([callof[c] EXCEPT !.at = "receive"]) BY DEF ShapeInv, CallShape
  <2>3. DOMAIN stream' = Clients /\ DOMAIN returned' = Clients
        BY <1>5 DEF Sends, Replies, ShapeInv
  <2>4. DOMAIN device' = Settings /\ DOMAIN latest' = Settings
        BY <1>5 DEF Sends, Serves, ShapeInv
  <2> QED BY <1>1, <2>1, <2>2, <2>3, <2>4 DEF ShapeInv
<1>6. ASSUME NEW c \in Clients, Receives(c) PROVE ShapeInv'
      BY <1>3, <1>6 DEF Receives, ShapeInv
<1>7. ASSUME NEW c \in Clients, ReceiveFails(c) PROVE ShapeInv'
      BY <1>3, <1>7 DEF ReceiveFails, ShapeInv
<1>8. CASE UNCHANGED configvars BY <1>8 DEF configvars, history, ShapeInv
<1> QED BY <1>2, <1>4, <1>5, <1>6, <1>7, <1>8, CallsOpen DEF ConfigNext, Starts

(* Once a set has read something else, that stays so. *)
LEMMA MisreadStays ==
  ASSUME ShapeInv, [ConfigNext]_configvars
  PROVE  misread => misread'
<1>1. ASSUME NEW c \in Clients, NEW reply, Continues(c, reply) PROVE misread => misread'
      BY <1>1, Zenon DEF Continues, GotChannel, GotNetwork, HasRead, HasAnswer
<1>2. ASSUME NEW c \in Clients, \/ SendFails(c) \/ Sends(c) \/ Receives(c) \/ ReceiveFails(c)
      PROVE  misread => misread'
      BY <1>1, <1>2, Zenon DEF SendFails, Sends, Receives, ReceiveFails
<1>3. ASSUME NEW c \in Clients, Starts(c) PROVE misread => misread'
      BY <1>3, CallsOpen, Zenon DEF Begins
<1>4. CASE UNCHANGED configvars BY <1>4, Zenon DEF configvars, history
<1> QED BY <1>2, <1>3, <1>4, Zenon DEF ConfigNext, Starts

LEMMA SoundnessStays ==
  ASSUME ShapeInv, [ConfigNext]_configvars
  PROVE  /\ \A s : Trusted(s)' => Trusted(s)
         /\ \A r : Sound(r) => Sound(r)'
<1>1. \A s : Trusted(s)' => Trusted(s) BY MisreadStays, Zenon DEF Trusted
<1>2. ASSUME NEW s, NEW doc, Whole(s, doc) PROVE Whole(s, doc)'
      BY <1>2 DEF Whole
<1>3. ASSUME NEW r, Sound(r) PROVE Sound(r)'
      BY <1>1, <1>2, <1>3, Zenon DEF Sound
<1> QED BY <1>1, <1>3

LEMMA RepliesInSequence ==
  ASSUME NEW R, NEW s \in Seq(R)
  PROVE  /\ \A r : Append(s, r) \in Seq(R \cup {r})
         /\ s # <<>> => Tail(s) \in Seq(R) /\ Head(s) \in R
         /\ Front(s) \in Seq(R)
<1>1. ASSUME NEW r PROVE Append(s, r) \in Seq(R \cup {r})
  <2>1. s \in Seq(R \cup {r}) BY SeqDef
  <2> QED BY <2>1, AppendProperties
<1>2. s # <<>> => Tail(s) \in Seq(R) /\ Head(s) \in R BY HeadTailProperties
<1>3. Front(s) \in Seq(R) BY DEF Front
<1> QED BY <1>1, <1>2, <1>3

(* What a client receives is sound, and so is the document it goes on with. *)
LEMMA NothingIsSound == Sound(NotSent) /\ Sound(Null)
BY DEF Sound, NotSent, Null, Reply

LEMMA StepsAreReplies ==
  ASSUME StreamInv, NEW c \in Clients,
         SendFails(c) \/ Receives(c) \/ ReceiveFails(c)
  PROVE  \E reply : Continues(c, reply) /\ Sound(reply)
<1>1. CASE SendFails(c) BY <1>1, NothingIsSound DEF SendFails
<1>2. CASE ReceiveFails(c) BY <1>2, NothingIsSound DEF ReceiveFails
<1>3. CASE Receives(c) BY <1>3, RepliesInSequence DEF Receives, StreamInv
<1> QED BY <1>1, <1>2, <1>3

LEMMA ReadsWhole ==
  ASSUME ShapeInv, NEW c \in Clients, NEW reply, Sound(reply), NEW next,
         Writes(callof[c], next, reply),
         misread' = (misread \/ ~HasDocument(reply, callof[c].name) \/ c \in late'),
         NEW s, s = callof[c].name, Trusted(s)'
  PROVE  Whole(s, GetInfo(reply, s))
<1>1. CASE HasDocument(reply, s)
  <2>1. reply.op = "read" /\ reply.ok /\ reply.name = s BY <1>1 DEF HasDocument
  <2>2. Trusted(s) BY Zenon DEF Trusted
  <2> QED BY <1>1, <2>1, <2>2 DEF Sound, GetInfo
<1>2. CASE ~HasDocument(reply, s)
  <2>1. misread' BY <1>2, Zenon
  <2>2. s = "color" BY <2>1, Zenon DEF Trusted
  <2>3. GetInfo(reply, s) \in {Void, Answer} BY <1>2 DEF GetInfo
  <2>4. Elements(GetInfo(reply, s)) = <<>>
        BY <2>3 DEF Elements, Void, Answer, Object
  <2>5. ~HasChannel(GetInfo(reply, s), callof[c].channel) BY <2>4 DEF HasChannel
  <2> QED BY <2>2, <2>5 DEF Writes
<1> QED BY <1>1, <1>2

LEMMA WholeKept == ShapeInv /\ WholeInv /\ StreamInv /\ [ConfigNext]_configvars => WholeInv'
<1> SUFFICES ASSUME ShapeInv, WholeInv, StreamInv, [ConfigNext]_configvars PROVE WholeInv'
    OBVIOUS
<1>1. \A s : Trusted(s)' => Trusted(s) BY SoundnessStays
<1>2. \A s \in Settings : Trusted(s)' => Whole(s, device[s])
      BY <1>1, Zenon DEF WholeInv
<1>3. \A c \in Clients : Carries(callof[c], misread')
      BY MisreadStays, Zenon DEF WholeInv, Carries
<1>4. ASSUME NEW c \in Clients, NEW next, callof' = [callof EXCEPT ![c] = next],
             Carries(next, misread'), UNCHANGED device
      PROVE  WholeInv'
  <2>1. \A d \in Clients : Carries(callof'[d], misread')
        BY <1>3, <1>4 DEF ShapeInv
  <2> QED BY <1>2, <1>4, <2>1, Zenon DEF WholeInv
<1>5. ASSUME NEW c \in Clients, Starts(c) PROVE WholeInv'
  <2>1. PICK k : Begins(c, k) /\ Opening(k) BY <1>5, CallsOpen
  <2>2. Carries(k, misread') BY <2>1 DEF Opening, Carries
  <2> QED BY <1>4, <2>1, <2>2 DEF Begins
<1>6. ASSUME NEW c \in Clients, SendFails(c) \/ Receives(c) \/ ReceiveFails(c) PROVE WholeInv'
  <2>1. PICK reply : Continues(c, reply) /\ Sound(reply) BY <1>6, StepsAreReplies
  <2>2. PICK next : /\ callof' = [callof EXCEPT ![c] = next]
                    /\ Over(callof[c], next) \/ Writes(callof[c], next, reply)
        BY <2>1, CallsContinue
  <2>3. Carries(next, misread')
    <3>1. CASE Over(callof[c], next) BY <3>1 DEF Over, NoCall, Carries
    <3>2. CASE Writes(callof[c], next, reply)
      <4>1. misread' = (misread \/ ~HasDocument(reply, callof[c].name) \/ c \in late')
            BY <2>1, <3>2, CallsContinue, Zenon DEF Writes
      <4> DEFINE n == callof[c].name
      <4>2. next.name = n /\ next.doc = GetInfo(reply, n)
            BY <3>2 DEF Writes, ShapeInv, CallShape, CallFields
      <4>3. ASSUME NEW s, s = n, Trusted(s)' PROVE Whole(s, GetInfo(reply, s))
            BY <2>1, <3>2, <4>1, <4>3, ReadsWhole
      <4> QED BY <4>2, <4>3, Zenon DEF Carries, Trusted
    <3> QED BY <2>2, <3>1, <3>2
  <2>4. UNCHANGED device BY <1>6 DEF SendFails, Receives, ReceiveFails
  <2> QED BY <1>4, <2>2, <2>3, <2>4
<1>7. ASSUME NEW c \in Clients, Sends(c) PROVE WholeInv'
  <2>1. callof' = [callof EXCEPT ![c] = [callof[c] EXCEPT !.at = "receive"]]
        BY <1>7 DEF Sends
  <2>2. Carries([callof[c] EXCEPT !.at = "receive"], misread')
        BY <1>3 DEF Carries, ShapeInv, CallShape, CallFields
  <2>3. CASE UNCHANGED device BY <1>4, <2>1, <2>2, <2>3
  <2>4. CASE ~UNCHANGED device
    <3> DEFINE n == callof[c].name
    <3>1. /\ callof[c].op = "write" /\ n \in Settings /\ CallShape(callof[c])
          /\ device' = [device EXCEPT ![n] = Changed(callof[c], c)]
          BY <1>7, <2>4 DEF Sends, Serves, ShapeInv, CallShape
    <3>2. Carries(callof[c], misread') BY <1>3
    <3>3. n = "color" \/ ~misread' => Whole(n, Changed(callof[c], c))
          BY <3>1, <3>2, WholeChanges DEF Carries
    <3> HIDE DEF n
    <3>4. \A s \in Settings : (s = "color" \/ ~misread') => Whole(s, device'[s])
          BY <1>2, <3>1, <3>3 DEF ShapeInv, Trusted
    <3>5. \A d \in Clients : Carries(callof'[d], misread')
          BY <1>3, <2>1, <2>2 DEF ShapeInv
    <3> QED BY <3>4, <3>5, Zenon DEF WholeInv, Trusted
  <2> QED BY <2>3, <2>4
<1>8. CASE UNCHANGED configvars
  <2>1. UNCHANGED <<device, callof>> BY <1>8 DEF configvars
  <2> QED BY <1>2, <1>3, <2>1, Zenon DEF WholeInv
<1> QED BY <1>5, <1>6, <1>7, <1>8, Zenon DEF ConfigNext, Starts

(* The device sends whole documents, and no other reply is changed. *)
LEMMA StreamKept == ShapeInv /\ WholeInv /\ StreamInv /\ [ConfigNext]_configvars => StreamInv'
<1> SUFFICES ASSUME ShapeInv, WholeInv, StreamInv, [ConfigNext]_configvars PROVE StreamInv'
    OBVIOUS
<1>1. \A r : Sound(r) => Sound(r)' BY SoundnessStays
<1>2. \A c \in Clients : \E R : stream[c] \in Seq(R) /\ \A r \in R : Sound(r)'
      BY <1>1 DEF StreamInv
<1>3. ASSUME NEW c \in Clients, NEW s, stream' = [stream EXCEPT ![c] = s],
             NEW R, s \in Seq(R), \A r \in R : Sound(r)'
      PROVE  StreamInv'
  <2>1. \A d \in Clients : \E Q : stream'[d] \in Seq(Q) /\ \A r \in Q : Sound(r)'
        BY <1>2, <1>3 DEF ShapeInv
  <2> QED BY <2>1, Zenon DEF StreamInv
<1>4. ASSUME UNCHANGED stream PROVE StreamInv'
      BY <1>2, <1>4, Zenon DEF StreamInv
<1>5. ASSUME NEW c \in Clients, Starts(c) \/ SendFails(c) PROVE StreamInv'
      BY <1>4, <1>5, CallsOpen DEF Begins, SendFails
<1>6. ASSUME NEW c \in Clients, Receives(c) \/ ReceiveFails(c) PROVE StreamInv'
  <2>1. PICK R : stream[c] \in Seq(R) /\ \A r \in R : Sound(r)' BY <1>2
  <2>2. \/ UNCHANGED stream
        \/ stream[c] # <<>> /\ stream' = [stream EXCEPT ![c] = Tail(stream[c])]
        \/ stream' = [stream EXCEPT ![c] = Front(stream[c])]
        BY <1>6 DEF Receives, ReceiveFails
  <2> QED BY <1>3, <1>4, <2>1, <2>2, RepliesInSequence
<1>7. ASSUME NEW c \in Clients, Sends(c) PROVE StreamInv'
  <2> DEFINE k == callof[c]
             answer(ok) == Reply(IF k.op = "get" THEN "read" ELSE k.op, k.name, ok,
                                 IF ok /\ k.op \in {"get", "read"} THEN device[k.name] ELSE Answer)
  <2>1. PICK ok \in BOOLEAN : stream' = [stream EXCEPT ![c] = Append(stream[c], answer(ok))]
        BY <1>7, Zenon DEF Sends, Replies
  <2>2. Sound(answer(ok))
    <3>1. k.name \in Settings BY DEF ShapeInv, CallShape
    <3> QED BY <3>1 DEF Sound, Reply, WholeInv
  <2> HIDE DEF answer
  <2>3. PICK R : stream[c] \in Seq(R) /\ \A r \in R : Sound(r) BY DEF StreamInv
  <2> DEFINE more == R \cup {answer(ok)}
  <2>4. Append(stream[c], answer(ok)) \in Seq(more) BY <2>3, RepliesInSequence
  <2>5. \A r \in more : Sound(r) BY <2>2, <2>3
  <2> HIDE DEF more
  <2>6. \A r \in more : Sound(r)' BY <2>5, <1>1
  <2> QED BY <1>3, <2>1, <2>4, <2>6
<1>8. CASE UNCHANGED configvars BY <1>4, <1>8 DEF configvars
<1> QED BY <1>5, <1>6, <1>7, <1>8, Zenon DEF ConfigNext, Starts

(* A call that goes on does not wait for a reply any more. *)
LEMMA NoLongerReceives ==
  ASSUME ShapeInv, NEW c \in Clients, NEW reply, NEW next,
         Over(callof[c], next) \/ Writes(callof[c], next, reply)
  PROVE  next.at # "receive"
<1>1. CASE Over(callof[c], next) BY <1>1 DEF Over, NoCall
<1>2. CASE Writes(callof[c], next, reply)
  <2>1. ASSUME NEW k, NEW doc, DOMAIN k = CallFields
        PROVE  [k EXCEPT !.at = "send", !.op = "write", !.doc = doc].at = "send"
        BY <2>1 DEF CallFields
  <2> QED BY <1>2, <2>1 DEF Writes, ShapeInv, CallShape
<1> QED BY <1>1, <1>2

(* A client whose receive has failed stays one. *)
LEMMA LateStay ==
  ASSUME [ConfigNext]_configvars
  PROVE  late \subseteq late'
<1>1. ASSUME NEW c \in Clients, Starts(c) PROVE late \subseteq late'
      BY <1>1, CallsOpen DEF Begins
<1>2. ASSUME NEW c \in Clients, SendFails(c) \/ Sends(c) \/ Receives(c) \/ ReceiveFails(c)
      PROVE  late \subseteq late'
      BY <1>2 DEF SendFails, Sends, Receives, ReceiveFails
<1>3. CASE UNCHANGED configvars BY <1>3 DEF configvars, history
<1> QED BY <1>1, <1>2, <1>3, Zenon DEF ConfigNext, Starts

(* The reply of the device to what a client asks. *)
TheReply(k, ok) ==
  Reply(Answered(k.op), k.name, ok, IF ok /\ k.op \in {"get", "read"} THEN device[k.name] ELSE Answer)

LEMMA SendsOne ==
  ASSUME ShapeInv, PromptInv, NEW c \in Clients, Sends(c)
  PROVE  \E ok \in BOOLEAN :
           /\ stream' = [stream EXCEPT ![c] = Append(stream[c], TheReply(callof[c], ok))]
           /\ c \notin late => stream'[c] = <<TheReply(callof[c], ok)>>
           /\ IF ok THEN /\ Serves(c)
                         /\ stored' = IF CarriedOut(callof[c]) THEN stored \union {c} ELSE stored
              ELSE UNCHANGED <<device, latest, overtaken, overlap, stored>>
<1>1. PICK ok \in BOOLEAN :
        /\ Replies(c, ok)
        /\ ok => /\ Serves(c)
                 /\ stored' = IF CarriedOut(callof[c]) THEN stored \union {c} ELSE stored
        /\ ~ok => UNCHANGED <<device, latest, overtaken, overlap, stored>>
      BY Zenon DEF Sends
<1>2. stream' = [stream EXCEPT ![c] = Append(stream[c], TheReply(callof[c], ok))]
      BY <1>1, Zenon DEF Replies, TheReply, Answered
<1>3. ASSUME c \notin late PROVE stream'[c] = <<TheReply(callof[c], ok)>>
  <2>1. stream[c] = <<>> BY <1>3 DEF PromptInv, Replied, Sends
  <2>2. \A r : Append(<<>>, r) = <<r>> OBVIOUS
  <2> HIDE DEF TheReply
  <2> QED BY <1>2, <2>1, <2>2 DEF ShapeInv
<1> QED BY <1>1, <1>2, <1>3, Zenon

LEMMA PromptKept ==
  ShapeInv /\ StreamInv /\ PromptInv /\ [ConfigNext]_configvars => PromptInv'
<1> SUFFICES ASSUME ShapeInv, StreamInv, PromptInv, [ConfigNext]_configvars PROVE PromptInv'
    OBVIOUS
<1>1. late \subseteq late' BY LateStay
<1>2. ASSUME NEW c \in Clients, NEW k, callof' = [callof EXCEPT ![c] = k],
             \A d \in Clients \ {c} : stream'[d] = stream[d],
             c \notin late' => Replied(k, stream'[c])
      PROVE  PromptInv'
  <2>1. \A d \in Clients : d \notin late' => Replied(callof'[d], stream'[d])
        BY <1>1, <1>2 DEF PromptInv, ShapeInv
  <2> QED BY <2>1, Zenon DEF PromptInv, Replied
<1>3. ASSUME NEW c \in Clients, NEW s, stream' = [stream EXCEPT ![c] = s]
      PROVE  stream'[c] = s /\ \A d \in Clients \ {c} : stream'[d] = stream[d]
      BY <1>3 DEF ShapeInv
<1>4. ASSUME NEW c \in Clients, Starts(c) PROVE PromptInv'
  <2>1. PICK k : Begins(c, k) /\ Opening(k) BY <1>4, CallsOpen
  <2>2. /\ callof[c].at = "idle" /\ k.at = "send" /\ stream' = stream
        /\ callof' = [callof EXCEPT ![c] = k]
        BY <2>1 DEF Begins, Opening
  <2>3. c \notin late' => Replied(k, stream[c]) BY <1>1, <2>2 DEF PromptInv, Replied
  <2> QED BY <1>2, <2>2, <2>3
<1>5. ASSUME NEW c \in Clients, SendFails(c) \/ Receives(c) \/ ReceiveFails(c) PROVE PromptInv'
  <2>1. PICK reply : Continues(c, reply) BY <1>5, StepsAreReplies
  <2>2. PICK next : /\ callof' = [callof EXCEPT ![c] = next]
                    /\ Over(callof[c], next) \/ Writes(callof[c], next, reply)
        BY <2>1, CallsContinue
  <2>3. next.at # "receive" BY <2>2, NoLongerReceives
  <2>4. CASE SendFails(c)
    <3>1. callof[c].at = "send" /\ stream' = stream BY <2>4 DEF SendFails
    <3>2. c \notin late' => Replied(next, stream[c])
          BY <1>1, <2>3, <3>1 DEF PromptInv, Replied
    <3> QED BY <1>2, <2>2, <3>1, <3>2
  <2>5. CASE Receives(c)
    <3>1. callof[c].at = "receive" /\ stream' = [stream EXCEPT ![c] = Tail(stream[c])]
          BY <2>5 DEF Receives
    <3>2. c \notin late => Len(stream[c]) = 1 BY <3>1 DEF PromptInv, Replied
    <3>3. ASSUME NEW R, NEW s \in Seq(R), Len(s) = 1 PROVE Tail(s) = <<>>
      <4>1. Tail(s) \in Seq(R) /\ Len(Tail(s)) = 0 BY <3>3, HeadTailProperties, EmptySeq
      <4> QED BY <4>1, EmptySeq
    <3>4. c \notin late' => Replied(next, Tail(stream[c]))
          BY <1>1, <2>3, <3>2, <3>3 DEF Replied, StreamInv
    <3> QED BY <1>2, <1>3, <2>2, <3>1, <3>4
  <2>6. CASE ReceiveFails(c)
    <3>1. c \in late' /\ stream' \in {stream, [stream EXCEPT ![c] = Front(stream[c])]}
          BY <2>6 DEF ReceiveFails
    <3> QED BY <1>2, <1>3, <2>2, <3>1
  <2> QED BY <1>5, <2>4, <2>5, <2>6
<1>6. ASSUME NEW c \in Clients, Sends(c) PROVE PromptInv'
  <2>1. callof' = [callof EXCEPT ![c] = [callof[c] EXCEPT !.at = "receive"]]
        BY <1>6 DEF Sends
  <2>2. PICK ok \in BOOLEAN :
          /\ stream' = [stream EXCEPT ![c] = Append(stream[c], TheReply(callof[c], ok))]
          /\ c \notin late => stream'[c] = <<TheReply(callof[c], ok)>>
        BY <1>6, SendsOne
  <2> DEFINE r == TheReply(callof[c], ok)
             k == [callof[c] EXCEPT !.at = "receive"]
  <2>3. r.op = Answered(callof[c].op) /\ r.name = callof[c].name BY DEF TheReply, Reply
  <2>4. k.at = "receive" /\ k.op = callof[c].op /\ k.name = callof[c].name
        BY DEF ShapeInv, CallShape, CallFields
  <2> HIDE DEF r, k
  <2>5. Len(<<r>>) = 1 /\ <<r>>[1] = r OBVIOUS
  <2>6. Replied(k, <<r>>) BY <2>3, <2>4, <2>5, Zenon DEF Replied
  <2>7. c \notin late' => Append(stream[c], r) = <<r>> BY <1>1, <2>2 DEF r, ShapeInv
  <2>8. c \notin late' => Replied(k, Append(stream[c], r)) BY <2>6, <2>7
  <2>9. callof' = [callof EXCEPT ![c] = k] BY <2>1 DEF k
  <2>10. stream' = [stream EXCEPT ![c] = Append(stream[c], r)] BY <2>2 DEF r
  <2>11. /\ stream'[c] = Append(stream[c], r)
         /\ \A d \in Clients \ {c} : stream'[d] = stream[d]
        BY <1>3, <2>10
  <2>12. c \notin late' => Replied(k, stream'[c]) BY <2>8, <2>11
  <2> QED BY <1>2, <2>9, <2>11, <2>12
<1>7. CASE UNCHANGED configvars
  <2>1. UNCHANGED <<callof, stream, late>> BY <1>7 DEF configvars, history
  <2> QED BY <2>1, Zenon DEF PromptInv, Replied
<1> QED BY <1>4, <1>5, <1>6, <1>7, Zenon DEF ConfigNext, Starts

(* A document that is read and written back is the setting as long as       *)
(* nobody writes it in between; and so a write changes what it names.       *)
LEMMA FreshKept ==
  ShapeInv /\ WholeInv /\ StreamInv /\ PromptInv /\ FreshInv /\ [ConfigNext]_configvars => FreshInv'
<1> SUFFICES ASSUME ShapeInv, WholeInv, StreamInv, PromptInv, FreshInv, [ConfigNext]_configvars,
                    ~misread'
             PROVE  /\ \A c \in Clients \ overtaken' :
                         Fresh(callof'[c], stream'[c], c \in late', device')
                    /\ ~overlap' => device' = latest'
    BY Zenon DEF FreshInv, UpdatesAreAtomic, Fresh
<1>1. ~misread BY MisreadStays, Zenon
<1>2. /\ \A c \in Clients \ overtaken : Fresh(callof[c], stream[c], c \in late, device)
      /\ ~overlap => device = latest
      BY <1>1, Zenon DEF FreshInv, UpdatesAreAtomic
<1>3. ASSUME NEW c \in Clients, NEW next, callof' = [callof EXCEPT ![c] = next],
             c \notin overtaken' => Fresh(next, stream'[c], c \in late', device),
             UNCHANGED <<device, latest, overlap>>,
             \A d \in Clients \ {c} : /\ stream'[d] = stream[d] /\ (d \in late <=> d \in late')
                                      /\ d \in overtaken => d \in overtaken'
      PROVE  /\ \A d \in Clients \ overtaken' :
                  Fresh(callof'[d], stream'[d], d \in late', device')
             /\ ~overlap' => device' = latest'
  <2>1. ASSUME NEW d \in Clients \ overtaken'
        PROVE  Fresh(callof'[d], stream'[d], d \in late', device)
    <3>1. CASE d = c BY <1>3, <3>1 DEF ShapeInv
    <3>2. CASE d # c
      <4>1. callof'[d] = callof[d] /\ stream'[d] = stream[d] /\ (d \in late <=> d \in late')
            BY <1>3, <3>2 DEF ShapeInv
      <4>2. Fresh(callof[d], stream[d], d \in late, device) BY <1>2, <1>3, <3>2
      <4> QED BY <4>1, <4>2, Zenon DEF Fresh
    <3> QED BY <3>1, <3>2
  <2> QED BY <1>2, <1>3, <2>1, Zenon
<1>4. ASSUME NEW c \in Clients, Starts(c)
      PROVE  /\ \A d \in Clients \ overtaken' :
                  Fresh(callof'[d], stream'[d], d \in late', device')
             /\ ~overlap' => device' = latest'
  <2>1. PICK k : Begins(c, k) /\ Opening(k) BY <1>4, CallsOpen
  <2>2. Fresh(k, stream'[c], c \in late', device) BY <2>1 DEF Opening, Fresh
  <2>3. /\ callof' = [callof EXCEPT ![c] = k] /\ device' = device /\ latest' = latest
        /\ stream' = stream /\ late' = late /\ overtaken' = overtaken \ {c}
        BY <2>1 DEF Begins
  <2>4. overlap' = overlap BY <2>1, Zenon DEF Begins
  <2> QED BY <1>3, <2>2, <2>3, <2>4
<1>5. ASSUME NEW c \in Clients, SendFails(c) \/ Receives(c) \/ ReceiveFails(c)
      PROVE  /\ \A d \in Clients \ overtaken' :
                  Fresh(callof'[d], stream'[d], d \in late', device')
             /\ ~overlap' => device' = latest'
  <2>1. PICK reply : /\ Continues(c, reply)
                     /\ \/ reply = NotSent
                        \/ Receives(c) /\ stream[c] # <<>> /\ reply = Head(stream[c])
                        \/ c \in late'
    <3>1. CASE ReceiveFails(c) BY <3>1 DEF ReceiveFails
    <3>2. CASE SendFails(c) BY <3>2 DEF SendFails
    <3>3. CASE Receives(c) BY <3>3 DEF Receives
    <3> QED BY <1>5, <3>1, <3>2, <3>3
  <2>2. PICK next : /\ callof' = [callof EXCEPT ![c] = next]
                    /\ Over(callof[c], next) \/ Writes(callof[c], next, reply)
        BY <2>1, CallsContinue
  <2>3. c \notin overtaken => Fresh(next, stream'[c], c \in late', device)
    <3>1. CASE Over(callof[c], next) BY <3>1 DEF Over, NoCall, Fresh
    <3>2. ASSUME Writes(callof[c], next, reply), c \notin overtaken
          PROVE  Fresh(next, stream'[c], c \in late', device)
      <4> DEFINE k == callof[c]
      <4>1. HasDocument(reply, k.name) /\ c \notin late' /\ k.op = "read"
            BY <2>1, <3>2, CallsContinue, Zenon DEF Writes
      <4>2. Receives(c) /\ stream[c] # <<>> /\ reply = Head(stream[c])
            BY <2>1, <4>1 DEF HasDocument, NotSent, Reply
      <4>3. c \notin late /\ k.at = "receive" BY <4>1, <4>2, LateStay DEF Receives
      <4>4. reply = stream[c][1] /\ reply.ok
            BY <4>1, <4>2 DEF HasDocument
      <4>5. reply.doc = device[k.name]
            BY <1>2, <3>2, <4>1, <4>3, <4>4 DEF Fresh
      <4>6. GetInfo(reply, k.name) = device[k.name] BY <4>1, <4>5 DEF GetInfo
      <4>7. ASSUME NEW j, NEW doc, DOMAIN j = CallFields
            PROVE  LET n == [j EXCEPT !.at = "send", !.op = "write", !.doc = doc]
                   IN  n.op = "write" /\ n.at = "send" /\ n.doc = doc /\ n.name = j.name
            BY <4>7 DEF CallFields
      <4>8. next.op = "write" /\ next.doc = device[k.name] /\ next.name = k.name
            BY <3>2, <4>6, <4>7 DEF Writes, ShapeInv, CallShape
      <4> QED BY <4>8 DEF Fresh
    <3> QED BY <2>2, <3>1, <3>2
  <2>4. UNCHANGED <<device, latest, overtaken>>
        BY <1>5 DEF SendFails, Receives, ReceiveFails
  <2>5. overlap' = overlap BY <1>5, Zenon DEF SendFails, Receives, ReceiveFails
  <2>6. \A d \in Clients \ {c} : stream'[d] = stream[d] /\ (d \in late <=> d \in late')
    <3>1. CASE ReceiveFails(c)
      BY <3>1 DEF ReceiveFails, ShapeInv
    <3>2. CASE SendFails(c) BY <3>2 DEF SendFails
    <3>3. CASE Receives(c) BY <3>3 DEF Receives, ShapeInv
    <3> QED BY <1>5, <3>1, <3>2, <3>3
  <2> QED BY <1>3, <2>2, <2>3, <2>4, <2>5, <2>6
<1>6. ASSUME NEW c \in Clients, Sends(c)
      PROVE  /\ \A d \in Clients \ overtaken' :
                  Fresh(callof'[d], stream'[d], d \in late', device')
             /\ ~overlap' => device' = latest'
  <2> DEFINE k == callof[c]
             next == [k EXCEPT !.at = "receive"]
  <2>1. callof' = [callof EXCEPT ![c] = next] /\ late' = late BY <1>6 DEF Sends
  <2>2. next.at = "receive" /\ next.op = k.op /\ next.name = k.name
        BY DEF ShapeInv, CallShape, CallFields
  <2>3. PICK ok \in BOOLEAN :
          /\ stream' = [stream EXCEPT ![c] = Append(stream[c], TheReply(k, ok))]
          /\ c \notin late => stream'[c] = <<TheReply(k, ok)>>
          /\ IF ok THEN Serves(c) ELSE UNCHANGED <<device, latest, overtaken, overlap>>
        BY <1>6, SendsOne, Zenon
  <2>4. \A d \in Clients \ {c} : stream'[d] = stream[d] BY <2>3 DEF ShapeInv
  <2> HIDE DEF next
  <2>5. ASSUME k.op # "write" \/ ~ok
        PROVE  Fresh(next, stream'[c], c \in late', device)
    <3>1. ASSUME k.op = "read", c \notin late, stream'[c][1].ok
          PROVE  stream'[c][1].doc = device[k.name]
      <4>1. stream'[c][1] = TheReply(k, ok) BY <2>3, <3>1
      <4> QED BY <3>1, <4>1 DEF TheReply, Reply
    <3> QED BY <2>1, <2>2, <3>1 DEF Fresh
  <2>6. CASE k.op # "write" \/ ~ok
    <3>1. UNCHANGED <<device, latest, overtaken>> BY <2>3, <2>6 DEF Serves
    <3>2. overlap' = overlap BY <2>3, <2>6, Zenon DEF Serves
    <3> QED BY <1>3, <2>1, <2>4, <2>5, <2>6, <3>1, <3>2
  <2>7. CASE k.op = "write" /\ ok
    <3>1. /\ device' = [device EXCEPT ![k.name] = Changed(k, c)]
          /\ latest' = [latest EXCEPT ![k.name] = Update(latest[k.name], k, c)]
          BY <2>3, <2>7 DEF Serves
    <3>2. overlap' = (overlap \/ c \in overtaken) BY <2>3, <2>7, Zenon DEF Serves
    <3>3. overtaken' = overtaken \union
            {d \in Clients \ {c} : /\ callof[d].name = k.name
                                   /\ \/ callof[d].op = "write"
                                      \/ callof[d].op = "read" /\ callof[d].at = "receive"}
          BY <2>3, <2>7 DEF Serves
    <3>4. ASSUME NEW d \in Clients \ overtaken'
          PROVE  Fresh(callof'[d], stream'[d], d \in late', device')
      <4>1. CASE d = c
        <5>1. callof'[d] = next BY <2>1, <4>1 DEF ShapeInv
        <5> QED BY <2>2, <2>7, <5>1 DEF Fresh
      <4>2. CASE d # c
        <5>1. callof'[d] = callof[d] /\ stream'[d] = stream[d] BY <2>1, <2>4, <4>2 DEF ShapeInv
        <5>2. Fresh(callof[d], stream[d], d \in late, device) BY <1>2, <3>3
        <5>3. CASE callof[d].name = k.name
          <6>1. callof[d].op # "write" /\ ~(callof[d].op = "read" /\ callof[d].at = "receive")
                BY <3>3, <4>2, <5>3
          <6> QED BY <5>1, <6>1 DEF Fresh
        <5>4. CASE callof[d].name # k.name
          <6>1. device'[callof[d].name] = device[callof[d].name]
                BY <3>1, <5>4 DEF ShapeInv, CallShape
          <6> QED BY <2>1, <5>1, <5>2, <6>1, Zenon DEF Fresh
        <5> QED BY <5>3, <5>4
      <4> QED BY <4>1, <4>2
    <3>5. ASSUME ~overlap' PROVE device' = latest'
      <4>1. device = latest /\ c \notin overtaken BY <1>2, <3>2, <3>5, Zenon
      <4>2. k.at = "send" BY <1>6 DEF Sends
      <4>3. k.doc = device[k.name] BY <1>2, <2>7, <4>1, <4>2 DEF Fresh
      <4>4. Whole(k.name, k.doc) BY <1>1, <2>7, Zenon DEF WholeInv, Carries
      <4>5. CallShape(k) BY DEF ShapeInv
      <4>6. Changed(k, c) = Update(k.doc, k, c) BY <2>7, <4>4, <4>5, WholeChanges
      <4> QED BY <3>1, <4>1, <4>3, <4>6
    <3> QED BY <3>4, <3>5
  <2> QED BY <2>6, <2>7
<1>7. CASE UNCHANGED configvars
  <2>1. UNCHANGED <<callof, stream, late, device, latest, overtaken>>
        BY <1>7 DEF configvars, history
  <2>2. overlap' = overlap BY <1>7, Zenon DEF configvars, history
  <2> QED BY <1>2, <2>1, <2>2, Zenon
<1> QED BY <1>4, <1>5, <1>6, <1>7, Zenon DEF ConfigNext, Starts

(* What a call returns once it has its reply. *)
LEMMA CallsAreAnswered ==
  ASSUME ShapeInv, NEW c \in Clients, NEW reply, Continues(c, reply), returned[c] = "none",
         callof[c].op = "time" /\ reply.ok => reply.op = "time"
  PROVE  LET k == callof[c] IN
         /\ \A d \in Clients \ {c} : returned'[d] = returned[d]
         /\ k.op = "read" => returned'[c] # "yes"
         /\ k.op = "get" /\ k.name = "net" => returned'[c] = "none"
         /\ k.op = "get" /\ k.name # "net" =>
              returned'[c] = IF HasChannel(GetInfo(reply, k.name), k.channel) THEN "yes" ELSE "no"
         /\ k.op \notin {"read", "get"} =>
              returned'[c] \in {"none", IF reply.ok THEN "yes" ELSE "no"}
<1>1. CASE UNCHANGED returned /\ callof[c].op # "get"
  BY <1>1
<1>2. CASE callof[c].op = "get"
  BY <1>2 DEF Continues, GotChannel, GotNetwork, HasRead, HasAnswer, Finishes, ShapeInv
<1>3. CASE callof[c].op = "read"
  <2>1. UNCHANGED returned \/ Finishes(c, FALSE)
        BY <1>3, Zenon DEF Continues, GotChannel, GotNetwork, HasRead, HasAnswer
  <2> QED BY <1>3, <2>1 DEF Finishes, ShapeInv
<1>4. CASE callof[c].op \notin {"read", "get"}
  <2>1. TellsTime(reply) <=> reply.ok /\ reply.op = "time" BY DEF TellsTime, Succeeded
  <2>2. \/ UNCHANGED returned
        \/ Finishes(c, reply.ok)
        \/ callof[c].op = "time" /\ Finishes(c, TellsTime(reply))
        BY <1>4, Zenon DEF Continues, GotChannel, GotNetwork, HasRead, HasAnswer, Throws, Succeeded
  <2>3. CASE UNCHANGED returned BY <1>4, <2>3
  <2>4. CASE Finishes(c, reply.ok) BY <1>4, <2>4 DEF Finishes, ShapeInv
  <2>5. CASE callof[c].op = "time" /\ Finishes(c, TellsTime(reply))
    BY <1>4, <2>1, <2>5 DEF Finishes, ShapeInv
  <2> QED BY <2>2, <2>3, <2>4, <2>5
<1> QED BY <1>2, <1>3, <1>4

(* A document without channels is what a reply without one leaves. *)
LEMMA NoDocumentNoChannel ==
  ASSUME NEW reply, NEW name, ~HasDocument(reply, name), NEW channel
  PROVE  ~HasChannel(GetInfo(reply, name), channel)
<1>1. GetInfo(reply, name) \in {Void, Answer} BY DEF GetInfo
<1>2. Elements(GetInfo(reply, name)) = <<>> BY <1>1 DEF Elements, Void, Answer, Object
<1> QED BY <1>2 DEF HasChannel

LEMMA AnswerKept ==
  ShapeInv /\ PromptInv /\ AnswerInv /\ [ConfigNext]_configvars => AnswerInv'
<1> SUFFICES ASSUME ShapeInv, PromptInv, AnswerInv, [ConfigNext]_configvars PROVE AnswerInv'
    OBVIOUS
<1>1. late \subseteq late' BY LateStay
<1>2. ASSUME NEW c \in Clients, NEW k, callof' = [callof EXCEPT ![c] = k],
             \A d \in Clients \ {c} : /\ stream'[d] = stream[d] /\ returned'[d] = returned[d]
                                      /\ d \in stored <=> d \in stored',
             c \notin late' => Told(k, stream'[c], c \in stored', returned'[c])
      PROVE  AnswerInv'
  <2>1. ASSUME NEW d \in Clients \ late'
        PROVE  Told(callof'[d], stream'[d], d \in stored', returned'[d])
    <3>1. CASE d = c BY <1>2, <3>1 DEF ShapeInv
    <3>2. CASE d # c
      <4>1. /\ callof'[d] = callof[d] /\ stream'[d] = stream[d] /\ returned'[d] = returned[d]
            /\ d \in stored <=> d \in stored'
            BY <1>2, <3>2 DEF ShapeInv
      <4>2. Told(callof[d], stream[d], d \in stored, returned[d]) BY <1>1 DEF AnswerInv
      <4> QED BY <4>1, <4>2, Zenon DEF Told
    <3> QED BY <3>1, <3>2
  <2> QED BY <2>1, Zenon DEF AnswerInv, Told
<1>3. \A c \in Clients \ late' : Told(callof[c], stream[c], c \in stored, returned[c])
      BY <1>1 DEF AnswerInv
<1>4. ASSUME NEW c \in Clients, Starts(c) PROVE AnswerInv'
  <2>1. PICK k : Begins(c, k) /\ Opening(k) BY <1>4, CallsOpen
  <2>2. /\ callof' = [callof EXCEPT ![c] = k] /\ stream' = stream
        /\ returned' = [returned EXCEPT ![c] = "none"] /\ stored' = stored \ {c}
        BY <2>1 DEF Begins
  <2>3. k.at = "send" BY <2>1 DEF Opening
  <2>4. Told(k, stream'[c], c \in stored', returned'[c]) BY <2>2, <2>3 DEF Told, ShapeInv
  <2> QED BY <1>2, <2>2, <2>4 DEF ShapeInv
<1>5. ASSUME NEW c \in Clients, SendFails(c) \/ Receives(c) PROVE AnswerInv'
  <2> DEFINE k == callof[c]
  <2>1. stored' = stored /\ late' = late /\ \A d \in Clients \ {c} : stream'[d] = stream[d]
        BY <1>5 DEF SendFails, Receives, ShapeInv
  <2>2. PICK reply : /\ Continues(c, reply)
                     /\ \/ SendFails(c) /\ reply = NotSent
                        \/ Receives(c) /\ reply = stream[c][1]
    <3>1. CASE SendFails(c) BY <3>1 DEF SendFails
    <3>2. CASE Receives(c)
      <4>1. Continues(c, Head(stream[c])) /\ Head(stream[c]) = stream[c][1]
            BY <3>2 DEF Receives
      <4> QED BY <3>2, <4>1
    <3> QED BY <1>5, <3>1, <3>2
  <2>3. PICK next : /\ callof' = [callof EXCEPT ![c] = next]
                    /\ \/ Over(k, next)
                       \/ Writes(k, next, reply) /\ returned' = returned
        BY <2>2, CallsContinue
  <2>4. next.at # "receive" BY <2>3, NoLongerReceives
  <2>5. ASSUME c \notin late
        PROVE  /\ \A d \in Clients \ {c} : returned'[d] = returned[d]
               /\ Told(next, stream'[c], c \in stored', returned'[c])
    <3>1. Told(k, stream[c], c \in stored, returned[c]) BY <2>5 DEF AnswerInv
    <3>2. /\ SendFails(c) => k.at = "send"
          /\ Receives(c) => k.at = "receive"
          BY DEF SendFails, Receives
    <3>3. returned[c] = "none" BY <1>5, <3>1, <3>2 DEF Told
    <3>0. callof[c].op = "time" /\ reply.ok => reply.op = "time"
      <4>1. CASE reply = NotSent BY <4>1 DEF NotSent, Reply
      <4>2. CASE Receives(c) /\ reply = stream[c][1]
        BY <2>5, <3>2, <4>2 DEF PromptInv, Replied, Answered
      <4> QED BY <2>2, <4>1, <4>2
    <3>4. /\ \A d \in Clients \ {c} : returned'[d] = returned[d]
          /\ k.op = "read" => returned'[c] # "yes"
          /\ k.op = "get" /\ k.name = "net" => returned'[c] = "none"
          /\ k.op = "get" /\ k.name # "net" =>
               returned'[c] = IF HasChannel(GetInfo(reply, k.name), k.channel) THEN "yes" ELSE "no"
          /\ k.op \notin {"read", "get"} =>
               returned'[c] \in {"none", IF reply.ok THEN "yes" ELSE "no"}
          BY <2>2, <3>0, <3>3, CallsAreAnswered
    <3>5. /\ returned'[c] = "yes" => c \in stored
          /\ returned'[c] = "no" => c \notin stored
      <4>1. CASE k.op = "read"
        <5>1. c \notin stored BY <1>5, <3>1, <3>2, <4>1 DEF Told
        <5> QED BY <3>4, <4>1, <5>1
      <4>2. CASE k.op = "get" /\ k.name = "net" BY <3>4, <4>2
      <4>3. CASE k.op = "get" /\ k.name # "net"
        <5> DEFINE found == HasChannel(GetInfo(reply, k.name), k.channel)
        <5>1. returned'[c] = IF found THEN "yes" ELSE "no" BY <3>4, <4>3
        <5>2. c \in stored <=> found
          <6>1. CASE k.at = "send"
            <7>1. c \notin stored BY <3>1, <6>1 DEF Told
            <7>2. reply = NotSent BY <2>2, <3>2, <6>1
            <7>3. ~HasDocument(reply, k.name) BY <7>2 DEF HasDocument, NotSent, Reply
            <7>4. ~found BY <7>3, NoDocumentNoChannel
            <7> QED BY <7>1, <7>4
          <6>2. CASE k.at # "send"
            <7>1. k.at = "receive" /\ reply = stream[c][1] BY <2>2, <3>2, <6>2
            <7>2. c \in stored <=> reply.ok /\ HasChannel(reply.doc, k.channel)
                  BY <3>1, <4>3, <7>1, Zenon DEF Told
            <7>3. reply.op = "read" /\ reply.name = k.name
                  BY <2>5, <4>3, <7>1 DEF PromptInv, Replied, Answered
            <7>4. CASE reply.ok
              <8>1. GetInfo(reply, k.name) = reply.doc
                    BY <7>3, <7>4 DEF GetInfo, HasDocument
              <8> QED BY <7>2, <7>4, <8>1, Zenon
            <7>5. CASE ~reply.ok
              <8>1. ~HasDocument(reply, k.name) BY <7>5 DEF HasDocument
              <8>2. ~found BY <8>1, NoDocumentNoChannel
              <8> QED BY <7>2, <7>5, <8>2, Zenon
            <7> QED BY <7>4, <7>5
          <6> QED BY <6>1, <6>2
        <5> HIDE DEF found
        <5> QED BY <5>1, <5>2
      <4>4. CASE k.op \notin {"read", "get"}
        <5>1. c \in stored <=> reply.ok
          <6>1. CASE k.at = "send"
            <7>1. c \notin stored BY <3>1, <6>1 DEF Told
            <7>2. ~reply.ok BY <2>2, <3>2, <6>1 DEF NotSent, Reply
            <7> QED BY <7>1, <7>2
          <6>2. CASE k.at # "send"
            <7>1. k.at = "receive" /\ reply = stream[c][1] BY <2>2, <3>2, <6>2
            <7>2. k.op \in {"write", "time", "command"}
                  BY <2>2, <4>4 DEF Continues, GotChannel, GotNetwork, HasRead, HasAnswer
            <7> QED BY <3>1, <7>1, <7>2, Zenon DEF Told
          <6> QED BY <6>1, <6>2
        <5>2. returned'[c] \in {"none", IF reply.ok THEN "yes" ELSE "no"} BY <3>4, <4>4
        <5> QED BY <5>1, <5>2
      <4> QED BY <4>1, <4>2, <4>3, <4>4
    <3>6. next.at = "send" => c \notin stored /\ returned'[c] = "none"
      <4>1. CASE Over(k, next) BY <4>1 DEF Over, NoCall
      <4>2. CASE Writes(k, next, reply) /\ returned' = returned
        <5>1. k.op = "read" BY <4>2 DEF Writes
        <5>2. c \notin stored BY <1>5, <3>1, <3>2, <5>1 DEF Told
        <5> QED BY <3>3, <4>2, <5>2
      <4> QED BY <2>3, <4>1, <4>2
    <3> QED BY <2>1, <2>4, <3>4, <3>5, <3>6, Zenon DEF Told
  <2>6. \A d \in Clients \ {c} : returned'[d] = returned[d]
        BY <2>2 DEF Continues, GotChannel, GotNetwork, HasRead, HasAnswer, Finishes, TellsTime, Throws, ShapeInv
  <2> QED BY <1>2, <2>1, <2>3, <2>5, <2>6
<1>6. ASSUME NEW c \in Clients, ReceiveFails(c) PROVE AnswerInv'
  <2>1. PICK reply : Continues(c, reply) BY <1>6 DEF ReceiveFails
  <2>2. PICK next : callof' = [callof EXCEPT ![c] = next] BY <2>1, CallsContinue
  <2>3. c \in late' /\ stored' = stored /\ \A d \in Clients \ {c} : stream'[d] = stream[d]
        BY <1>6 DEF ReceiveFails, ShapeInv
  <2>4. \A d \in Clients \ {c} : returned'[d] = returned[d]
        BY <2>1 DEF Continues, GotChannel, GotNetwork, HasRead, HasAnswer, Finishes, TellsTime, Throws, ShapeInv
  <2> QED BY <1>2, <2>2, <2>3, <2>4
<1>7. ASSUME NEW c \in Clients, Sends(c) PROVE AnswerInv'
  <2> DEFINE k == callof[c]
             next == [k EXCEPT !.at = "receive"]
  <2>1. callof' = [callof EXCEPT ![c] = next] /\ returned' = returned /\ late' = late
        BY <1>7 DEF Sends
  <2>2. /\ next.at = "receive" /\ next.op = k.op /\ next.name = k.name
        /\ next.channel = k.channel
        BY DEF ShapeInv, CallShape, CallFields
  <2>3. PICK ok \in BOOLEAN :
          /\ stream' = [stream EXCEPT ![c] = Append(stream[c], TheReply(k, ok))]
          /\ c \notin late => stream'[c] = <<TheReply(k, ok)>>
          /\ IF ok THEN stored' = IF CarriedOut(k) THEN stored \union {c} ELSE stored
             ELSE stored' = stored
        BY <1>7, SendsOne, Zenon
  <2> HIDE DEF next
  <2>4. ASSUME c \notin late
        PROVE  Told(next, stream'[c], c \in stored', returned'[c])
    <3>1. c \notin stored /\ returned[c] = "none"
          BY <1>7, <2>4 DEF AnswerInv, Told, Sends
    <3>2. stream'[c][1] = TheReply(k, ok) BY <2>3, <2>4
    <3>3. c \in stored' <=> ok /\ CarriedOut(k) BY <2>3, <3>1
    <3>4. TheReply(k, ok).ok = ok BY DEF TheReply, Reply
    <3>5. k.op = "get" /\ ok => TheReply(k, ok).doc = device[k.name] BY DEF TheReply, Reply
    <3>6. CASE k.op = "read"
      <4>1. c \notin stored' BY <3>3, <3>6 DEF CarriedOut
      <4> QED BY <2>1, <2>2, <3>1, <3>6, <4>1 DEF Told
    <3>7. CASE k.op = "get"
      <4>1. c \in stored' <=> ok /\ HasChannel(device[k.name], k.channel)
            BY <3>3, <3>7 DEF CarriedOut
      <4>2. c \in stored' <=> stream'[c][1].ok /\ HasChannel(stream'[c][1].doc, next.channel)
        <5>1. CASE ok BY <2>2, <3>2, <3>4, <3>5, <3>7, <4>1, <5>1
        <5>2. CASE ~ok BY <3>2, <3>4, <4>1, <5>2
        <5> QED BY <5>1, <5>2
      <4> QED BY <2>1, <2>2, <3>1, <3>7, <4>2, Zenon DEF Told
    <3>8. CASE k.op \notin {"read", "get"}
      <4>1. c \in stored' <=> stream'[c][1].ok BY <3>2, <3>3, <3>4, <3>8 DEF CarriedOut
      <4> QED BY <2>1, <2>2, <3>1, <3>8, <4>1 DEF Told
    <3> QED BY <3>6, <3>7, <3>8
  <2>5. \A d \in Clients \ {c} : stream'[d] = stream[d] /\ (d \in stored <=> d \in stored')
        BY <2>3 DEF ShapeInv
  <2> QED BY <1>2, <2>1, <2>4, <2>5
<1>8. CASE UNCHANGED configvars
  <2>1. UNCHANGED <<callof, stream, returned, stored>> BY <1>8 DEF configvars, history
  <2> QED BY <1>3, <2>1, Zenon DEF AnswerInv, Told
<1> QED BY <1>4, <1>5, <1>6, <1>7, <1>8, Zenon DEF ConfigNext, Starts

(* Clients may leave replies unread only by failing to receive them. *)
Unread(k, s, n) == Len(s) <= n + (IF k.at = "receive" THEN 1 ELSE 0)

LengthInv == timeouts \in Nat /\ \A c \in Clients : Unread(callof[c], stream[c], timeouts)

LEMMA LengthKept ==
  ShapeInv /\ StreamInv /\ LengthInv /\ [ConfigNext]_configvars => LengthInv'
<1> SUFFICES ASSUME ShapeInv, StreamInv, LengthInv, [ConfigNext]_configvars PROVE LengthInv'
    OBVIOUS
<1>1. ASSUME NEW R, NEW s \in Seq(R)
      PROVE  /\ Len(s) \in Nat
             /\ s # <<>> => Len(Tail(s)) + 1 = Len(s)
             /\ \A r : Len(Append(s, r)) = Len(s) + 1
             /\ Len(Front(s)) <= Len(s)
  <2>1. Len(s) \in Nat BY LenProperties
  <2>2. s # <<>> => Len(Tail(s)) + 1 = Len(s) BY <2>1, HeadTailProperties
  <2>3. ASSUME NEW r PROVE Len(Append(s, r)) = Len(s) + 1
    <3>1. s \in Seq(R \cup {r}) BY SeqDef
    <3> QED BY <3>1, AppendProperties
  <2>4. Len(Front(s)) <= Len(s) BY <2>1 DEF Front
  <2> QED BY <2>1, <2>2, <2>3, <2>4
<1>2. \A c \in Clients : Len(stream[c]) \in Nat BY <1>1 DEF StreamInv
<1>3. ASSUME NEW c \in Clients, NEW k, callof' = [callof EXCEPT ![c] = k],
             timeouts' = timeouts \/ timeouts' = timeouts + 1,
             \A d \in Clients \ {c} : stream'[d] = stream[d],
             Unread(k, stream'[c], timeouts')
      PROVE  LengthInv'
  <2>1. ASSUME NEW d \in Clients PROVE Unread(callof'[d], stream'[d], timeouts')
    <3>1. CASE d = c BY <1>3, <3>1 DEF ShapeInv
    <3>2. CASE d # c
      <4>1. callof'[d] = callof[d] /\ stream'[d] = stream[d] BY <1>3, <3>2 DEF ShapeInv
      <4>2. Unread(callof[d], stream[d], timeouts) /\ timeouts \in Nat /\ Len(stream[d]) \in Nat
            BY <1>2 DEF LengthInv
      <4>3. Unread(callof[d], stream[d], timeouts + 1) BY <4>2 DEF Unread
      <4> QED BY <1>3, <4>1, <4>2, <4>3, Zenon
    <3> QED BY <3>1, <3>2
  <2>2. timeouts' \in Nat BY <1>3 DEF LengthInv
  <2> QED BY <2>1, <2>2, Zenon DEF LengthInv
<1>4. ASSUME NEW c \in Clients, Starts(c) PROVE LengthInv'
  <2>1. PICK k : Begins(c, k) /\ Opening(k) BY <1>4, CallsOpen
  <2>2. /\ callof' = [callof EXCEPT ![c] = k] /\ stream' = stream /\ timeouts' = timeouts
        /\ callof[c].at = "idle" /\ k.at = "send"
        BY <2>1 DEF Begins, Opening
  <2>3. Len(stream[c]) <= timeouts /\ timeouts \in Nat BY <2>2 DEF LengthInv, Unread
  <2>4. Unread(k, stream'[c], timeouts') BY <1>2, <2>2, <2>3 DEF Unread
  <2> QED BY <1>3, <2>2, <2>4
<1>5. ASSUME NEW c \in Clients, SendFails(c) \/ Receives(c) \/ ReceiveFails(c) PROVE LengthInv'
  <2>1. PICK reply : Continues(c, reply) BY <1>5, StepsAreReplies
  <2>2. PICK next : /\ callof' = [callof EXCEPT ![c] = next]
                    /\ Over(callof[c], next) \/ Writes(callof[c], next, reply)
        BY <2>1, CallsContinue
  <2>3. next.at # "receive" BY <2>2, NoLongerReceives
  <2>4. timeouts \in Nat /\ Len(stream[c]) \in Nat BY <1>2 DEF LengthInv
  <2>5. CASE SendFails(c)
    <3>1. callof[c].at = "send" /\ stream' = stream /\ timeouts' = timeouts
          BY <2>5 DEF SendFails
    <3>2. Len(stream[c]) <= timeouts BY <2>4, <3>1 DEF LengthInv, Unread
    <3>3. Unread(next, stream'[c], timeouts') BY <2>3, <2>4, <3>1, <3>2 DEF Unread
    <3> QED BY <1>3, <2>2, <3>1, <3>3
  <2>6. CASE Receives(c)
    <3>1. /\ callof[c].at = "receive" /\ stream[c] # <<>> /\ timeouts' = timeouts
          /\ stream' = [stream EXCEPT ![c] = Tail(stream[c])]
          BY <2>6 DEF Receives
    <3>2. Len(stream[c]) <= timeouts + 1 BY <2>4, <3>1 DEF LengthInv, Unread
    <3>3. Len(Tail(stream[c])) + 1 = Len(stream[c]) BY <1>1, <3>1 DEF StreamInv
    <3>4. Len(Tail(stream[c])) \in Nat
          BY <3>1, RepliesInSequence, LenProperties DEF StreamInv
    <3>5. stream'[c] = Tail(stream[c]) /\ \A d \in Clients \ {c} : stream'[d] = stream[d]
          BY <3>1 DEF ShapeInv
    <3>6. Len(Tail(stream[c])) <= timeouts BY <2>4, <3>2, <3>3, <3>4
    <3>7. Unread(next, Tail(stream[c]), timeouts) BY <2>3, <2>4, <3>4, <3>6 DEF Unread
    <3>8. Unread(next, stream'[c], timeouts') BY <3>1, <3>5, <3>7
    <3> QED BY <1>3, <2>2, <3>1, <3>5, <3>8
  <2>7. CASE ReceiveFails(c)
    <3>1. /\ callof[c].at = "receive" /\ timeouts' = timeouts + 1
          /\ stream' \in {stream, [stream EXCEPT ![c] = Front(stream[c])]}
          BY <2>7 DEF ReceiveFails
    <3>2. Len(stream[c]) <= timeouts + 1 BY <2>4, <3>1 DEF LengthInv, Unread
    <3>3. /\ Len(stream'[c]) <= Len(stream[c]) /\ Len(stream'[c]) \in Nat
          /\ \A d \in Clients \ {c} : stream'[d] = stream[d]
      <4>1. stream'[c] = stream[c] \/ stream'[c] = Front(stream[c]) BY <3>1 DEF ShapeInv
      <4>2. Len(Front(stream[c])) \in Nat
            BY RepliesInSequence, LenProperties DEF StreamInv
      <4>3. Len(Front(stream[c])) <= Len(stream[c]) BY <1>1 DEF StreamInv
      <4> QED BY <2>4, <3>1, <4>1, <4>2, <4>3 DEF ShapeInv
    <3>4. Unread(next, stream'[c], timeouts')
          BY <2>3, <2>4, <3>1, <3>2, <3>3 DEF Unread
    <3> QED BY <1>3, <2>2, <3>1, <3>3, <3>4
  <2> QED BY <1>5, <2>5, <2>6, <2>7
<1>6. ASSUME NEW c \in Clients, Sends(c) PROVE LengthInv'
  <2>1. /\ callof' = [callof EXCEPT ![c] = [callof[c] EXCEPT !.at = "receive"]]
        /\ callof[c].at = "send" /\ timeouts' = timeouts
        BY <1>6 DEF Sends
  <2>2. [callof[c] EXCEPT !.at = "receive"].at = "receive" BY DEF ShapeInv, CallShape, CallFields
  <2>3. PICK r : stream' = [stream EXCEPT ![c] = Append(stream[c], r)]
        BY <1>6, Zenon DEF Sends, Replies
  <2>4. Len(Append(stream[c], r)) = Len(stream[c]) + 1 BY <1>1 DEF StreamInv
  <2>5. timeouts \in Nat /\ Len(stream[c]) \in Nat /\ Len(stream[c]) <= timeouts
        BY <1>2, <2>1 DEF LengthInv, Unread
  <2>6. stream'[c] = Append(stream[c], r) /\ \A d \in Clients \ {c} : stream'[d] = stream[d]
        BY <2>3 DEF ShapeInv
  <2>7. Unread([callof[c] EXCEPT !.at = "receive"], stream'[c], timeouts')
        BY <2>1, <2>2, <2>4, <2>5, <2>6 DEF Unread
  <2> QED BY <1>3, <2>1, <2>6, <2>7
<1>7. CASE UNCHANGED configvars
  BY <1>7, Zenon DEF configvars, history, LengthInv, Unread
<1> QED BY <1>4, <1>5, <1>6, <1>7, Zenon DEF ConfigNext, Starts

(* The types of what the other parts do not speak of. *)
RestTypes ==
  /\ device["net"].type = "object" /\ device["enc"].type = "array" /\ device["color"].type = "array"
  /\ DOMAIN form = Clients /\ \A c \in Clients : DOMAIN form[c] = InfoFields
  /\ returned \in [Clients -> {"none", "yes", "no"}]
  /\ calls \in 0 .. MaxCalls /\ timeouts \in 0 .. MaxTimeouts
  /\ {overtaken, late, stored} \subseteq SUBSET Clients

LEMMA RestKept == ShapeInv /\ RestTypes /\ [ConfigNext]_configvars => RestTypes'
<1> SUFFICES ASSUME ShapeInv, RestTypes, [ConfigNext]_configvars PROVE RestTypes' OBVIOUS
<1>1. ASSUME NEW c \in Clients, NEW reply, Continues(c, reply)
      PROVE  /\ DOMAIN form' = Clients /\ \A d \in Clients : DOMAIN form'[d] = InfoFields
             /\ returned' \in [Clients -> {"none", "yes", "no"}]
  <2>1. UNCHANGED form \/ \E doc : form' = [form EXCEPT ![c] = NetworkInfo(doc)]
        BY <1>1, Zenon DEF Continues, GotChannel, GotNetwork, HasRead, HasAnswer
  <2>2. \A doc : DOMAIN NetworkInfo(doc) = InfoFields BY DEF NetworkInfo
  <2>3. UNCHANGED returned \/ \E value \in {"yes", "no"} : returned' = [returned EXCEPT ![c] = value]
        BY <1>1 DEF Continues, GotChannel, GotNetwork, HasRead, HasAnswer, Finishes, TellsTime, Throws
  <2>4. returned' \in [Clients -> {"none", "yes", "no"}] BY <2>3 DEF RestTypes
  <2>5. DOMAIN form' = Clients /\ \A d \in Clients : DOMAIN form'[d] = InfoFields
        BY <2>1, <2>2 DEF RestTypes
  <2> QED BY <2>4, <2>5
<1>2. ASSUME NEW c \in Clients, Starts(c) PROVE RestTypes'
  <2>1. PICK k : Begins(c, k) /\ Opening(k) BY <1>2, CallsOpen
  <2> QED BY <2>1, ConfigAssumption DEF Begins, RestTypes
<1>3. ASSUME NEW c \in Clients, SendFails(c) PROVE RestTypes'
      BY <1>1, <1>3 DEF SendFails, RestTypes
<1>4. ASSUME NEW c \in Clients, Receives(c) PROVE RestTypes'
      BY <1>1, <1>4 DEF Receives, RestTypes
<1>5. ASSUME NEW c \in Clients, ReceiveFails(c) PROVE RestTypes'
      BY <1>1, <1>5, ConfigAssumption DEF ReceiveFails, RestTypes
<1>6. ASSUME NEW c \in Clients, Sends(c) PROVE RestTypes'
  <2>1. stored' \in SUBSET Clients BY <1>6 DEF Sends, RestTypes
  <2>2. /\ device'["net"].type = "object" /\ device'["enc"].type = "array"
        /\ device'["color"].type = "array" /\ overtaken' \in SUBSET Clients
    <3>1. CASE UNCHANGED <<device, overtaken>> BY <3>1 DEF RestTypes
    <3>2. CASE Serves(c) /\ callof[c].op = "write"
      <4>1. /\ device' = [device EXCEPT ![callof[c].name] = Changed(callof[c], c)]
            /\ overtaken' \subseteq overtaken \union Clients
            BY <3>2 DEF Serves
      <4>2. Changed(callof[c], c).type = IF callof[c].name = "net" THEN "object" ELSE "array"
            BY DEF Changed, ChangesNetwork, ChangesEncode, Object, Array
      <4> QED BY <4>1, <4>2 DEF RestTypes, ShapeInv, Settings
    <3>3. UNCHANGED <<device, overtaken>> \/ Serves(c) BY <1>6, Zenon DEF Sends
    <3>4. Serves(c) => UNCHANGED <<device, overtaken>> \/ callof[c].op = "write"
          BY Zenon DEF Serves
    <3> QED BY <3>1, <3>2, <3>3, <3>4
  <2> QED BY <1>6, <2>1, <2>2 DEF Sends, RestTypes
<1>7. CASE UNCHANGED configvars BY <1>7 DEF configvars, history, RestTypes
<1> QED BY <1>2, <1>3, <1>4, <1>5, <1>6, <1>7, Zenon DEF ConfigNext, Starts

FlagInv == misread \in BOOLEAN /\ overlap \in BOOLEAN

LEMMA FlagsKept == FlagInv /\ [ConfigNext]_configvars => FlagInv'
<1> SUFFICES ASSUME FlagInv, [ConfigNext]_configvars PROVE FlagInv' OBVIOUS
<1>1. ASSUME NEW c \in Clients, NEW reply, Continues(c, reply) PROVE misread' \in BOOLEAN
      BY <1>1, Zenon DEF Continues, GotChannel, GotNetwork, HasRead, HasAnswer, FlagInv
<1>2. ASSUME NEW c \in Clients, Starts(c) PROVE FlagInv'
      BY <1>2, CallsOpen, Zenon DEF Begins, FlagInv
<1>3. ASSUME NEW c \in Clients, SendFails(c) \/ Receives(c) \/ ReceiveFails(c) PROVE FlagInv'
      BY <1>1, <1>3, Zenon DEF SendFails, Receives, ReceiveFails, FlagInv
<1>4. ASSUME NEW c \in Clients, Sends(c) PROVE FlagInv'
      BY <1>4, Zenon DEF Sends, Serves, FlagInv
<1>5. CASE UNCHANGED configvars BY <1>5, Zenon DEF configvars, history, FlagInv
<1> QED BY <1>2, <1>3, <1>4, <1>5, Zenon DEF ConfigNext, Starts

-----------------------------------------------------------------------------
(* The invariant, and what it gives.                                        *)

ConfigInv ==
  /\ ShapeInv /\ WholeInv /\ StreamInv /\ PromptInv /\ FreshInv /\ AnswerInv
  /\ LengthInv /\ RestTypes /\ FlagInv

LEMMA SettingsAsMade ==
  /\ DOMAIN AsMade = Settings /\ \A s \in Settings : Whole(s, AsMade[s])
  /\ AsMade["net"].type = "object" /\ AsMade["enc"].type = "array" /\ AsMade["color"].type = "array"
<1>1. Whole("net", AsMade["net"]) BY DEF AsMade, Settings, Whole, Object, NetFields
<1>2. ASSUME NEW s \in {"enc", "color"} PROVE Whole(s, AsMade[s])
      BY DEF AsMade, Settings, Whole, Array, PartFields, Writers
<1> QED BY <1>1, <1>2 DEF AsMade, Settings, Object, Array

LEMMA InitConfigInv == ConfigInit => ConfigInv
<1> SUFFICES ASSUME ConfigInit PROVE ConfigInv OBVIOUS
<1>1. /\ DOMAIN callof = Clients /\ DOMAIN stream = Clients /\ DOMAIN returned = Clients
      /\ \A c \in Clients : callof[c] = NoCall /\ stream[c] = <<>> /\ returned[c] = "none"
      BY DEF ConfigInit
<1>2. CallShape(NoCall) /\ NoCall.at = "idle" /\ NoCall.op = "none"
      BY DEF CallShape, CallFields, NoCall, Settings
<1>3. ShapeInv BY <1>1, <1>2, SettingsAsMade DEF ShapeInv, ConfigInit
<1>4. WholeInv BY <1>1, <1>2, SettingsAsMade DEF WholeInv, Carries, ConfigInit
<1>5. StreamInv
  <2>1. \E R : <<>> \in Seq(R) /\ \A r \in R : Sound(r)
    <3> DEFINE R == {NotSent}
    <3>1. \A r \in R : Sound(r) BY NothingIsSound
    <3>2. <<>> \in Seq(R) OBVIOUS
    <3> HIDE DEF R
    <3> QED BY <3>1, <3>2
  <2> QED BY <1>1, <2>1 DEF StreamInv
<1>6. PromptInv BY <1>1, <1>2, Zenon DEF PromptInv, Replied
<1>7. FreshInv BY <1>1, <1>2 DEF FreshInv, Fresh, UpdatesAreAtomic, ConfigInit
<1>8. AnswerInv BY <1>1, <1>2 DEF AnswerInv, Told
<1>9. LengthInv BY <1>1, <1>2 DEF LengthInv, Unread, ConfigInit
<1>10. RestTypes BY SettingsAsMade, ConfigAssumption DEF RestTypes, ConfigInit, Blank
<1>11. FlagInv BY DEF FlagInv, ConfigInit
<1> QED BY <1>3, <1>4, <1>5, <1>6, <1>7, <1>8, <1>9, <1>10, <1>11 DEF ConfigInv

(* Whatever clients call and whichever requests fail, the invariant holds:  *)
(* send_msg, the functions that read and write settings, the DVR.           *)
THEOREM SettingsKeepInv == ConfigSpec => []ConfigInv
<1>1. ConfigInv /\ [ConfigNext]_configvars => ConfigInv'
  BY ShapeKept, WholeKept, StreamKept, PromptKept, FreshKept, AnswerKept, LengthKept,
     RestKept, FlagsKept, Zenon DEF ConfigInv
<1> QED BY InitConfigInv, <1>1, PTL DEF ConfigSpec

(* The types of the settings and of the calls that change them.             *)
THEOREM SettingsTypes == ConfigSpec => []ConfigTypeOK
<1>1. ConfigInv => ConfigTypeOK
  <2>1. FlagInv => {misread, overlap} \subseteq BOOLEAN BY Zenon DEF FlagInv
  <2>2. ShapeInv /\ LengthInv /\ RestTypes /\ {misread, overlap} \subseteq BOOLEAN => ConfigTypeOK
        BY Zenon DEF ShapeInv, CallShape, LengthInv, Unread, RestTypes, ConfigTypeOK
  <2> QED BY <2>1, <2>2, Zenon DEF ConfigInv
<1> QED BY <1>1, SettingsKeepInv, PTL

(* No field that the library does not know and no channel is lost while     *)
(* sets read the setting that they write back (set_network_info,            *)
(* set_encode_config, set_video_color), for any number of clients and       *)
(* channels, whatever fails.                                                *)
THEOREM SettingsAreKept == ConfigSpec => []SettingsStayWhole
<1>1. ConfigInv => SettingsStayWhole
  <2>1. ASSUME NEW doc, Whole("net", doc)
        PROVE  DOMAIN doc.at = NetFields /\ doc.at["Other"] = "device"
        BY <2>1 DEF Whole
  <2>2. ASSUME NEW s \in {"enc", "color"}, NEW doc, Whole(s, doc)
        PROVE  /\ DOMAIN doc.at = Channels
               /\ \A ch \in Channels : /\ DOMAIN doc.at[ch] = PartFields
                                       /\ doc.at[ch]["Other"] = "device"
        BY <2>2 DEF Whole
  <2>3. {"net", "enc", "color"} = Settings BY DEF Settings
  <2> QED BY <2>1, <2>2, <2>3, Zenon DEF ConfigInv, WholeInv, Trusted, SettingsStayWhole
<1> QED BY <1>1, SettingsKeepInv, PTL

(* Updates by clients that do not overlap are done one at a time.           *)
THEOREM UpdatesInTurn == ConfigSpec => []UpdatesAreAtomic
<1>1. ConfigInv => UpdatesAreAtomic BY Zenon DEF ConfigInv, FreshInv
<1> QED BY <1>1, SettingsKeepInv, PTL

(* What a set, a get and a command say of themselves is what the device     *)
(* did, until a receive fails (send_msg, the tests of Ret).                 *)
THEOREM AnswersHold == ConfigSpec => []AnswersAreTrue
<1>1. ConfigInv => AnswersAreTrue BY Zenon DEF ConfigInv, AnswerInv, Told, AnswersAreTrue
<1> QED BY <1>1, SettingsKeepInv, PTL
=============================================================================
