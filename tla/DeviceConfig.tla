---------------------------- MODULE DeviceConfig ----------------------------
(***************************************************************************)
(* The settings of a device, src/src/dvrip.cpp, and the C functions that   *)
(* read and write them, src/src/cppdvr_api.cpp.  A setting is a JSON       *)
(* document that is read, changed and written back as a whole: "net" is an *)
(* object, "enc" and "color" are arrays with an element for each channel.  *)
(* Clients on connections of their own do so at the same time, and a       *)
(* request may not be sent, be refused, or be answered too late, in which  *)
(* case the next call reads the answer.                                    *)
(*                                                                         *)
(* Of a document the model keeps one field for each way in which the code  *)
(* treats fields, with a value that says who wrote it.  The device is      *)
(* assumed to store what it is sent.  discover is left out, and so are     *)
(* documents of the wrong type and channel numbers that do not exist.  An  *)
(* operator may have a faulty twin before it, which only mutations use.    *)
(***************************************************************************)
EXTENDS Naturals, SequencesExt, FiniteSetsExt

CONSTANTS
  Clients,      \* connections to the device, each used by one thread
  NumChannels,  \* channels of the device
  MaxCalls,     \* bound: calls
  MaxTimeouts   \* bound: receives that fail

ASSUME ConfigAssumption ==
  /\ NumChannels \in Nat \ {0} /\ MaxCalls \in Nat /\ MaxTimeouts \in Nat

Settings   == {"net", "enc", "color"}
Channels   == 1 .. NumChannels
InfoFields == {"HostIP", "TCPPort", "DHCP"}   \* of NetworkInfo
NetFields  == InfoFields \union {"Other"}     \* of the device's document
PartFields == {"Format", "Other"}             \* of a channel

Object(at) == [type |-> "object", at |-> at]
Array(at)  == [type |-> "array", at |-> at]
NoFields   == [f \in {} |-> "unset"]
Void       == Object(NoFields)                      \* "{}"
Answer     == Object([f \in {"Ret"} |-> "unset"])   \* a reply without a document

\* What send_msg returns: a reply of the device, {"Ret": 101} when nothing could be
\* sent, and null when nothing was received.
Reply(op, name, ok, doc) == [op |-> op, name |-> name, ok |-> ok, doc |-> doc]
NotSent == Reply("none", "net", FALSE, Answer)
Null    == Reply("null", "net", FALSE, Void)

\* A DVRNetworkInfoC filled with zeros.
Blank == [f \in InfoFields |-> IF f = "DHCP" THEN "default" ELSE "unset"]

NoCall == [at |-> "idle", op |-> "none", name |-> "net", info |-> Blank, channel |-> 0,
           doc |-> Void]

VARIABLES
  device,    \* the settings as the device has them
  stream,    \* the replies each client has not received yet
  callof,    \* the call each client is in
  form,      \* the DVRNetworkInfoC of each client
  returned,  \* what each client's last call returned; get_network_info always succeeds
  calls, timeouts,  \* history: calls begun, receives that failed
  latest,    \* history: see UpdatesAreAtomic
  misread,   \* history: has a set read something else than the setting?
  overtaken, \* history: clients whose setting has been written since they read it
  overlap,   \* history: has one of them written it nevertheless?
  late,      \* history: clients for which a receive has failed
  stored     \* history: clients whose last call the device has carried out, or
             \* whose last get it has answered with what was asked for

history    == <<calls, timeouts, latest, misread, overtaken, overlap, late, stored>>
configvars == <<device, stream, callof, form, returned, history>>

ConfigTypeOK ==
  /\ DOMAIN device = Settings /\ device["net"].type = "object"
  /\ device["enc"].type = "array" /\ device["color"].type = "array"
  /\ \A c \in Clients : Len(stream[c]) <= timeouts + (IF callof[c].at = "receive" THEN 1 ELSE 0)
  /\ \A c \in Clients : /\ callof[c].at \in {"idle", "send", "receive", "gone"}
                        /\ callof[c].op \in {"none", "get", "read", "write", "time", "command"}
  /\ DOMAIN form = Clients /\ \A c \in Clients : DOMAIN form[c] = InfoFields
  /\ returned \in [Clients -> {"none", "yes", "no"}]
  /\ calls \in 0 .. MaxCalls /\ timeouts \in 0 .. MaxTimeouts
  /\ {misread, overlap} \subseteq BOOLEAN /\ {overtaken, late, stored} \subseteq SUBSET Clients

AsMade == [s \in Settings |->
  IF s = "net" THEN Object([f \in NetFields |-> "device"])
  ELSE Array([ch \in Channels |-> [f \in PartFields |-> "device"]])]

ConfigInit ==
  /\ device = AsMade /\ latest = AsMade
  /\ stream = [c \in Clients |-> <<>>] /\ callof = [c \in Clients |-> NoCall]
  /\ form = [c \in Clients |-> Blank] /\ returned = [c \in Clients |-> "none"]
  /\ calls = 0 /\ timeouts = 0 /\ misread = FALSE /\ overlap = FALSE
  /\ overtaken = {} /\ late = {} /\ stored = {}

-----------------------------------------------------------------------------
(* What the code makes of a reply and of a document.                       *)

\* get_info: the document; "{}"; or the reply itself, if it has no such document.
HasDocument(reply, name) == reply.op = "read" /\ reply.name = name /\ reply.ok

GetInfo(reply, name) ==
  IF HasDocument(reply, name) THEN reply.doc ELSE IF reply = Null THEN Void ELSE Answer

\* resp.value("Ret", 101) is 100 or 515.
AnyAnswer(reply) == reply # NotSent
Succeeded(reply) == reply.ok

\* get_time also wants the document it has asked for.
TellsTime(reply) == Succeeded(reply) /\ reply.op = "time"

\* get_network_info: what is missing is replaced, and the call succeeds.

NetworkInfo(doc) ==
  [f \in InfoFields |-> IF f \in DOMAIN doc.at THEN doc.at[f]
                        ELSE IF f = "HostIP" THEN "unset" ELSE "default"]

\* set_network_info: what is not empty, and DHCP always.
Named(info) == {f \in InfoFields : f = "DHCP" \/ info[f] # "unset"}

OnlyNamed(doc, info) == Object([f \in Named(info) |-> info[f]])

ChangesNetwork(doc, info) ==
  Object([f \in DOMAIN doc.at \union Named(info) |->
            IF f \in Named(info) THEN info[f] ELSE doc.at[f]])

\* build_stream_format, set_video_color: the other fields of the channel stay.
ChangesPart(part, value) ==
  [f \in DOMAIN part \union {"Format"} |-> IF f = "Format" THEN value ELSE part[f]]

Elements(doc) == IF doc.type = "array" THEN doc.at ELSE <<>>

\* set_encode_config: the array is made, or made longer, where it is too short.
CutsAfter(doc, channel, value) ==
  LET arr == Elements(doc)
      part(i) == IF i <= Len(arr) THEN arr[i] ELSE NoFields
  IN Array([i \in 1 .. channel |-> IF i = channel THEN ChangesPart(part(i), value) ELSE part(i)])

ChangesEncode(doc, channel, value) ==
  LET arr == Elements(doc)
      part(i) == IF i <= Len(arr) THEN arr[i] ELSE NoFields
  IN Array([i \in 1 .. Max({channel, Len(arr)}) |->
              IF i = channel THEN ChangesPart(part(i), value) ELSE part(i)])

\* get_encode_config, get_video_color and set_video_color fail if there is none.
HasChannel(doc, channel) == channel \in DOMAIN Elements(doc)

Changed(k, value) ==
  IF k.name = "net" THEN ChangesNetwork(k.doc, k.info) ELSE ChangesEncode(k.doc, k.channel, value)

-----------------------------------------------------------------------------
(* The calls begin.                                                        *)

Begins(c, k) ==
  /\ callof[c].at = "idle" /\ calls < MaxCalls /\ calls' = calls + 1
  /\ callof' = [callof EXCEPT ![c] = k] /\ returned' = [returned EXCEPT ![c] = "none"]
  /\ overtaken' = overtaken \ {c} /\ stored' = stored \ {c}
  /\ UNCHANGED <<device, stream, form, timeouts, latest, misread, overlap, late>>

Call(op, name) == [NoCall EXCEPT !.at = "send", !.op = op, !.name = name]

GetNetwork(c) == Begins(c, Call("get", "net"))

GetEncode(c, channel) == Begins(c, [Call("get", "enc") EXCEPT !.channel = channel])
GetColor(c, channel)  == Begins(c, [Call("get", "color") EXCEPT !.channel = channel])

\* The caller sets the address, in the form as it was read or in a new one.
SetNetwork(c) ==
  \E info \in {form[c], Blank} :
    Begins(c, [Call("read", "net") EXCEPT !.info = [info EXCEPT !["HostIP"] = c]])

SetEncode(c, channel) == Begins(c, [Call("read", "enc") EXCEPT !.channel = channel])
SetColor(c, channel)  == Begins(c, [Call("read", "color") EXCEPT !.channel = channel])

\* ptz, set_time, set_channel_titles, set_channel_bitmap, reboot: a single request.
Command(c) == Begins(c, Call("command", "net"))

\* get_time looks whether there is a reply, and whether the time is in it.
GetTime(c) == Begins(c, Call("time", "net"))

-----------------------------------------------------------------------------
(* send_msg, send_raw_msg for a bitmap, and what follows them.             *)

\* A set or a command is over.
Finishes(c, yes) ==
  /\ returned' = [returned EXCEPT ![c] = IF yes THEN "yes" ELSE "no"]
  /\ callof' = [callof EXCEPT ![c] = NoCall]

\* value() of null throws; the C functions let the exception out, and the program
\* that has called them is terminated.
Throws(c) ==
  /\ callof' = [callof EXCEPT ![c] = [NoCall EXCEPT !.at = "gone"]] /\ UNCHANGED returned

\* A channel of the encoding or of the colors has been asked for.
GotChannel(c, reply) ==
  /\ callof[c].op = "get" /\ callof[c].name # "net"
  /\ Finishes(c, HasChannel(GetInfo(reply, callof[c].name), callof[c].channel))
  /\ UNCHANGED <<form, misread>>

\* The form of the network has been asked for.
GotNetwork(c, reply) ==
  /\ callof[c].op = "get" /\ callof[c].name = "net"
  /\ form' = [form EXCEPT ![c] = NetworkInfo(GetInfo(reply, callof[c].name))]
  /\ callof' = [callof EXCEPT ![c] = NoCall]
  /\ UNCHANGED <<returned, misread>>

\* A set has what it is going to change: only the colors have to be there.
HasRead(c, reply) ==
  LET doc == GetInfo(reply, callof[c].name) IN
  /\ callof[c].op = "read" /\ UNCHANGED form
  /\ misread' = (misread \/ ~HasDocument(reply, callof[c].name) \/ c \in late')
  /\ IF callof[c].name = "color" /\ ~HasChannel(doc, callof[c].channel) THEN Finishes(c, FALSE)
     ELSE /\ callof' = [callof EXCEPT ![c].at = "send", ![c].op = "write", ![c].doc = doc]
          /\ UNCHANGED returned

HasAnswer(c, reply) ==
  /\ callof[c].op \in {"write", "time", "command"} /\ UNCHANGED <<form, misread>>
  /\ \/ callof[c].op = "time" /\ Finishes(c, TellsTime(reply))
     \/ callof[c].op # "time" /\ reply = Null /\ Throws(c)
     \/ callof[c].op # "time" /\ reply # Null /\ Finishes(c, Succeeded(reply))

Continues(c, reply) ==
  GotChannel(c, reply) \/ GotNetwork(c, reply) \/ HasRead(c, reply) \/ HasAnswer(c, reply)

SendFails(c) ==
  /\ callof[c].at = "send" /\ Continues(c, NotSent)
  /\ UNCHANGED <<device, stream, calls, timeouts, latest, overtaken, overlap, late, stored>>

\* The device does what is asked, or refuses, and replies.  latest has the changes
\* of this call alone.
Update(doc, k, value) ==
  IF k.name = "net" THEN Object([f \in DOMAIN doc.at |-> IF f \in Named(k.info) THEN k.info[f] ELSE doc.at[f]])
  ELSE Array([doc.at EXCEPT ![k.channel]["Format"] = value])

Replies(c, ok) ==
  LET k == callof[c] IN stream' = [stream EXCEPT ![c] = Append(@,
    Reply(IF k.op = "get" THEN "read" ELSE k.op, k.name, ok,
          IF ok /\ k.op \in {"get", "read"} THEN device[k.name] ELSE Answer))]

Serves(c) ==
  LET k == callof[c] IN
  \/ /\ k.op = "write"
     /\ device' = [device EXCEPT ![k.name] = Changed(k, c)]
     /\ latest' = [latest EXCEPT ![k.name] = Update(@, k, c)]
     /\ overlap' = (overlap \/ c \in overtaken)
     /\ overtaken' = overtaken \union
          {d \in Clients \ {c} : /\ callof[d].name = k.name
                                 /\ \/ callof[d].op = "write"
                                    \/ callof[d].op = "read" /\ callof[d].at = "receive"}
  \/ k.op # "write" /\ UNCHANGED <<device, latest, overtaken, overlap>>

CarriedOut(k) ==
  k.op # "read" /\ (k.op = "get" => HasChannel(device[k.name], k.channel))

Sends(c) ==
  /\ callof[c].at = "send"
  /\ \/ /\ Replies(c, TRUE) /\ Serves(c)
        /\ stored' = IF CarriedOut(callof[c]) THEN stored \union {c} ELSE stored
     \/ Replies(c, FALSE) /\ UNCHANGED <<device, latest, overtaken, overlap, stored>>
  /\ callof' = [callof EXCEPT ![c].at = "receive"]
  /\ UNCHANGED <<form, returned, calls, timeouts, misread, late>>

Receives(c) ==
  /\ callof[c].at = "receive" /\ stream[c] # <<>>
  /\ stream' = [stream EXCEPT ![c] = Tail(@)]
  /\ UNCHANGED <<timeouts, late>> /\ Continues(c, Head(stream[c]))
  /\ UNCHANGED <<device, calls, latest, overtaken, overlap, stored>>

\* The reply comes too late, or never.
ReceiveFails(c) ==
  /\ callof[c].at = "receive" /\ timeouts < MaxTimeouts /\ timeouts' = timeouts + 1
  /\ stream' \in {stream, [stream EXCEPT ![c] = Front(@)]}
  /\ late' = late \union {c} /\ Continues(c, Null)
  /\ UNCHANGED <<device, calls, latest, overtaken, overlap, stored>>

ConfigNext == \E c \in Clients :
  \/ GetNetwork(c) \/ SetNetwork(c) \/ Command(c) \/ GetTime(c)
  \/ \E channel \in Channels : \/ SetEncode(c, channel) \/ SetColor(c, channel)
                               \/ GetEncode(c, channel) \/ GetColor(c, channel)
  \/ SendFails(c) \/ Sends(c) \/ Receives(c) \/ ReceiveFails(c)

ConfigSpec == ConfigInit /\ [][ConfigNext]_configvars

-----------------------------------------------------------------------------
(* Properties.                                                             *)

\* As long as every set has read the setting it changes, no field that the library
\* does not know and no channel is lost, even when two clients write at once; and
\* the colors stay whole whatever a client reads, for they are written on top of the
\* device's own or not at all.  (set_network_info, set_encode_config, set_video_color.)
SettingsStayWhole ==
  /\ ~misread => /\ DOMAIN device["net"].at = NetFields
                 /\ device["net"].at["Other"] = "device"
  /\ \A s \in {"enc", "color"} : s = "color" \/ ~misread =>
       /\ DOMAIN device[s].at = Channels
       /\ \A ch \in Channels : /\ DOMAIN device[s].at[ch] = PartFields
                               /\ device[s].at[ch]["Other"] = "device"

\* Unless a set has read something else than the setting, or has written what it
\* read before another client's write, the device has the settings that result from
\* doing the sets one at a time, each changing what it names.  (The reading and
\* writing back of the three set_ functions, and the form of the C API.)
UpdatesAreAtomic == ~misread /\ ~overlap => device = latest

\* A set or command that says it succeeded has been carried out, and one that says
\* it failed has not; a get of an encoding or of colors has what the device answered
\* exactly if it says so; all until the first receive of that client fails.
\* (The tests of Ret and of the documents, and send_msg.)
AnswersAreTrue ==
  \A c \in Clients \ late : /\ returned[c] = "yes" => c \in stored
                            /\ returned[c] = "no" => c \notin stored
=============================================================================
