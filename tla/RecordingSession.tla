--------------------------- MODULE RecordingSession ---------------------------
(***************************************************************************)
(* What a recording promises, without threads, counters, flags or ffmpeg:  *)
(* while a session is open frames join a line, some member of the line may *)
(* be given up, and the head of the line is delivered to the file.  A      *)
(* session that is closing takes no more frames; its file is saved only    *)
(* when nobody is left in the line.                                        *)
(***************************************************************************)
EXTENDS Integers, Sequences

CONSTANT Frame

VARIABLES phase,      \* "idle", "open" or "closing"
          line,       \* accepted, neither delivered nor given up
          delivered,  \* in the file, in order
          result      \* of the session: "none", "saved" or "failed"

rsvars == <<phase, line, delivered, result>>

Init ==
  /\ phase = "idle" /\ line = <<>> /\ delivered = <<>> /\ result = "none"

(* The line without its member i. *)
Without(i) == SubSeq(line, 1, i - 1) \o SubSeq(line, i + 1, Len(line))

Open ==
  /\ phase = "idle"
  /\ phase' = "open" /\ line' = <<>> /\ delivered' = <<>> /\ result' = "none"

(* One more frame at the end, perhaps at the price of one in the line. *)
Accept ==
  /\ phase = "open"
  /\ line' # <<>> /\ line'[Len(line')] \in Frame
  /\ SubSeq(line', 1, Len(line') - 1)
       \in {line} \cup {Without(i) : i \in 1 .. Len(line)}
  /\ UNCHANGED <<phase, delivered, result>>

GiveUp ==
  /\ phase # "idle"
  /\ \E i \in 1 .. Len(line) : line' = Without(i)
  /\ UNCHANGED <<phase, delivered, result>>

Deliver ==
  /\ phase # "idle" /\ line # <<>>
  /\ delivered' = Append(delivered, Head(line))
  /\ line' = Tail(line)
  /\ UNCHANGED <<phase, result>>

Close ==
  /\ phase = "open"
  /\ phase' = "closing"
  /\ UNCHANGED <<line, delivered, result>>

Save ==
  /\ phase = "closing" /\ line = <<>> /\ result = "none"
  /\ result' = "saved"
  /\ UNCHANGED <<phase, line, delivered>>

(* The session ends: what is still in the line is lost, and then the       *)
(* session is not saved.                                                   *)
End ==
  /\ phase # "idle"
  /\ phase' = "idle" /\ line' = <<>>
  /\ result' = IF result = "saved" THEN "saved" ELSE "failed"
  /\ UNCHANGED delivered

Next == Open \/ Accept \/ GiveUp \/ Deliver \/ Close \/ Save \/ End

Spec == Init /\ [][Next]_rsvars
=============================================================================
