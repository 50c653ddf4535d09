------------------------- MODULE ChildProcessProofs -------------------------
(***************************************************************************)
(* Proofs about ChildProcess, for any number of processes of each owner.   *)
(* What is open belongs to the owners' current children, and to them only  *)
(* while their owner is at work; a child is settled, as nothing is left to *)
(* do about it, before its owner is idle again; and the stdin of the       *)
(* recorder's ffmpeg is held only by what was forked while it was open.    *)
(***************************************************************************)
EXTENDS ChildProcess, SequenceTheorems, TLAPS

USE DEF platform

-----------------------------------------------------------------------------
(* Children and their pipes. *)

LEMMA ChildrenAre ==
  /\ \A o \in Owners : \A n \in 1 .. MaxSpawns[o] : <<o, n>> \in Children
  /\ \A c \in Children : /\ c[1] \in Owners /\ c[2] \in 1 .. MaxSpawns[c[1]]
                         /\ c = <<c[1], c[2]>>
<1>1. ASSUME NEW o \in Owners, NEW n \in 1 .. MaxSpawns[o] PROVE <<o, n>> \in Children
  <2>1. <<o, n>> \in {o} \X (1 .. MaxSpawns[o]) OBVIOUS
  <2> QED BY <2>1 DEF Children
<1>2. ASSUME NEW c \in Children
      PROVE  c[1] \in Owners /\ c[2] \in 1 .. MaxSpawns[c[1]] /\ c = <<c[1], c[2]>>
  BY DEF Children
<1> QED BY <1>1, <1>2

LEMMA EndsAre ==
  ASSUME NEW c
  PROVE  /\ \A e \in ChildEnds(c) \union ParentEnds(c) : e[1] = c
         /\ ChildEnds(c) \intersect ParentEnds(c) = {}
         /\ c \in Children => ChildEnds(c) \union ParentEnds(c) \subseteq Ends
         /\ \A e \in Ends : e[1] = c => e \in ChildEnds(c) \union ParentEnds(c)
         /\ <<c, "stdin", "w">> \in ParentEnds(c)
BY DEF ChildEnds, ParentEnds, Ends, Streams

LEMMA EndsBelong ==
  \A e \in Ends : e[1] \in Children /\ e[1][1] \in Owners /\ e[1] = <<e[1][1], e[1][2]>>
BY ChildrenAre DEF Ends

-----------------------------------------------------------------------------
(* The invariant. *)

Settled(c) == proc[c] \in {"none", "reaped"} \/ (~posix /\ proc[c] = "zombie")

(* An owner at work has a child; its other children are settled, and its    *)
(* current one too when it is idle or joins its threads.                   *)
ProcOK ==
  \A o \in Owners :
    /\ owner[o] # "idle" => spawned[o] # 0
    /\ \A n \in 1 .. MaxSpawns[o] :
         /\ n # spawned[o] \/ owner[o] \in {"idle", "joining"} => Settled(<<o, n>>)
         /\ n > spawned[o] \/ (n = spawned[o] /\ owner[o] \in {"piping", "piped"}) =>
              proc[<<o, n>>] = "none"

(* An idle owner has nothing open, and one that feeds its child none of the *)
(* child's ends.                                                           *)
OpenOK ==
  \A e \in open :
    /\ owner[e[1][1]] # "idle"
    /\ owner[e[1][1]] \notin {"piping", "piped", "forked"} => e \in ParentEnds(e[1])

ReadersOK == \A o \in Owners : owner[o] \in {"idle", "piping", "piped"} => readers[o] = {}

(* Children hold ends of the children there have been. *)
HeldOK ==
  \A c \in Children : \A e \in held[c] : e \in Ends /\ e[1][2] <= spawned[e[1][1]]

(* No child holds the library's end of its own pipes, and on Windows none    *)
(* holds an end of another child's.                                        *)
HandlesOK ==
  \A c \in Children : /\ held[c] \intersect ParentEnds(c) = {}
                      /\ ~posix => held[c] \subseteq ChildEnds(c)

RecStdin == <<Current("recorder"), "stdin", "w">>

StdinOK ==
  /\ owner["recorder"] \in {"waiting", "overdue"} => RecStdin \notin open
  /\ \A c \in Children : RecStdin \in held[c] => beside

IInv == /\ ProcessTypeOK /\ ProcOK /\ OpenOK /\ ReadersOK /\ HeldOK
        /\ HandlesOK /\ StdinOK /\ OverdueOnlyIfStuck

LEMMA CurrentIsChild ==
  ASSUME ProcessTypeOK, ProcOK, NEW o \in Owners, owner[o] # "idle"
  PROVE  Current(o) \in Children /\ Current(o) = <<o, spawned[o]>>
         /\ spawned[o] \in 1 .. MaxSpawns[o]
BY ChildrenAre, SpawnsAssumption DEF ProcessTypeOK, ProcOK, Current

LEMMA InitIInv == Init => IInv
<1> SUFFICES ASSUME Init PROVE IInv OBVIOUS
<1>1. ProcessTypeOK
  <2>1. posix \in BOOLEAN /\ ignores_sigpipe \in BOOLEAN /\ beside \in BOOLEAN BY DEF Init
  <2>2. spawned \in [Owners -> Nat] /\ \A o \in Owners : spawned[o] <= MaxSpawns[o]
        BY SpawnsAssumption DEF Init
  <2>3. /\ open \subseteq Ends /\ \A end \in open : end[1] = Current(end[1][1])
        /\ held \in [Children -> SUBSET Ends]
        BY DEF Init
  <2>4. /\ owner \in [Owners -> {"idle"}] /\ proc \in [Children -> {"none"}]
        /\ readers \in [Owners -> SUBSET {"stdout", "stderr"}] /\ host = "up"
        BY DEF Init
  <2> QED BY <2>1, <2>2, <2>3, <2>4 DEF ProcessTypeOK
<1>2. ProcOK /\ OpenOK /\ ReadersOK BY ChildrenAre DEF Init, ProcOK, OpenOK, ReadersOK, Settled
<1>3. HeldOK /\ HandlesOK /\ StdinOK
      BY DEF Init, HeldOK, HandlesOK, StdinOK, Owners
<1>4. OverdueOnlyIfStuck BY DEF Init, OverdueOnlyIfStuck, Owners
<1> QED BY <1>1, <1>2, <1>3, <1>4 DEF IInv

(* A process is made: first its number, then its pipes, then the fork. *)
LEMMA SpawnBeginsStep ==
  ASSUME IInv, NEW o \in Owners, SpawnBegins(o)
  PROVE  IInv'
<1> DEFINE c == <<o, spawned[o] + 1>>
<1>1. /\ host = "up" /\ owner[o] = "idle" /\ spawned[o] < MaxSpawns[o]
      /\ spawned' = [spawned EXCEPT ![o] = @ + 1]
      /\ beside' = (beside /\ o # "recorder") /\ owner' = [owner EXCEPT ![o] = "piping"]
      /\ UNCHANGED <<posix, ignores_sigpipe, host, open, held, proc, readers>>
      BY DEF SpawnBegins, At, Goes
<1>2. spawned[o] \in Nat /\ MaxSpawns[o] \in Nat
      BY SpawnsAssumption DEF IInv, ProcessTypeOK
<1>3. c \in Children BY <1>1, <1>2, ChildrenAre
<1>4. \A e \in open : e[1][1] # o BY <1>1 DEF IInv, OpenOK
<1>5. ProcessTypeOK'
  <2>1. open' \subseteq Ends BY <1>1 DEF IInv, ProcessTypeOK
  <2>2. \A e \in open' : e[1] = Current(e[1][1])'
        BY <1>1, <1>4, EndsBelong DEF IInv, ProcessTypeOK, Current
  <2>3. spawned' \in [Owners -> Nat] /\ \A q \in Owners : spawned'[q] <= MaxSpawns[q]
        BY <1>1, <1>2, SpawnsAssumption DEF IInv, ProcessTypeOK
  <2>4. beside' \in BOOLEAN BY <1>1 DEF IInv, ProcessTypeOK
  <2> QED BY <1>1, <2>1, <2>2, <2>3, <2>4 DEF IInv, ProcessTypeOK
<1>6. ProcOK' BY <1>1, <1>2 DEF IInv, ProcOK, ProcessTypeOK, Settled
<1>7. OpenOK'
  <2>1. ASSUME NEW e \in open PROVE owner'[e[1][1]] = owner[e[1][1]]
        BY <1>1, <1>4, <2>1, EndsBelong DEF IInv, ProcessTypeOK
  <2> QED BY <1>1, <2>1 DEF IInv, OpenOK
<1>8. ReadersOK' BY <1>1 DEF IInv, ReadersOK, ProcessTypeOK
<1>9. HeldOK'
  <2>1. \A q \in Owners : spawned[q] \in Nat /\ spawned'[q] \in Nat /\ spawned[q] <= spawned'[q]
        BY <1>1, <1>2 DEF IInv, ProcessTypeOK
  <2> SUFFICES ASSUME NEW d \in Children, NEW e \in held[d]
               PROVE  e \in Ends /\ e[1][2] <= spawned'[e[1][1]]
      BY <1>1 DEF HeldOK
  <2>2. e \in Ends /\ e[1][2] <= spawned[e[1][1]] BY DEF IInv, HeldOK
  <2>3. e[1][1] \in Owners /\ e[1][2] \in Nat
    <3>1. e[1] \in Children BY <2>2, EndsBelong
    <3>2. e[1][1] \in Owners /\ e[1][2] \in 1 .. MaxSpawns[e[1][1]] BY <3>1, ChildrenAre
    <3> QED BY <3>2
  <2> QED BY <2>1, <2>2, <2>3
<1>10. HandlesOK' BY <1>1 DEF IInv, HandlesOK
<1>11. StdinOK' /\ OverdueOnlyIfStuck'
  <2>1. CASE o = "recorder"
    <3>1. RecStdin' = <<c, "stdin", "w">> BY <1>1, <2>1 DEF RecStdin, Current, IInv, ProcessTypeOK
    <3>2. \A d \in Children : RecStdin' \notin held[d]
          BY <1>2, <2>1, <3>1 DEF IInv, HeldOK
    <3> QED BY <1>1, <2>1, <3>2 DEF StdinOK, OverdueOnlyIfStuck, IInv, ProcessTypeOK
  <2>2. CASE o # "recorder"
    <3>1. Current("recorder")' = Current("recorder")
          BY <1>1, <2>2 DEF Current, IInv, ProcessTypeOK, Owners
    <3>2. owner'["recorder"] = owner["recorder"] /\ beside' = beside
          BY <1>1, <2>2 DEF IInv, ProcessTypeOK, Owners
    <3> QED BY <1>1, <3>1, <3>2 DEF IInv, StdinOK, OverdueOnlyIfStuck, RecStdin
  <2> QED BY <2>1, <2>2
<1> QED BY <1>5, <1>6, <1>7, <1>8, <1>9, <1>10, <1>11 DEF IInv

LEMMA CreatePipeStep ==
  ASSUME IInv, NEW o \in Owners, CreatePipe(o)
  PROVE  IInv'
<1> DEFINE c == Current(o)
<1>1. PICK s \in Streams :
        /\ owner[o] = "piping"
        /\ owner' = [owner EXCEPT ![o] = IF s = "stderr" THEN "piped" ELSE "piping"]
        /\ open' = open \union {<<c, s, "r">>, <<c, s, "w">>}
        /\ UNCHANGED <<posix, ignores_sigpipe, host, spawned, held, proc, readers, beside>>
      BY DEF CreatePipe, At, Goes, NextPipe, Streams
<1>2. c \in Children /\ c = <<o, spawned[o]>> /\ spawned[o] \in 1 .. MaxSpawns[o]
      BY <1>1, CurrentIsChild DEF IInv
<1>3. PICK place \in {"piping", "piped"} : owner' = [owner EXCEPT ![o] = place] BY <1>1
<1>4. ProcessTypeOK'
  <2>1. {<<c, s, "r">>, <<c, s, "w">>} \subseteq Ends BY <1>2 DEF Ends
  <2>2. \A e \in open' : e[1] = Current(e[1][1])'
        BY <1>1, <1>2 DEF IInv, ProcessTypeOK, Current
  <2> QED BY <1>1, <1>3, <2>1, <2>2 DEF IInv, ProcessTypeOK
<1>5. ProcOK' BY <1>1, <1>2, <1>3 DEF IInv, ProcOK, ProcessTypeOK, Settled
<1>6. OpenOK'
  <2>1. ASSUME NEW e \in open PROVE owner'[e[1][1]] \in {owner[e[1][1]], "piping", "piped"}
        BY <1>1, <1>3, EndsBelong DEF IInv, ProcessTypeOK
  <2>2. ASSUME NEW e \in {<<c, s, "r">>, <<c, s, "w">>} PROVE owner'[e[1][1]] \in {"piping", "piped"}
        BY <1>2, <1>3 DEF IInv, ProcessTypeOK
  <2> QED BY <1>1, <2>1, <2>2 DEF IInv, OpenOK
<1>7. ReadersOK' BY <1>1, <1>3 DEF IInv, ReadersOK, ProcessTypeOK
<1>8. HeldOK' /\ HandlesOK' BY <1>1 DEF IInv, HeldOK, HandlesOK
<1>9. StdinOK' /\ OverdueOnlyIfStuck'
  <2>1. Current("recorder")' = Current("recorder") /\ RecStdin' = RecStdin
        BY <1>1 DEF Current, RecStdin
  <2>2. owner'["recorder"] \in {"waiting", "overdue"} =>
          o # "recorder" /\ owner'["recorder"] = owner["recorder"]
        BY <1>3 DEF IInv, ProcessTypeOK, Owners
  <2>3. o # "recorder" /\ RecStdin \in open' => RecStdin \in open
    <3>1. o # "recorder" => Current("recorder") # c BY <1>2 DEF Current
    <3> QED BY <1>1, <3>1 DEF RecStdin
  <2> QED BY <1>1, <2>1, <2>2, <2>3 DEF IInv, StdinOK, OverdueOnlyIfStuck
<1> QED BY <1>4, <1>5, <1>6, <1>7, <1>8, <1>9 DEF IInv

LEMMA ForkStep ==
  ASSUME IInv, NEW o \in Owners, Fork(o)
  PROVE  IInv'
<1> DEFINE c == Current(o)
<1>1. /\ host = "up" /\ owner[o] = "piped" /\ proc' = [proc EXCEPT ![c] = "running"]
      /\ held' = [held EXCEPT ![c] = IF posix THEN PosixHandles(c) ELSE WindowsHandles(c)]
      /\ beside' = (beside \/ (o # "recorder" /\ RecStdin \in open))
      /\ owner' = [owner EXCEPT ![o] = "forked"]
      /\ UNCHANGED <<posix, ignores_sigpipe, host, spawned, open, readers>>
      BY DEF Fork, At, Goes, RecStdin
<1>2. c \in Children /\ c = <<o, spawned[o]>> /\ spawned[o] \in 1 .. MaxSpawns[o]
      BY <1>1, CurrentIsChild DEF IInv
<1>3. Current("recorder")' = Current("recorder") BY <1>1 DEF Current
<1>4. /\ held'[c] \subseteq Ends /\ held'[c] \intersect ParentEnds(c) = {}
      /\ ~posix => held'[c] \subseteq ChildEnds(c)
      /\ held'[c] \subseteq open \union ChildEnds(c)
  <2>1. held'[c] = IF posix THEN open \ ParentEnds(c) ELSE ChildEnds(c)
        BY <1>1, <1>2 DEF IInv, ProcessTypeOK, PosixHandles, WindowsHandles
  <2>2. open \subseteq Ends BY DEF IInv, ProcessTypeOK
  <2>3. ChildEnds(c) \subseteq Ends /\ ChildEnds(c) \intersect ParentEnds(c) = {}
        BY <1>2, EndsAre
  <2> QED BY <2>1, <2>2, <2>3
<1>5. ProcessTypeOK'
  <2>1. beside' \in BOOLEAN BY <1>1 DEF IInv, ProcessTypeOK
  <2>2. held' \in [Children -> SUBSET Ends] BY <1>1, <1>2, <1>4 DEF IInv, ProcessTypeOK
  <2> QED BY <1>1, <1>2, <2>1, <2>2 DEF IInv, ProcessTypeOK, Current
<1>6. ProcOK' BY <1>1, <1>2 DEF IInv, ProcOK, ProcessTypeOK, Settled
<1>7. OpenOK' /\ ReadersOK' BY <1>1 DEF IInv, OpenOK, ReadersOK, ProcessTypeOK
<1>8. HeldOK'
  <2>1. \A e \in held'[c] : e \in Ends /\ e[1][2] <= spawned[e[1][1]]
    <3>1. ASSUME NEW e \in open PROVE e[1][2] <= spawned[e[1][1]]
      <4>1. e[1] = <<e[1][1], spawned[e[1][1]]>> /\ e[1][1] \in Owners
            BY EndsBelong DEF IInv, ProcessTypeOK, Current
      <4>2. spawned[e[1][1]] \in Nat BY <4>1 DEF IInv, ProcessTypeOK
      <4> QED BY <4>1, <4>2
    <3>2. ASSUME NEW e \in ChildEnds(c) PROVE e[1][2] <= spawned[e[1][1]]
      <4>1. e[1] = <<o, spawned[o]>> BY <1>2, EndsAre
      <4> QED BY <1>2, <4>1 DEF IInv, ProcessTypeOK
    <3> QED BY <1>4, <3>1, <3>2
  <2> QED BY <1>1, <2>1 DEF IInv, HeldOK, ProcessTypeOK
<1>9. HandlesOK' BY <1>1, <1>4 DEF IInv, HandlesOK, ProcessTypeOK
<1>10. StdinOK' /\ OverdueOnlyIfStuck'
  <2>1. RecStdin' = RecStdin BY <1>3 DEF RecStdin
  <2>2. RecStdin \in held'[c] => beside'
    <3>1. CASE o = "recorder" BY <1>4, <3>1, EndsAre DEF RecStdin
    <3>2. CASE o # "recorder"
      <4>1. RecStdin \notin ChildEnds(c)
        <5>1. RecStdin[1] # c BY <1>2, <3>2 DEF RecStdin, Current
        <5> QED BY <5>1, EndsAre
      <4> QED BY <1>1, <1>4, <3>2, <4>1
    <3> QED BY <3>1, <3>2
  <2>3. beside => beside' BY <1>1
  <2>4. \A d \in Children : RecStdin \in held'[d] => beside'
        BY <1>1, <2>2, <2>3 DEF IInv, StdinOK, ProcessTypeOK
  <2>5. owner'["recorder"] \in {"waiting", "overdue"} =>
          o # "recorder" /\ owner'["recorder"] = owner["recorder"]
        BY <1>1 DEF IInv, ProcessTypeOK, Owners
  <2>6. o # "recorder" => Current("recorder") # c BY <1>2 DEF Current
  <2>7. o # "recorder" => proc'[Current("recorder")] = proc[Current("recorder")]
        BY <1>1, <2>6 DEF IInv, ProcessTypeOK
  <2>8. StdinOK' BY <1>1, <2>1, <2>4, <2>5 DEF IInv, StdinOK
  <2>9. OverdueOnlyIfStuck'
        BY <1>1, <1>3, <2>3, <2>5, <2>7 DEF IInv, OverdueOnlyIfStuck
  <2> QED BY <2>8, <2>9
<1> QED BY <1>5, <1>6, <1>7, <1>8, <1>9, <1>10 DEF IInv

-----------------------------------------------------------------------------
(* The other steps close ends, take them from children, and move on.       *)

Shrinks ==
  /\ UNCHANGED <<posix, ignores_sigpipe, spawned, beside>>
  /\ open' \subseteq open
  /\ held' \in [Children -> SUBSET Ends] /\ \A c \in Children : held'[c] \subseteq held[c]

LEMMA ShrinkStep ==
  ASSUME IInv, Shrinks
  PROVE  /\ open' \subseteq Ends /\ \A e \in open' : e[1] = Current(e[1][1])'
         /\ HeldOK' /\ HandlesOK'
         /\ RecStdin' = RecStdin /\ \A c \in Children : RecStdin \in held'[c] => beside'
<1> USE DEF Shrinks
<1>1. open' \subseteq Ends /\ \A e \in open' : e[1] = Current(e[1][1])'
      BY DEF IInv, ProcessTypeOK, Current
<1>2. HeldOK' BY DEF IInv, HeldOK
<1>3. HandlesOK' BY DEF IInv, HandlesOK
<1>4. RecStdin' = RecStdin BY DEF RecStdin, Current
<1>5. \A c \in Children : RecStdin \in held'[c] => beside' BY DEF IInv, StdinOK
<1> QED BY <1>1, <1>2, <1>3, <1>4, <1>5

(* Nothing happens to the children, and no owner begins or ends its work.   *)
LEMMA OwnerMovesStep ==
  ASSUME IInv, Shrinks, NEW o \in Owners,
         owner[o] \notin {"idle", "piping", "piped", "joining"}, UNCHANGED <<proc, held>>,
         NEW place \in {"first", "feeding", "blocked", "waiting", "overdue", "killing"},
         owner' = [owner EXCEPT ![o] = place] \/ owner' = owner,
         host' \in {"up", "killed"}, readers' \in [Owners -> SUBSET {"stdout", "stderr"}],
         \A q \in Owners : q = o \/ readers'[q] = readers[q],
         owner'[o] \in {"waiting", "overdue"} => <<Current(o), "stdin", "w">> \notin open',
         owner[o] = "forked" /\ owner'[o] # "forked" =>
           \A e \in open' : e[1][1] = o => e \in ParentEnds(e[1]),
         OverdueOnlyIfStuck'
  PROVE  IInv'
<1> USE DEF Shrinks
<1>1. ProcessTypeOK' BY ShrinkStep DEF IInv, ProcessTypeOK
<1>2. ProcOK' BY DEF IInv, ProcOK, ProcessTypeOK, Settled
<1>3. OpenOK' BY EndsBelong DEF IInv, OpenOK, ProcessTypeOK
<1>4. ReadersOK' BY DEF IInv, ReadersOK, ProcessTypeOK
<1>5. StdinOK'
  <2>1. owner'["recorder"] \in {"waiting", "overdue"} => RecStdin \notin open'
        BY DEF IInv, StdinOK, ProcessTypeOK, RecStdin, Owners
  <2> QED BY <2>1, ShrinkStep DEF StdinOK
<1> QED BY <1>1, <1>2, <1>3, <1>4, <1>5, ShrinkStep DEF IInv

(* OverdueOnlyIfStuck holds on as long as the recorder is not made to wait. *)
LEMMA OverdueStays ==
  ASSUME OverdueOnlyIfStuck, UNCHANGED <<posix, beside, spawned, proc>>,
         owner'["recorder"] = "overdue" => owner["recorder"] = "overdue"
  PROVE  OverdueOnlyIfStuck'
BY DEF OverdueOnlyIfStuck, Current

(* An owner that has closed what it does not use has none of its child's ends. *)
LEMMA HasClosedThem ==
  ASSUME NEW o \in Owners, HasClosed(o)
  PROVE  \A e \in ChildEnds(Current(o)) : e \notin open
<1> DEFINE c     == Current(o)
           all   == <<<<c, "stdin", "r">>, <<c, "stdout", "w">>, <<c, "stderr", "w">>>>
           other == IF c[1] = "recorder" THEN <<<<c, "stdout", "r">>>> ELSE <<>>
<1>1. /\ \A k \in 1 .. 3 : k \in DOMAIN (all \o other) /\ (all \o other)[k] = all[k]
  <2> DEFINE S == {c} \X Streams \X {"r", "w"}
  <2>1. all \in Seq(S) /\ Len(all) = 3 BY DEF Streams
  <2>2. other \in Seq(S)
    <3>1. CASE c[1] = "recorder" BY <3>1 DEF Streams
    <3>2. CASE c[1] # "recorder" BY <3>2
    <3> QED BY <3>1, <3>2
  <2> HIDE DEF all, other, S
  <2>3. PICK T, A, B : T = S /\ A = all /\ B = other OBVIOUS
  <2>4. A \in Seq(T) /\ B \in Seq(T) /\ Len(A) = 3 BY <2>1, <2>2, <2>3
  <2>5. /\ A \o B \in Seq(T) /\ Len(A \o B) = Len(A) + Len(B)
        /\ \A k \in 1 .. Len(A) + Len(B) : (A \o B)[k] = IF k <= Len(A) THEN A[k] ELSE B[k - Len(A)]
        BY <2>4, ConcatProperties
  <2>6. Len(B) \in Nat /\ DOMAIN (A \o B) = 1 .. Len(A \o B) BY <2>4, <2>5
  <2> QED BY <2>3, <2>4, <2>5, <2>6
<1>2. Unused(c) = all \o other BY DEF Unused
<1>3. \A k \in 1 .. 3 : all[k] \notin open
  <2> HIDE DEF all, other
  <2> QED BY <1>1, <1>2 DEF HasClosed
<1>4. all[1] = <<c, "stdin", "r">> /\ all[2] = <<c, "stdout", "w">> /\ all[3] = <<c, "stderr", "w">>
      OBVIOUS
<1> HIDE DEF all
<1> QED BY <1>3, <1>4 DEF ChildEnds

(* The child's ends are closed and threads are started, a write fails or     *)
(* blocks, and a stop begins.                                              *)
LEMMA MovesStep ==
  ASSUME IInv, NEW o \in Owners,
         \/ ParentCloses(o) \/ StartThreads(o) \/ WriteFails(o) \/ WriteBlocks(o) \/ Terminate(o)
         \/ (o = "recorder" /\ Save)
         \/ (o = "pipeline" /\ (PipelineNotices \/ FirstWrite \/ FirstWriteFails))
  PROVE  IInv'
<1> USE DEF At, Goes
<1>1. CASE ParentCloses(o)
  <2>1. /\ owner[o] = "forked" /\ owner' = owner /\ open' \subseteq open
        /\ UNCHANGED <<posix, ignores_sigpipe, host, spawned, held, proc, readers, beside>>
        BY <1>1 DEF ParentCloses
  <2>2. Shrinks BY <2>1 DEF Shrinks, IInv, ProcessTypeOK
  <2>3. OverdueOnlyIfStuck' BY <2>1, OverdueStays DEF IInv, ProcessTypeOK
  <2> QED BY <2>1, <2>2, <2>3, OwnerMovesStep DEF IInv, ProcessTypeOK
<1>5. CASE StartThreads(o) \/ (o = "pipeline" /\ FirstWrite)
  <2>1. PICK place \in {"first", "feeding"} :
          /\ owner[o] \in {"forked", "first"} /\ owner' = [owner EXCEPT ![o] = place]
          /\ owner[o] = "forked" => HasClosed(o)
          /\ readers' \in {readers, [readers EXCEPT ![o] = Reads(o)]}
          /\ UNCHANGED <<posix, ignores_sigpipe, host, spawned, open, held, proc, beside>>
        BY <1>5 DEF StartThreads, FirstWrite
  <2>2. Shrinks BY <2>1 DEF Shrinks, IInv, ProcessTypeOK
  <2>3. OverdueOnlyIfStuck' BY <2>1, OverdueStays DEF IInv, ProcessTypeOK
  <2>4. ASSUME owner[o] = "forked", NEW e \in open', e[1][1] = o PROVE e \in ParentEnds(e[1])
    <3>1. e \in Ends /\ e[1] = Current(o) BY <2>1, <2>4 DEF IInv, ProcessTypeOK
    <3>2. e \notin ChildEnds(Current(o)) BY <2>1, <2>4, HasClosedThem
    <3> QED BY <3>1, <3>2, EndsAre
  <2>5. readers' \in [Owners -> SUBSET {"stdout", "stderr"}]
        BY <2>1 DEF IInv, ProcessTypeOK, Reads
  <2>6. \A q \in Owners : q = o \/ readers'[q] = readers[q] BY <2>1 DEF IInv, ProcessTypeOK
  <2>7. host' \in {"up", "killed"} /\ owner'[o] = place BY <2>1 DEF IInv, ProcessTypeOK
  <2> QED BY <2>1, <2>2, <2>3, <2>4, <2>5, <2>6, <2>7, OwnerMovesStep
<1>6. CASE o = "pipeline" /\ FirstWriteFails
  <2>1. /\ owner[o] = "first" /\ host' = "killed"
        /\ UNCHANGED <<posix, ignores_sigpipe, spawned, owner, open, held, proc, readers, beside>>
        BY <1>6 DEF FirstWriteFails
  <2>2. Shrinks BY <2>1 DEF Shrinks, IInv, ProcessTypeOK
  <2>3. OverdueOnlyIfStuck' BY <2>1, OverdueStays DEF IInv, ProcessTypeOK
  <2> QED BY <2>1, <2>2, <2>3, OwnerMovesStep DEF IInv, ProcessTypeOK
<1>2. CASE WriteFails(o)
  <2>1. /\ owner[o] \in {"feeding", "blocked"}
        /\ owner' = [owner EXCEPT ![o] = "killing"] \/ owner' = owner
        /\ open' \subseteq open /\ host' \in {"up", "killed"}
        /\ UNCHANGED <<posix, ignores_sigpipe, spawned, held, proc, readers, beside>>
        BY <1>2 DEF WriteFails
  <2>2. Shrinks BY <2>1 DEF Shrinks, IInv, ProcessTypeOK
  <2>3. OverdueOnlyIfStuck'
    <3>1. owner'["recorder"] = "overdue" => owner["recorder"] = "overdue"
          BY <2>1 DEF IInv, ProcessTypeOK, Owners
    <3> QED BY <2>1, <3>1, OverdueStays DEF IInv
  <2>4. owner'[o] \notin {"waiting", "overdue"} BY <2>1 DEF IInv, ProcessTypeOK
  <2> QED BY <2>1, <2>2, <2>3, <2>4, OwnerMovesStep DEF IInv, ProcessTypeOK
<1>3. CASE WriteBlocks(o)
  <2>1. /\ owner[o] = "feeding" /\ owner' = [owner EXCEPT ![o] = "blocked"]
        /\ UNCHANGED <<posix, ignores_sigpipe, host, spawned, open, held, proc, readers, beside>>
        BY <1>3 DEF WriteBlocks
  <2>2. Shrinks BY <2>1 DEF Shrinks, IInv, ProcessTypeOK
  <2>3. OverdueOnlyIfStuck' BY <2>1, OverdueStays DEF IInv, ProcessTypeOK
  <2>4. owner'[o] = "blocked" BY <2>1 DEF IInv, ProcessTypeOK
  <2> QED BY <2>1, <2>2, <2>3, <2>4, OwnerMovesStep DEF IInv, ProcessTypeOK
<1>4. CASE Terminate(o) \/ (o = "recorder" /\ Save) \/ (o = "pipeline" /\ PipelineNotices)
  <2>1. PICK place \in {"waiting", "killing"} :
          /\ owner[o] = "feeding" /\ owner' = [owner EXCEPT ![o] = place]
          /\ open' = ClosesStdin(Current(o))
          /\ UNCHANGED <<posix, ignores_sigpipe, host, spawned, held, proc, readers, beside>>
        BY <1>4 DEF Terminate, Save, PipelineNotices
  <2>2. open' \subseteq open /\ <<Current(o), "stdin", "w">> \notin open'
        BY <2>1 DEF ClosesStdin
  <2>3. Shrinks BY <2>1, <2>2 DEF Shrinks, IInv, ProcessTypeOK
  <2>4. OverdueOnlyIfStuck' BY <2>1, OverdueStays DEF IInv, ProcessTypeOK
  <2> QED BY <2>1, <2>2, <2>3, <2>4, OwnerMovesStep DEF IInv, ProcessTypeOK
<1> QED BY <1>1, <1>2, <1>3, <1>4, <1>5, <1>6

(* Ten seconds are over: who holds the stdin of the recorder's ffmpeg is no *)
(* longer the library, and not that ffmpeg.                                *)
LEMMA WaitTimesOutStep ==
  ASSUME IInv, WaitTimesOut
  PROVE  IInv'
<1> DEFINE c == Current("recorder")
<1>1. /\ owner["recorder"] = "waiting" /\ owner' = [owner EXCEPT !["recorder"] = "overdue"]
      /\ proc[c] = "hung" \/ (proc[c] = "running" /\ Held(RecStdin))
      /\ UNCHANGED <<posix, ignores_sigpipe, host, spawned, open, held, proc, readers, beside>>
      BY DEF WaitTimesOut, At, Goes, RecStdin
<1>2. RecStdin \notin open BY <1>1 DEF IInv, StdinOK
<1>3. proc[c] = "running" => beside BY <1>1, <1>2 DEF Held, IInv, StdinOK
<1>4. c \in Children BY <1>1, CurrentIsChild DEF IInv, Owners
<1>5. proc[c] = "running" => posix
  <2> SUFFICES ASSUME proc[c] = "running", ~posix PROVE FALSE OBVIOUS
  <2>1. PICK d \in Children : RecStdin \in held[d] BY <1>1, <1>2 DEF Held
  <2>2. RecStdin \in ChildEnds(d) BY <2>1 DEF IInv, HandlesOK
  <2>3. d = c BY <2>2, EndsAre DEF RecStdin
  <2> QED BY <2>1, <2>3, EndsAre DEF IInv, HandlesOK, RecStdin
<1>6. OverdueOnlyIfStuck' BY <1>1, <1>3, <1>5 DEF OverdueOnlyIfStuck, Current
<1>7. Shrinks BY <1>1 DEF Shrinks, IInv, ProcessTypeOK
<1> QED BY <1>1, <1>2, <1>6, <1>7, OwnerMovesStep DEF IInv, ProcessTypeOK, RecStdin, Owners

(* A thread that reads comes to its end. *)
LEMMA ReadStep ==
  ASSUME IInv, NEW o \in Owners, NEW s, ReadEnds(o, s) \/ ReadFails(o, s)
  PROVE  IInv'
<1>1. /\ s \in readers[o] /\ readers' = [readers EXCEPT ![o] = @ \ {s}]
      /\ UNCHANGED <<posix, ignores_sigpipe, host, spawned, owner, open, held, proc, beside>>
      BY DEF ReadEnds, ReadFails
<1>2. ProcessTypeOK' BY <1>1 DEF IInv, ProcessTypeOK, Current
<1>3. ReadersOK' BY <1>1 DEF IInv, ReadersOK, ProcessTypeOK
<1>4. ProcOK' /\ OpenOK' BY <1>1 DEF IInv, ProcOK, OpenOK, Settled
<1>5. HeldOK' /\ HandlesOK' /\ StdinOK' /\ OverdueOnlyIfStuck'
      BY <1>1 DEF IInv, HeldOK, HandlesOK, StdinOK, OverdueOnlyIfStuck, RecStdin, Current
<1> QED BY <1>2, <1>3, <1>4, <1>5 DEF IInv

(* An owner ends its work: nothing of it is left open. *)
LEMMA IdleStep ==
  ASSUME IInv, NEW o \in Owners, SpawnFails(o) \/ Join(o)
  PROVE  IInv'
<1> DEFINE c == Current(o)
<1>1. /\ owner[o] \in {"piping", "piped", "joining"} /\ owner' = [owner EXCEPT ![o] = "idle"]
      /\ open' \subseteq open /\ readers[o] = {}
      /\ UNCHANGED <<posix, ignores_sigpipe, host, spawned, held, proc, readers, beside>>
      BY DEF SpawnFails, Join, At, Goes, IInv, ReadersOK
<1>2. Shrinks BY <1>1 DEF Shrinks, IInv, ProcessTypeOK
<1>3. \A e \in open' : e[1][1] # o
  <2> SUFFICES ASSUME NEW e \in open', e[1][1] = o PROVE FALSE OBVIOUS
  <2>1. e \in open /\ e \in Ends /\ e[1] = c BY <1>1 DEF IInv, ProcessTypeOK
  <2>2. CASE SpawnFails(o) BY <2>1, <2>2, EndsAre DEF SpawnFails
  <2>3. CASE Join(o) BY <2>1, <2>3 DEF Join, At, IInv, OpenOK
  <2> QED BY <2>2, <2>3
<1>4. ProcessTypeOK' BY <1>1, <1>2, ShrinkStep DEF IInv, ProcessTypeOK
<1>5. ProcOK'
  <2>1. c = <<o, spawned[o]>> BY DEF Current
  <2>2. owner[o] \in {"piping", "piped"} => \A n \in 1 .. MaxSpawns[o] : n = spawned[o] => Settled(<<o, n>>)
        BY DEF IInv, ProcOK, Settled
  <2> QED BY <1>1, <2>2 DEF IInv, ProcOK, ProcessTypeOK, Settled
<1>6. OpenOK' BY <1>1, <1>3, EndsBelong DEF IInv, OpenOK, ProcessTypeOK
<1>7. ReadersOK' BY <1>1 DEF IInv, ReadersOK, ProcessTypeOK
<1>8. StdinOK'
  <2>1. owner'["recorder"] \in {"waiting", "overdue"} =>
          owner["recorder"] \in {"waiting", "overdue"}
        BY <1>1 DEF IInv, ProcessTypeOK
  <2> QED BY <1>1, <1>2, <2>1, ShrinkStep DEF IInv, StdinOK
<1>9. OverdueOnlyIfStuck' BY <1>1, OverdueStays DEF IInv, ProcessTypeOK
<1> QED BY <1>2, <1>4, <1>5, <1>6, <1>7, <1>8, <1>9, ShrinkStep DEF IInv

(* An owner has reaped its process and waits for its threads. *)
LEMMA JoiningStep ==
  ASSUME IInv, Shrinks, NEW o \in Owners, owner[o] \in {"waiting", "overdue", "killing"},
         owner' = [owner EXCEPT ![o] = "joining"],
         NEW as, as = "reaped" \/ (~posix /\ as = "zombie"),
         proc' = [proc EXCEPT ![Current(o)] = as], UNCHANGED <<host, readers>>
  PROVE  IInv'
<1> DEFINE c == Current(o)
<1> USE DEF Shrinks
<1>1. c \in Children /\ c = <<o, spawned[o]>> /\ spawned[o] \in 1 .. MaxSpawns[o]
      BY CurrentIsChild DEF IInv
<1>2. ProcessTypeOK' BY ShrinkStep DEF IInv, ProcessTypeOK
<1>3. Settled(c)' BY <1>1 DEF Settled, IInv, ProcessTypeOK, Current
<1>4. ProcOK'
  <2>1. \A q \in Owners : \A n \in 1 .. MaxSpawns[q] :
          <<q, n>> # c => proc'[<<q, n>>] = proc[<<q, n>>]
        BY ChildrenAre DEF IInv, ProcessTypeOK
  <2>2. \A q \in Owners : owner'[q] # "idle" => spawned'[q] # 0
        BY DEF IInv, ProcOK, ProcessTypeOK
  <2>3. ASSUME NEW q \in Owners, NEW n \in 1 .. MaxSpawns[q],
               n # spawned[q] \/ owner'[q] \in {"idle", "joining"}
        PROVE  Settled(<<q, n>>)'
    <3>1. CASE <<q, n>> = c BY <1>1, <1>3, <3>1 DEF Settled, Current
    <3>2. CASE <<q, n>> # c
      <4>1. n # spawned[q] \/ owner[q] \in {"idle", "joining"}
            BY <1>1, <2>3, <3>2 DEF IInv, ProcessTypeOK
      <4> QED BY <2>1, <3>2, <4>1 DEF IInv, ProcOK, Settled
    <3> QED BY <3>1, <3>2
  <2>4. ASSUME NEW q \in Owners, NEW n \in 1 .. MaxSpawns[q],
               n > spawned[q] \/ (n = spawned[q] /\ owner'[q] \in {"piping", "piped"})
        PROVE  proc'[<<q, n>>] = "none"
    <3>1. <<q, n>> # c BY <1>1, <2>4 DEF IInv, ProcessTypeOK
    <3>2. n > spawned[q] \/ (n = spawned[q] /\ owner[q] \in {"piping", "piped"})
          BY <2>4 DEF IInv, ProcessTypeOK
    <3> QED BY <2>1, <3>1, <3>2 DEF IInv, ProcOK
  <2> QED BY <2>2, <2>3, <2>4 DEF ProcOK
<1>5. OpenOK' BY EndsBelong DEF IInv, OpenOK, ProcessTypeOK
<1>6. ReadersOK' BY DEF IInv, ReadersOK, ProcessTypeOK
<1>7. owner'["recorder"] \in {"waiting", "overdue"} =>
        /\ o # "recorder" /\ owner["recorder"] = owner'["recorder"]
      BY DEF IInv, ProcessTypeOK, Owners
<1>8. StdinOK' BY <1>7, ShrinkStep DEF IInv, StdinOK
<1>9. OverdueOnlyIfStuck'
  <2>1. o # "recorder" => Current("recorder") # c /\ Current("recorder")' = Current("recorder")
        BY <1>1 DEF Current
  <2>2. o # "recorder" => proc'[Current("recorder")] = proc[Current("recorder")]
        BY <2>1 DEF IInv, ProcessTypeOK
  <2> QED BY <1>7, <2>1, <2>2 DEF IInv, OverdueOnlyIfStuck
<1> QED BY <1>2, <1>4, <1>5, <1>6, <1>8, <1>9, ShrinkStep DEF IInv

LEMMA ReapStep ==
  ASSUME IInv, WaitSucceeds \/ KillOverdue \/ \E o \in Owners : Kill(o)
  PROVE  IInv'
<1> USE DEF At, Goes
<1>1. CASE WaitSucceeds
  <2>1. Shrinks BY <1>1 DEF WaitSucceeds, Shrinks, IInv, ProcessTypeOK
  <2> QED BY <1>1, <2>1, JoiningStep DEF WaitSucceeds, Owners
<1>2. ASSUME NEW o \in Owners, owner[o] \in {"overdue", "killing"},
             owner' = [owner EXCEPT ![o] = "joining"],
             Ended(Current(o), AfterKill(Current(o))), open' \subseteq open,
             UNCHANGED <<posix, ignores_sigpipe, host, spawned, readers, beside>>
      PROVE  IInv'
  <2>1. Shrinks BY <1>2 DEF Ended, Shrinks, IInv, ProcessTypeOK
  <2>2. AfterKill(Current(o)) = "reaped" \/ (~posix /\ AfterKill(Current(o)) = "zombie")
        BY DEF AfterKill, PosixKilled, WindowsKilled
  <2> QED BY <1>2, <2>1, <2>2, JoiningStep DEF Ended
<1>3. CASE KillOverdue BY <1>2, <1>3 DEF KillOverdue, Owners
<1>4. CASE \E o \in Owners : Kill(o)
  <2>1. PICK o \in Owners : Kill(o) BY <1>4
  <2> QED BY <1>2, <2>1 DEF Kill
<1> QED BY <1>1, <1>3, <1>4

(* ffmpeg ends, dies or hangs. *)
LEMMA ChildStep ==
  ASSUME IInv, NEW c \in Children, ChildFinishes(c) \/ ChildDies(c) \/ ChildHangs(c)
  PROVE  IInv'
<1>1. PICK as \in {"zombie", "hung"} : proc[c] = "running" /\ proc' = [proc EXCEPT ![c] = as]
      BY DEF ChildFinishes, ChildDies, ChildHangs, Ended
<1>2. /\ UNCHANGED <<posix, ignores_sigpipe, host, spawned, owner, open, readers, beside>>
      /\ held' = held \/ held' = [held EXCEPT ![c] = {}]
      BY DEF ChildFinishes, ChildDies, ChildHangs, Ended
<1>3. Shrinks BY <1>2 DEF Shrinks, IInv, ProcessTypeOK
<1>4. ProcessTypeOK' BY <1>1, <1>2, <1>3, ShrinkStep DEF IInv, ProcessTypeOK
<1>5. ASSUME NEW q \in Owners, NEW n \in 1 .. MaxSpawns[q]
      PROVE  /\ Settled(<<q, n>>) => Settled(<<q, n>>)'
             /\ proc[<<q, n>>] = "none" => proc'[<<q, n>>] = "none"
  BY <1>1, <1>2, ChildrenAre DEF Settled, IInv, ProcessTypeOK
<1>6. ProcOK' BY <1>2, <1>5 DEF IInv, ProcOK
<1>7. OpenOK' /\ ReadersOK' BY <1>2 DEF IInv, OpenOK, ReadersOK
<1>8. StdinOK' BY <1>2, <1>3, ShrinkStep DEF IInv, StdinOK
<1>9. OverdueOnlyIfStuck'
  <2> SUFFICES ASSUME owner["recorder"] = "overdue", proc'[Current("recorder")] = "running"
               PROVE  posix /\ beside
      BY <1>2 DEF OverdueOnlyIfStuck, Current
  <2>1. Current("recorder") \in Children BY CurrentIsChild DEF IInv, Owners
  <2>2. proc[Current("recorder")] = "running" BY <1>1, <2>1 DEF IInv, ProcessTypeOK
  <2> QED BY <2>2 DEF IInv, OverdueOnlyIfStuck
<1> QED BY <1>3, <1>4, <1>6, <1>7, <1>8, <1>9, ShrinkStep DEF IInv

LEMMA NextStep == IInv /\ [Next]_vars => IInv'
<1> SUFFICES ASSUME IInv, [Next]_vars PROVE IInv' OBVIOUS
<1>1. CASE \E o \in Owners : OwnerStep(o)
  BY <1>1, SpawnBeginsStep, CreatePipeStep, ForkStep, IdleStep, MovesStep, ReapStep, ReadStep DEF OwnerStep
<1>2. CASE Save \/ PipelineNotices \/ FirstWrite \/ FirstWriteFails
  BY <1>2, MovesStep DEF Owners
<1>3. CASE WaitSucceeds \/ KillOverdue BY <1>3, ReapStep
<1>4. CASE WaitTimesOut BY <1>4, WaitTimesOutStep
<1>5. CASE \E c \in Children : ChildFinishes(c) \/ ChildDies(c) \/ ChildHangs(c)
  BY <1>5, ChildStep
<1>6. CASE UNCHANGED vars
  BY <1>6 DEF vars, IInv, ProcessTypeOK, ProcOK, Settled, OpenOK, ReadersOK, HeldOK,
     HandlesOK, StdinOK, RecStdin, OverdueOnlyIfStuck, Current
<1> QED BY <1>1, <1>2, <1>3, <1>4, <1>5, <1>6 DEF Next

LEMMA Invariant == Spec => []IInv
BY InitIInv, NextStep, PTL DEF Spec

-----------------------------------------------------------------------------
(* The theorems. *)

(* What is open belongs to the current children (the descriptors of         *)
(* platform_process.cpp), for any number of processes.                     *)
THEOREM TypeCorrect == Spec => []ProcessTypeOK
<1>1. IInv => ProcessTypeOK BY DEF IInv
<1> QED BY <1>1, Invariant, PTL

(* However a process ended, its owner leaves no descriptor, no thread and   *)
(* on POSIX no zombie (terminate, wait_for_exit, platform_kill_process).    *)
THEOREM OwnersCleanUp == Spec => []NothingIsLeft
<1>1. IInv => NothingIsLeft
  <2> SUFFICES ASSUME IInv, NEW o \in Owners, owner[o] = "idle"
               PROVE  /\ readers[o] = {} /\ \A end \in open : end[1][1] # o
                      /\ \A c \in Children : c[1] = o => Settled(c)
      BY DEF NothingIsLeft, Settled
  <2>1. readers[o] = {} /\ \A end \in open : end[1][1] # o BY DEF IInv, ReadersOK, OpenOK
  <2>2. \A c \in Children : c[1] = o => Settled(c)
        BY ChildrenAre DEF IInv, ProcOK
  <2> QED BY <2>1, <2>2
<1> QED BY <1>1, Invariant, PTL

(* The recorder kills a working ffmpeg at the end of a save only if another *)
(* one was forked beside it (close_stdin, wait_for_exit).                  *)
THEOREM SavesAreNotCutShort == Spec => []OverdueOnlyIfStuck
<1>1. IInv => OverdueOnlyIfStuck BY DEF IInv
<1> QED BY <1>1, Invariant, PTL
=============================================================================
