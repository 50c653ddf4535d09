---------------------------- MODULE ChildProcess ----------------------------
(***************************************************************************)
(* The ffmpeg processes of the library, src/src/platform/*/platform_       *)
(* process.cpp, and their two owners: the pipeline thread of StreamServer  *)
(* (FfmpegProc, src/src/stream_server.cpp) and the writer thread of        *)
(* VideoRecorder (FfmpegRecProc, src/src/video_recorder.cpp).  The two     *)
(* spawn, feed, stop and reap their processes side by side, and what one   *)
(* process inherits decides whether the end of another one is ever seen:   *)
(* a pipe ends when nobody holds its other end any more.                   *)
(*                                                                         *)
(* A descriptor is an end of a pipe: <<child, stream, side>>.  The library *)
(* runs on POSIX or on Windows, and there the application may ignore       *)
(* SIGPIPE or not.  What is written and read is left out, and so is that a *)
(* descriptor's number may be used again once it is closed.  An ffmpeg     *)
(* that sees the end of its input is assumed to finish within the ten      *)
(* seconds it is given.  An operator may have a faulty twin before it,     *)
(* which only mutations use.                                               *)
(***************************************************************************)
EXTENDS Naturals, Sequences

CONSTANT MaxSpawns  \* bound: processes of each owner

Owners == {"pipeline", "recorder"}

ASSUME SpawnsAssumption == MaxSpawns \in [Owners -> Nat]

Children == UNION {{o} \X (1 .. MaxSpawns[o]) : o \in Owners}
Streams  == {"stdin", "stdout", "stderr"}
Ends     == Children \X Streams \X {"r", "w"}

ChildEnds(c)  == {<<c, "stdin", "r">>, <<c, "stdout", "w">>, <<c, "stderr", "w">>}
ParentEnds(c) == {<<c, "stdin", "w">>, <<c, "stdout", "r">>, <<c, "stderr", "r">>}

VARIABLES
  posix, ignores_sigpipe,  \* where the library runs
  host,                    \* its process: "up" or "killed" by a signal
  spawned,                 \* children each owner has made
  owner,                   \* where each owner's thread is
  open,                    \* ends the library has open
  held,                    \* ends each child has open
  proc,                    \* each child
  readers,                 \* streams of its child that threads of an owner read
  beside                   \* history: see OverdueOnlyIfStuck

platform == <<posix, ignores_sigpipe>>
vars     == <<platform, host, spawned, owner, open, held, proc, readers, beside>>

\* An owner's child, the last that it made.
Current(o) == <<o, spawned[o]>>

\* What is open belongs to the owners' current children.
ProcessTypeOK ==
  /\ {posix, ignores_sigpipe, beside} \subseteq BOOLEAN /\ host \in {"up", "killed"}
  /\ spawned \in [Owners -> Nat] /\ \A o \in Owners : spawned[o] <= MaxSpawns[o]
  /\ owner \in [Owners -> {"idle", "piping", "piped", "forked", "first", "feeding",
                           "blocked", "waiting", "overdue", "killing", "joining"}]
  /\ open \subseteq Ends /\ (\A end \in open : end[1] = Current(end[1][1]))
  /\ held \in [Children -> SUBSET Ends]
  /\ proc \in [Children -> {"none", "running", "hung", "zombie", "reaped"}]
  /\ readers \in [Owners -> SUBSET {"stdout", "stderr"}]

Init ==
  /\ posix \in BOOLEAN /\ ignores_sigpipe \in BOOLEAN /\ (posix \/ ignores_sigpipe)
  /\ host = "up" /\ beside = FALSE
  /\ spawned = [o \in Owners |-> 0] /\ owner = [o \in Owners |-> "idle"]
  /\ open = {} /\ held = [c \in Children |-> {}]
  /\ proc = [c \in Children |-> "none"] /\ readers = [o \in Owners |-> {}]

At(o, place) == host = "up" /\ owner[o] = place
Goes(o, place) == owner' = [owner EXCEPT ![o] = place]

\* Does anybody hold this end?
Held(end) == end \in open \/ \E c \in Children : end \in held[c]

\* A child dies: the system closes what it had open.
Ended(c, as) == /\ proc' = [proc EXCEPT ![c] = as]
                /\ held' = [held EXCEPT ![c] = {}]

-----------------------------------------------------------------------------
(* platform_spawn_process.  Other threads run between its calls, and may   *)
(* spawn.                                                                  *)

SpawnBegins(o) ==
  /\ At(o, "idle") /\ spawned[o] < MaxSpawns[o]
  /\ spawned' = [spawned EXCEPT ![o] = @ + 1]
  /\ beside' = (beside /\ o # "recorder") /\ Goes(o, "piping")
  /\ UNCHANGED <<platform, host, open, held, proc, readers>>

\* The pipes are made one after the other, and no end is marked to be closed when a
\* program is executed.
Made(c) == {s \in Streams : <<c, s, "r">> \in open}

NextPipe(c) ==
  IF "stdin" \notin Made(c) THEN "stdin" ELSE IF "stdout" \notin Made(c) THEN "stdout" ELSE "stderr"

CreatePipe(o) ==
  LET c == Current(o)
      s == NextPipe(c)
  IN /\ At(o, "piping") /\ Goes(o, IF s = "stderr" THEN "piped" ELSE "piping")
     /\ open' = open \union {<<c, s, "r">>, <<c, s, "w">>}
     /\ UNCHANGED <<platform, host, spawned, held, proc, readers, beside>>

\* A fork copies every open descriptor.  The child closes its own pipes but for
\* the ends that have become its stdin, stdout and stderr.
PosixHandles(c) == open \ ParentEnds(c)

\* CreateProcessW with a list of the handles to inherit.
EveryHandle(c)    == open \ ParentEnds(c)
WindowsHandles(c) == ChildEnds(c)

Fork(o) ==
  LET c == Current(o) IN
  /\ At(o, "piped")
  /\ proc' = [proc EXCEPT ![c] = "running"]
  /\ held' = [held EXCEPT ![c] = IF posix THEN PosixHandles(c) ELSE WindowsHandles(c)]
  /\ beside' = (beside \/ (o # "recorder" /\ <<Current("recorder"), "stdin", "w">> \in open))
  /\ Goes(o, "forked")
  /\ UNCHANGED <<platform, host, spawned, open, readers>>

\* A pipe, the list of handles, or fork or CreateProcess fails: what has been made is
\* closed, in one step here, and nothing has been started.
SpawnFails(o) ==
  LET c == Current(o) IN
  /\ At(o, "piping") \/ At(o, "piped")
  /\ Goes(o, "idle") /\ open' = open \ (ChildEnds(c) \union ParentEnds(c))
  /\ UNCHANGED <<platform, host, spawned, held, proc, readers, beside>>

\* The library closes the child's ends one after the other.  The recorder has no use
\* for its ffmpeg's stdout and closes that as well.
Unused(c) ==
  <<<<c, "stdin", "r">>, <<c, "stdout", "w">>, <<c, "stderr", "w">>>> \o
  (IF c[1] = "recorder" THEN <<<<c, "stdout", "r">>>> ELSE <<>>)

ParentCloses(o) ==
  LET ends == Unused(Current(o)) IN
  /\ At(o, "forked")
  /\ \E k \in DOMAIN ends : /\ ends[k] \in open /\ \A j \in 1 .. k - 1 : ends[j] \notin open
                            /\ open' = open \ {ends[k]}
  /\ UNCHANGED <<platform, host, spawned, owner, held, proc, readers, beside>>

HasClosed(o) == LET ends == Unused(Current(o)) IN \A k \in DOMAIN ends : ends[k] \notin open

\* The pipeline writes the first frame before its threads run.  What the write returns
\* is ignored, but it may end the process, or not return.
FirstWrite ==
  /\ At("pipeline", "forked") /\ HasClosed("pipeline") /\ Goes("pipeline", "first")
  /\ UNCHANGED <<platform, host, spawned, open, held, proc, readers, beside>>

FirstWriteFails ==
  /\ At("pipeline", "first") /\ ~Held(<<Current("pipeline"), "stdin", "r">>)
  /\ posix /\ ~ignores_sigpipe /\ host' = "killed"
  /\ UNCHANGED <<platform, spawned, owner, open, held, proc, readers, beside>>

\* The threads that read.
Reads(o) == IF o = "recorder" THEN {"stderr"} ELSE {"stdout", "stderr"}

StartThreads(o) ==
  /\ \/ o = "recorder" /\ At(o, "forked") /\ HasClosed(o)
     \/ o = "pipeline" /\ At(o, "first")
  /\ Goes(o, "feeding") /\ readers' = [readers EXCEPT ![o] = Reads(o)]
  /\ UNCHANGED <<platform, host, spawned, open, held, proc, beside>>

-----------------------------------------------------------------------------
(* platform_write_pipe.  A write that fails ends the process on POSIX,     *)
(* unless the application ignores SIGPIPE.  A write that succeeds changes  *)
(* nothing here.                                                           *)

WriteFails(o) ==
  /\ At(o, "feeding") \/ At(o, "blocked")
  /\ ~Held(<<Current(o), "stdin", "r">>)
  /\ IF posix /\ ~ignores_sigpipe
     THEN host' = "killed" /\ UNCHANGED <<owner, open>>
     ELSE /\ Goes(o, "killing") /\ open' = open \ {<<Current(o), "stdin", "w">>}
          /\ UNCHANGED host
  /\ UNCHANGED <<platform, spawned, held, proc, readers, beside>>

\* The pipe is full, its other end is open, and nobody reads.
WriteBlocks(o) ==
  /\ At(o, "feeding") /\ Goes(o, "blocked")
  /\ Held(<<Current(o), "stdin", "r">>) /\ proc[Current(o)] # "running"
  /\ UNCHANGED <<platform, host, spawned, open, held, proc, readers, beside>>

-----------------------------------------------------------------------------
(* The owners stop their processes.                                        *)

\* close_stdin: a save lets ffmpeg finish its file.
ClosesStdin(c) == open \ {<<c, "stdin", "w">>}

Save ==
  /\ At("recorder", "feeding") /\ Goes("recorder", "waiting")
  /\ open' = ClosesStdin(Current("recorder"))
  /\ UNCHANGED <<platform, host, spawned, held, proc, readers, beside>>

\* terminate, asked for by a discard, by stop, or by an input that has changed.
Terminate(o) ==
  /\ At(o, "feeding") /\ Goes(o, "killing")
  /\ open' = ClosesStdin(Current(o))
  /\ UNCHANGED <<platform, host, spawned, held, proc, readers, beside>>

\* The pipeline's reader has seen the end of stdout and cleared pipe_ok.
PipelineNotices ==
  /\ At("pipeline", "feeding") /\ "stdout" \notin readers["pipeline"]
  /\ Goes("pipeline", "killing") /\ open' = ClosesStdin(Current("pipeline"))
  /\ UNCHANGED <<platform, host, spawned, held, proc, readers, beside>>

\* wait_for_exit: the process has ended and is reaped.
WaitSucceeds ==
  LET c == Current("recorder") IN
  /\ At("recorder", "waiting") /\ proc[c] = "zombie"
  /\ proc' = [proc EXCEPT ![c] = "reaped"] /\ Goes("recorder", "joining")
  /\ UNCHANGED <<platform, host, spawned, open, held, readers, beside>>

WaitsForEver == FALSE /\ UNCHANGED vars

\* Ten seconds are over.  A working ffmpeg that saw its input end has ended by now.
WaitTimesOut ==
  LET c == Current("recorder") IN
  /\ At("recorder", "waiting") /\ Goes("recorder", "overdue")
  /\ \/ proc[c] = "hung"
     \/ proc[c] = "running" /\ Held(<<c, "stdin", "w">>)
  /\ UNCHANGED <<platform, host, spawned, open, held, proc, readers, beside>>

LeavesIt(c) == IF proc[c] = "zombie" THEN "zombie" ELSE "reaped"

\* platform_kill_process: SIGKILL and a wait that reaps the process, dead or not.
PosixKilled(c) == "reaped"

\* TerminateProcess fails when the process has ended, and its handle stays open.
WindowsKilled(c) == IF proc[c] = "zombie" THEN "zombie" ELSE "reaped"

AfterKill(c) == IF posix THEN PosixKilled(c) ELSE WindowsKilled(c)

KillOverdue ==
  LET c == Current("recorder") IN
  /\ At("recorder", "overdue") /\ Goes("recorder", "joining")
  /\ Ended(c, AfterKill(c))
  /\ UNCHANGED <<platform, host, spawned, open, readers, beside>>

\* terminate closes the ends that the threads read before it joins them.
Kill(o) ==
  LET c == Current(o) IN
  /\ At(o, "killing") /\ Goes(o, "joining")
  /\ Ended(c, AfterKill(c)) /\ open' = open \ ParentEnds(c)
  /\ UNCHANGED <<platform, host, spawned, readers, beside>>

Join(o) ==
  /\ At(o, "joining") /\ readers[o] = {} /\ Goes(o, "idle")
  /\ open' = open \ ParentEnds(Current(o))
  /\ UNCHANGED <<platform, host, spawned, held, proc, readers, beside>>

-----------------------------------------------------------------------------
(* The threads that read stdout and stderr: read returns 0 when nobody     *)
(* holds the other end, and fails when its own end has been closed.        *)

ReadEnds(o, s) ==
  /\ host = "up" /\ s \in readers[o] /\ ~Held(<<Current(o), s, "w">>)
  /\ readers' = [readers EXCEPT ![o] = @ \ {s}]
  /\ UNCHANGED <<platform, host, spawned, owner, open, held, proc, beside>>

ReadFails(o, s) ==
  /\ host = "up" /\ s \in readers[o] /\ <<Current(o), s, "r">> \notin open
  /\ readers' = [readers EXCEPT ![o] = @ \ {s}]
  /\ UNCHANGED <<platform, host, spawned, owner, open, held, proc, beside>>

-----------------------------------------------------------------------------
(* ffmpeg: it finishes when its input ends, may die at any time (also      *)
(* because it could not be executed), or may stop doing anything.          *)

ChildFinishes(c) ==
  /\ proc[c] = "running" /\ ~Held(<<c, "stdin", "w">>) /\ Ended(c, "zombie")
  /\ UNCHANGED <<platform, host, spawned, owner, open, readers, beside>>

ChildDies(c) ==
  /\ host = "up" /\ proc[c] = "running" /\ Ended(c, "zombie")
  /\ UNCHANGED <<platform, host, spawned, owner, open, readers, beside>>

ChildHangs(c) ==
  /\ host = "up" /\ proc[c] = "running" /\ proc' = [proc EXCEPT ![c] = "hung"]
  /\ UNCHANGED <<platform, host, spawned, owner, open, held, readers, beside>>

OwnerStep(o) ==
  \/ SpawnBegins(o) \/ CreatePipe(o) \/ Fork(o) \/ SpawnFails(o) \/ ParentCloses(o)
  \/ StartThreads(o)
  \/ WriteFails(o) \/ WriteBlocks(o) \/ Terminate(o) \/ Kill(o) \/ Join(o)
  \/ \E s \in {"stdout", "stderr"} : ReadEnds(o, s) \/ ReadFails(o, s)

Next ==
  \/ \E o \in Owners : OwnerStep(o)
  \/ FirstWrite \/ FirstWriteFails
  \/ Save \/ WaitSucceeds \/ WaitTimesOut \/ KillOverdue \/ PipelineNotices
  \/ \E c \in Children : ChildFinishes(c) \/ ChildDies(c) \/ ChildHangs(c)

Spec == Init /\ [][Next]_vars

\* The threads run, reads return at the end of a pipe, a wait has its timeout, and
\* a working ffmpeg whose input has ended ends.  Nobody has to start or stop, and a
\* first write to an ffmpeg that reads nothing may last for ever.
FairSpec ==
  /\ Spec
  /\ \A o \in Owners : WF_vars(Kill(o) \/ Join(o) \/ ParentCloses(o))
  /\ \A o \in Owners : \A s \in {"stdout", "stderr"} : WF_vars(ReadEnds(o, s))
  /\ WF_vars(WaitSucceeds \/ WaitTimesOut \/ KillOverdue) /\ WF_vars(PipelineNotices)
  /\ \A c \in Children : WF_vars(ChildFinishes(c))

-----------------------------------------------------------------------------
(* Properties.                                                             *)

\* An owner that has nothing running has no descriptor open and no process left to
\* reap, whichever way its last one ended; except that on Windows the handle of a
\* process that died by itself is not closed.  (terminate, wait_for_exit and
\* the failing paths of platform_spawn_process.)
NothingIsLeft ==
  \A o \in Owners : owner[o] = "idle" =>
    /\ readers[o] = {}
    /\ \A end \in open : end[1][1] # o
    /\ \A c \in Children : c[1] = o => \/ proc[c] \in {"none", "reaped"}
                                       \/ ~posix /\ proc[c] = "zombie"

\* A save is about to kill a working ffmpeg only on POSIX, and only if the pipeline
\* has forked one of its own while the stdin of the recorder's was open.
\* (close_stdin, wait_for_exit.)
OverdueOnlyIfStuck ==
  owner["recorder"] = "overdue" /\ proc[Current("recorder")] = "running" => posix /\ beside

\* A stream of the owner's process is held open by another child.
HeldByAnother(o) ==
  \E s \in readers[o] : \E c \in Children \ {Current(o)} : <<Current(o), s, "w">> \in held[c]

\* An owner that stops its process gets there, and the pipeline notices that its
\* ffmpeg has ended though it has nothing to write, unless on POSIX another process
\* holds the pipes: the joins wait for threads that wait for the end of a pipe.
\* (terminate and wait_for_exit, with the joins that follow; the reader thread.)
OwnersGoOn ==
  \A o \in Owners :
    /\ owner[o] \in {"waiting", "overdue", "killing", "joining"} ~>
         owner[o] = "idle" \/ host = "killed" \/ (posix /\ HeldByAnother(o))
    /\ o = "pipeline" /\ owner[o] = "feeding" /\ proc[Current(o)] = "zombie" ~>
         owner[o] # "feeding" \/ host = "killed" \/ (posix /\ HeldByAnother(o))
=============================================================================
