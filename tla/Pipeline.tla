------------------------------ MODULE Pipeline ------------------------------
(***************************************************************************)
(* The threads of the fuzzer and the processes they start (fuzz_main.rs,   *)
(* fuzz_loop.rs, Executor::track and run_track in executor.rs): per job a  *)
(* fuzz_loop that tracks one input after the other, the solver thread that *)
(* reads what the tracked target writes to a pipe, a grader that runs the  *)
(* solutions, and the main thread that imports seeds and joins the others. *)
(*                                                                         *)
(* A pipe is named after the input that is tracked through it.  Its ends   *)
(* are not close-on-exec: every process that is started inherits the ends  *)
(* that the fuzzer has open at that moment.  forklock is what keeps write  *)
(* ends from being inherited, and so what lets the solver see the end of   *)
(* its pipe.  An inherited read end is not followed: it decides only       *)
(* whether a target that was left behind is killed by SIGPIPE or waits in  *)
(* a write, and such a target may do either here.  The fork servers appear *)
(* only as processes that inherit ends and live for ever; Forksrv models   *)
(* their protocol, and Depot the queue of inputs, which is counted here.   *)
(*                                                                         *)
(* Faulty variants of the operations follow the word "Bug"; no behaviour   *)
(* of PipelineSpec uses them.                                              *)
(***************************************************************************)
EXTENDS Integers

CONSTANTS
  Jobs,        \* jobs, each with a fuzz_loop, a grader and a queue
  Seeds,       \* inputs that sync_depot finds at the start
  MaxInputs,   \* bound: inputs in the depot
  MaxQueue,    \* bound: solutions in a queue
  PipeCap      \* messages that a pipe holds before a write blocks

ASSUME BoundAssumption ==
  /\ MaxInputs \in Nat /\ Seeds \in 0 .. MaxInputs
  /\ MaxQueue \in Nat /\ PipeCap \in Nat \ {0}

Ids == 0 .. MaxInputs - 1
R(i) == <<i, "r">>
W(i) == <<i, "w">>
Ends == Ids \X {"r", "w"}
WriteEnds == Ids \X {"w"}

VARIABLES
  running,   \* cleared by SIGINT
  main,      \* the main thread: "sync", or "end" when it has joined the others
  saved,     \* inputs in the depot
  next,      \* the depot's next_id
  loop,      \* each fuzz_loop: where it is and its input
  grader,    \* each grader: where it is
  queue,     \* solutions in each BlockingQueue
  lock,      \* forklock: free, held or poisoned
  fz,        \* the ends that the fuzzer has open
  target,    \* the tracked target of each input: its state and the write ends it holds
  guarded,   \* inputs whose target is under a live `timeout`
  pipe,      \* messages in each pipe
  inherited, \* the write ends that fork servers hold
  done,      \* history: inputs whose tracking is over
  left       \* history: inputs whose solver stopped before the end of the pipe

threadVars == <<running, main, saved, next, grader, queue>>
procVars == <<target, guarded, pipe, inherited>>
pipelineVars == <<threadVars, loop, lock, fz, procVars, done, left>>

NoTarget == [at |-> "none", held |-> {}]

PipelineInit ==
  /\ running = TRUE /\ main = "sync" /\ saved = Seeds /\ next = 0
  /\ loop = [j \in Jobs |-> [at |-> "new", id |-> 0]]
  /\ grader = [j \in Jobs |-> "new"]
  /\ queue = [j \in Jobs |-> 0]
  /\ lock = "free" /\ fz = {}
  /\ target = [i \in Ids |-> NoTarget]
  /\ guarded = {}
  /\ pipe = [i \in Ids |-> 0]
  /\ inherited = {} /\ done = {} /\ left = {}

Alive(i) == target[i].at = "run"
CanWrite(i) ==
  \/ W(i) \in fz \cup inherited
  \/ \E t \in Ids : Alive(t) /\ W(i) \in target[t].held

-----------------------------------------------------------------------------
(* Forksrv::new under forklock: the server inherits every open end.  If it *)
(* cannot be started the executor goes on without one.                     *)
StartServer ==
  /\ lock = "free"
  /\ \/ inherited' = inherited \cup (fz \cap WriteEnds)
     \/ inherited' = inherited
  /\ UNCHANGED lock

(* If pipe() fails, or the target cannot be started, the thread panics     *)
(* with the lock held; the poisoned lock then panics every other thread.   *)
PanicInLock ==
  /\ lock # "held"
  /\ lock' = "poisoned"
  /\ UNCHANGED inherited

-----------------------------------------------------------------------------
(* fuzz_loop: Executor::new starts a fork server, though the loop never    *)
(* uses it.                                                                *)
LoopNew(j) ==
  /\ loop[j].at = "new"
  /\ \/ StartServer /\ loop' = [loop EXCEPT ![j].at = "poll"]
     \/ PanicInLock /\ loop' = [loop EXCEPT ![j].at = "dead"]
  /\ UNCHANGED <<threadVars, fz, target, guarded, pipe, done, left>>

BugPollLast(j) ==
  /\ loop[j].at = "poll" /\ running /\ next + 1 < saved
  /\ next' = next + 1
  /\ loop' = [loop EXCEPT ![j] = [at |-> "track", id |-> next]]
  /\ UNCHANGED <<running, main, saved, grader, queue, lock, fz, procVars, done, left>>

(* while running: get_next_input; None sleeps and polls again. *)
LoopPoll(j) ==
  /\ loop[j].at = "poll" /\ running /\ next < saved
  /\ next' = next + 1
  /\ loop' = [loop EXCEPT ![j] = [at |-> "track", id |-> next]]
  /\ UNCHANGED <<running, main, saved, grader, queue, lock, fz, procVars, done, left>>

BugLoopEndLate(j) ==
  /\ loop[j].at = "poll" /\ ~running /\ next = saved
  /\ loop' = [loop EXCEPT ![j].at = "end"]
  /\ UNCHANGED <<threadVars, lock, fz, procVars, done, left>>

LoopEnd(j) ==
  /\ loop[j].at = "poll" /\ ~running
  /\ loop' = [loop EXCEPT ![j].at = "end"]
  /\ UNCHANGED <<threadVars, lock, fz, procVars, done, left>>

(* run_track: take forklock and create the pipe ... *)
BugPipeUnlocked(j) ==
  /\ loop[j].at = "track" /\ lock # "poisoned"
  /\ fz' = fz \cup {R(loop[j].id), W(loop[j].id)}
  /\ loop' = [loop EXCEPT ![j].at = "spawn"]
  /\ UNCHANGED <<threadVars, lock, procVars, done, left>>

TrackPipe(j) ==
  /\ loop[j].at = "track" /\ lock = "free"
  /\ lock' = "held"
  /\ fz' = fz \cup {R(loop[j].id), W(loop[j].id)}
  /\ loop' = [loop EXCEPT ![j].at = "spawn"]
  /\ UNCHANGED <<threadVars, procVars, done, left>>

TrackPanic(j) ==
  /\ loop[j].at = "track" /\ PanicInLock
  /\ loop' = [loop EXCEPT ![j].at = "dead"]
  /\ UNCHANGED <<threadVars, fz, target, guarded, pipe, done, left>>

(* ... start the target under `timeout`, which inherits the open ends ...  *)
TrackSpawn(j) ==
  /\ loop[j].at = "spawn"
  /\ LET i == loop[j].id
     IN  /\ target' = [target EXCEPT ![i] = [at |-> "run", held |-> fz \cap WriteEnds]]
         /\ guarded' = guarded \cup {i}
  /\ loop' = [loop EXCEPT ![j].at = "close"]
  /\ UNCHANGED <<threadVars, lock, fz, pipe, inherited, done, left>>

TrackSpawnPanic(j) ==
  /\ loop[j].at = "spawn"
  /\ lock' = "poisoned"
  /\ loop' = [loop EXCEPT ![j].at = "dead"]
  /\ UNCHANGED <<threadVars, fz, procVars, done, left>>

(* ... and close the write end; the guard is dropped at the return. *)
TrackClose(j) ==
  /\ loop[j].at = "close"
  /\ fz' = fz \ {W(loop[j].id)}
  /\ lock' = "free"
  /\ loop' = [loop EXCEPT ![j].at = "solve"]
  /\ UNCHANGED <<threadVars, procVars, done, left>>

(* The solver thread: a message gives at most one solution here.  The time *)
(* limit is looked at after a message; a panic ends the thread likewise.   *)
(* Dropping the reader closes the read end, and fuzz_loop's join returns.  *)
Push(j) == \/ queue' = queue
           \/ queue[j] < MaxQueue /\ queue' = [queue EXCEPT ![j] = @ + 1]

ReadMsg(j) ==
  /\ loop[j].at = "solve" /\ pipe[loop[j].id] > 0
  /\ pipe' = [pipe EXCEPT ![loop[j].id] = @ - 1]
  /\ Push(j)
  /\ UNCHANGED <<running, main, saved, next, grader, lock, target, guarded, inherited, done>>

SolverMsg(j) == ReadMsg(j) /\ UNCHANGED <<loop, fz, left>>

BugKeepReadEnd(j) ==
  /\ ReadMsg(j)
  /\ left' = left \cup {loop[j].id}
  /\ loop' = [loop EXCEPT ![j].at = "reap"]
  /\ UNCHANGED fz

SolverBreak(j) ==
  /\ ReadMsg(j)
  /\ fz' = fz \ {R(loop[j].id)}
  /\ left' = left \cup {loop[j].id}
  /\ loop' = [loop EXCEPT ![j].at = "reap"]

BugEmptyIsEof(j) ==
  /\ loop[j].at = "solve" /\ pipe[loop[j].id] = 0
  /\ fz' = fz \ {R(loop[j].id)}
  /\ loop' = [loop EXCEPT ![j].at = "reap"]
  /\ UNCHANGED <<threadVars, lock, procVars, done, left>>

SolverEof(j) ==
  /\ loop[j].at = "solve" /\ pipe[loop[j].id] = 0 /\ ~CanWrite(loop[j].id)
  /\ fz' = fz \ {R(loop[j].id)}
  /\ loop' = [loop EXCEPT ![j].at = "reap"]
  /\ UNCHANGED <<threadVars, lock, procVars, done, left>>

(* try_wait, or kill and wait: `timeout` is gone, its target need not be. *)
LoopReap(j) ==
  /\ loop[j].at = "reap"
  /\ guarded' = guarded \ {loop[j].id}
  /\ done' = done \cup {loop[j].id}
  /\ loop' = [loop EXCEPT ![j].at = "poll"]
  /\ UNCHANGED <<threadVars, lock, fz, target, pipe, inherited, left>>

Loop(j) ==
  \/ LoopNew(j) \/ LoopPoll(j) \/ LoopEnd(j)
  \/ TrackPipe(j) \/ TrackPanic(j) \/ TrackSpawn(j) \/ TrackSpawnPanic(j) \/ TrackClose(j)
  \/ SolverMsg(j) \/ SolverBreak(j) \/ SolverEof(j) \/ LoopReap(j)

-----------------------------------------------------------------------------
(* The grader: Executor::new, then while running pop (which waits for a    *)
(* solution), run it, save it if it is new, and rebind a broken server.    *)
Again == IF running THEN "pop" ELSE "end"

GraderServer(j) ==
  /\ grader[j] \in {"new", "rebind"}
  /\ \/ StartServer /\ grader' = [grader EXCEPT ![j] = Again]
     \/ PanicInLock /\ grader' = [grader EXCEPT ![j] = "dead"]
  /\ UNCHANGED <<running, main, saved, next, queue, loop, fz, target, guarded, pipe, done, left>>

GraderPop(j) ==
  /\ grader[j] = "pop" /\ queue[j] > 0
  /\ queue' = [queue EXCEPT ![j] = @ - 1]
  /\ grader' = [grader EXCEPT ![j] = "grade"]
  /\ UNCHANGED <<running, main, saved, next, loop, lock, fz, procVars, done, left>>

Save == saved' = saved \/ (saved < MaxInputs /\ saved' = saved + 1)

GraderGrade(j) ==
  /\ grader[j] = "grade"
  /\ Save
  /\ \/ grader' = [grader EXCEPT ![j] = Again]
     \/ grader' = [grader EXCEPT ![j] = "rebind"]
  /\ UNCHANGED <<running, main, next, queue, loop, lock, fz, procVars, done, left>>

Grader(j) == GraderServer(j) \/ GraderPop(j) \/ GraderGrade(j)

-----------------------------------------------------------------------------
(* main_thread_sync imports seeds while running, then fuzz_main joins.     *)
MainSync ==
  /\ main = "sync" /\ running
  /\ saved < MaxInputs /\ saved' = saved + 1
  /\ UNCHANGED <<running, main, next, grader, queue, loop, lock, fz, procVars, done, left>>

MainJoin ==
  /\ main = "sync" /\ ~running /\ main' = "end"
  /\ \A j \in Jobs : loop[j].at \in {"end", "dead"} /\ grader[j] \in {"end", "dead"}
  /\ UNCHANGED <<running, saved, next, grader, queue, loop, lock, fz, procVars, done, left>>

Sigint ==
  /\ running /\ running' = FALSE
  /\ UNCHANGED <<main, saved, next, grader, queue, loop, lock, fz, procVars, done, left>>

-----------------------------------------------------------------------------
(* The target writes a message, and waits while the pipe is full. *)
TargetWrite(i) ==
  /\ Alive(i) /\ R(i) \in fz /\ pipe[i] < PipeCap
  /\ pipe' = [pipe EXCEPT ![i] = @ + 1]
  /\ UNCHANGED <<threadVars, loop, lock, fz, target, guarded, inherited, done, left>>

(* It exits, `timeout` ends it, or a write does when nobody reads. *)
TargetEnd(i) ==
  /\ Alive(i)
  /\ target' = [target EXCEPT ![i].at = "gone"]
  /\ UNCHANGED <<threadVars, loop, lock, fz, guarded, pipe, inherited, done, left>>

TimeoutEnds(i) == i \in guarded /\ TargetEnd(i)

PipelineNext ==
  \/ \E j \in Jobs : Loop(j) \/ Grader(j)
  \/ MainSync \/ MainJoin \/ Sigint
  \/ \E i \in Ids : TargetWrite(i) \/ TargetEnd(i)

PipelineSpec == PipelineInit /\ [][PipelineNext]_pipelineVars

(* Threads keep taking steps, and `timeout` ends its target.  A target     *)
(* without `timeout` and a fork server may run for ever.                   *)
PipelineFairSpec ==
  /\ PipelineSpec
  /\ \A j \in Jobs : WF_pipelineVars(Loop(j)) /\ WF_pipelineVars(Grader(j))
  /\ WF_pipelineVars(MainJoin)
  /\ \A i \in Ids : WF_pipelineVars(TimeoutEnds(i))

-----------------------------------------------------------------------------
LoopRec == [at : {"new", "poll", "track", "spawn", "close", "solve", "reap", "end", "dead"}, id : Ids \cup {0}]

(* Type correctness. *)
PipelineTypeOK ==
  /\ running \in BOOLEAN /\ main \in {"sync", "end"}
  /\ saved \in 0 .. MaxInputs /\ next \in 0 .. saved
  /\ loop \in [Jobs -> LoopRec]
  /\ grader \in [Jobs -> {"new", "pop", "grade", "rebind", "end", "dead"}]
  /\ queue \in [Jobs -> 0 .. MaxQueue]
  /\ lock \in {"free", "held", "poisoned"} /\ fz \subseteq Ends
  /\ target \in [Ids -> [at : {"none", "run", "gone"}, held : SUBSET WriteEnds]]
  /\ guarded \subseteq Ids /\ pipe \in [Ids -> 0 .. PipeCap]
  /\ inherited \subseteq WriteEnds /\ done \subseteq Ids /\ left \subseteq Ids

(* While a solver waits for the end of its pipe, its own target is the     *)
(* only process that can write to it: no fork server, no target of another *)
(* job and not the fuzzer itself has inherited or kept the write end.      *)
WriteEndOwn ==
  \A j \in Jobs : loop[j].at = "solve" =>
    LET w == W(loop[j].id)
    IN  /\ w \notin fz \cup inherited
        /\ \A i \in Ids : w \in target[i].held => i = loop[j].id

(* A target that outlives its tracking, and so writes the label table that *)
(* the next target of the job fills, was left behind by a solver that gave *)
(* up; it is never one whose pipe was read to the end.                     *)
StraysWereLeft == \A i \in done : Alive(i) => i \in left

(* No descriptor is kept for an input whose tracking is over. *)
EndsClosed == \A i \in done : fz \cap {R(i), W(i)} = {}

(* Every input that is saved is tracked to the end, whatever targets hang, *)
(* unless the fuzzer is told to stop or forklock is poisoned.              *)
EventuallyTracked ==
  \A i \in Ids : (i < saved) ~> (i \in done \/ ~running \/ lock = "poisoned")

(* SIGINT ends every thread but a grader that waits for a solution, which  *)
(* nobody will push: then fuzz_main's join does not return.                *)
Stopped ==
  \A j \in Jobs :
    /\ loop[j].at \in {"end", "dead"}
    /\ grader[j] \in {"end", "dead"} \/ (grader[j] = "pop" /\ queue[j] = 0)
EventuallyStopped == ~running ~> Stopped
=============================================================================
