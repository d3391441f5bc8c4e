------------------------------ MODULE Forksrv -------------------------------
(***************************************************************************)
(* One executor and its fork servers: Executor::run_inner, check_timeout   *)
(* and rebind_forksrv (fuzzer/src/executor.rs), Forksrv::run and its Drop  *)
(* (fuzzer/src/forksrv.rs), and the loop inside the target that serves     *)
(* them (runtime_fast/src/forkcli.rs).  They talk over a control and a     *)
(* status pipe; all servers of an executor, old and new, and all their     *)
(* children write the same trace in shared memory.                         *)
(*                                                                         *)
(* A server is a generation g; its children hold its ends of the pipes     *)
(* open.  Later processes of the fuzzer inherit the fuzzer's ends (held),  *)
(* because only the ends inside Forksrv::new are protected by forklock.    *)
(* The runs of the executor are numbered; a child is tagged with the run   *)
(* that asked for it, and with 0 if none did.                              *)
(*                                                                         *)
(* Faulty variants of the operations follow the word "Bug"; no behaviour   *)
(* of Spec uses them.                                                      *)
(***************************************************************************)
EXTENDS Integers, Sequences

CONSTANTS
  MaxGen,     \* bound: fork servers the executor starts
  MaxRun,     \* bound: inputs the executor runs
  MaxFaults,  \* bound: deaths of a server, failed forks and failed spawns
  PipeCap,    \* messages a pipe holds before a write blocks
  Inherit     \* whether other threads start processes meanwhile

ASSUME BoundAssumption == MaxGen \in Nat /\ MaxRun \in Nat /\ MaxFaults \in Nat /\ PipeCap \in Nat \ {0, 1}
ASSUME InheritAssumption == Inherit \in BOOLEAN

TMOUT_SKIP == 3
Gens == 1 .. MaxGen
Ends == {"ctl", "st"}

VARIABLES
  exe,        \* the executor: where it is, its server, run, status, tmout_cnt
  srv,        \* each server: where it is in its loop, its child and the child's tag
  ctl, st,    \* the pipes of each generation
  ends,       \* the ends of the pipes that the executor has open
  held,       \* the ends that other processes inherited
  trace,      \* the tags of the children that wrote the trace since it was cleared
  outcome,    \* history: how the child of the current run ended
  started,    \* history: servers started
  faults      \* faults so far

vars == <<exe, srv, ctl, st, ends, held, trace, outcome, started, faults>>

Kids == {"none", "failed", "run", "normal", "crash", "killed"}
NoSrv == [at |-> "none", kid |-> "none", tag |-> 0]

Init ==
  /\ exe = [at |-> "new", then |-> "idle", gen |-> 0, run |-> 0, status |-> "Normal", tmout |-> 0, stale |-> FALSE]
  /\ srv = [g \in Gens |-> NoSrv]
  /\ ctl = [g \in Gens |-> <<>>] /\ st = [g \in Gens |-> <<>>]
  /\ ends = [g \in Gens |-> {}] /\ held = [g \in Gens |-> {}]
  /\ trace = {} /\ outcome = "none" /\ started = 0 /\ faults = 0

-----------------------------------------------------------------------------
(* The far ends of the pipes: the server and its child hold them. *)
KidRuns(g) == srv[g].kid = "run"
FarEnd(g) == srv[g].at \notin {"none", "dead"} \/ KidRuns(g)
NearEnd(g, e) == e \in ends[g] \cup held[g]

Empty(pipe, g) == pipe[g] = <<>>
Send(pipe, g, m) == [pipe EXCEPT ![g] = Append(@, m)]
Take(pipe, g) == [pipe EXCEPT ![g] = Tail(@)]
SrvGoto(f, g, a) == [f EXCEPT ![g].at = a]
SetKid(f, g, k) == [f EXCEPT ![g].kid = k]

Goto(a) == exe' = [exe EXCEPT !.at = a]
Return(s) == exe' = [exe EXCEPT !.at = "judge", !.status = s]

(* Forksrv::new, which run_inner, rebind_forksrv and Executor::new call;   *)
(* if the target cannot be started the executor has no server.             *)
SpawnServer ==
  /\ exe.at = "new" /\ started < MaxGen
  /\ started' = started + 1
  /\ srv' = [srv EXCEPT ![started + 1] = [NoSrv EXCEPT !.at = "read"]]
  /\ ends' = [ends EXCEPT ![started + 1] = Ends]
  /\ exe' = [exe EXCEPT !.at = exe.then, !.gen = started + 1]
  /\ UNCHANGED <<ctl, st, held, trace, outcome, faults>>

SpawnFails ==
  /\ exe.at = "new" /\ faults < MaxFaults
  /\ faults' = faults + 1
  /\ exe' = [exe EXCEPT !.gen = 0, !.status = "Error",
                        !.at = IF exe.then = "write" THEN "judge" ELSE "idle"]
  /\ UNCHANGED <<srv, ctl, st, ends, held, trace, outcome, started>>

(* run_inner: write_test, clear_trace, and a server if there is none. *)
RunInner ==
  /\ exe.at = "idle" /\ exe.run < MaxRun
  /\ exe' = [exe EXCEPT !.run = exe.run + 1, !.then = "write",
                        !.at = IF exe.gen = 0 THEN "new" ELSE "write",
                        !.stale = exe.gen # 0 /\ ~FarEnd(exe.gen)]
  /\ trace' = {} /\ outcome' = "none"
  /\ UNCHANGED <<srv, ctl, st, ends, held, started, faults>>

BugWriteTimeout ==
  /\ exe.at = "write"
  /\ IF FarEnd(exe.gen)
       THEN /\ ctl' = Send(ctl, exe.gen, exe.run)
            /\ Goto("pid")
       ELSE Return("Timeout") /\ UNCHANGED ctl
  /\ UNCHANGED <<srv, st, ends, held, trace, outcome, started, faults>>

(* Forksrv::run: ask for a child; nobody at the far end is an error. *)
WriteCtl ==
  /\ exe.at = "write"
  /\ IF FarEnd(exe.gen)
       THEN /\ ctl' = Send(ctl, exe.gen, exe.run)
            /\ Goto("pid")
       ELSE Return("Error") /\ UNCHANGED ctl
  /\ UNCHANGED <<srv, st, ends, held, trace, outcome, started, faults>>

(* Forksrv::run: the pid of the child; nothing to read and nobody left to  *)
(* write, or a pid that says that fork failed, is an error.                *)
ReadPid ==
  /\ exe.at = "pid"
  /\ IF ~Empty(st, exe.gen)
       THEN /\ st' = Take(st, exe.gen)
            /\ IF Head(st[exe.gen]) = "failed" THEN Return("Error") ELSE Goto("status")
       ELSE ~FarEnd(exe.gen) /\ Return("Error") /\ UNCHANGED st
  /\ UNCHANGED <<srv, ctl, ends, held, trace, outcome, started, faults>>

BugNoSignal ==
  /\ exe.at = "status" /\ ~Empty(st, exe.gen)
  /\ st' = Take(st, exe.gen)
  /\ Return("Normal")
  /\ UNCHANGED <<srv, ctl, ends, held, trace, outcome, started, faults>>

(* read_st_timed: a status in time ... *)
ReadStatus ==
  /\ exe.at = "status" /\ ~Empty(st, exe.gen)
  /\ st' = Take(st, exe.gen)
  /\ Return(IF Head(st[exe.gen]) = "normal" THEN "Normal" ELSE "Crash")
  /\ UNCHANGED <<srv, ctl, ends, held, trace, outcome, started, faults>>

BugNoTimeout ==
  /\ exe.at = "status" /\ Empty(st, exe.gen) /\ ~FarEnd(exe.gen)
  /\ Goto("late")
  /\ UNCHANGED <<srv, ctl, st, ends, held, trace, outcome, started, faults>>

(* ... or the time is up, or there is no writer left: kill the child. *)
KillChild ==
  /\ exe.at = "status"
  /\ Goto("late")
  /\ srv' = IF KidRuns(exe.gen) THEN SetKid(srv, exe.gen, "killed") ELSE srv
  /\ outcome' = IF KidRuns(exe.gen) THEN "killed" ELSE outcome
  /\ UNCHANGED <<ctl, st, ends, held, trace, started, faults>>

(* The status of a killed child, or the end of the pipe; both are Timeout. *)
ReadLateStatus ==
  /\ exe.at = "late"
  /\ IF ~Empty(st, exe.gen) THEN st' = Take(st, exe.gen)
                           ELSE ~FarEnd(exe.gen) /\ UNCHANGED st
  /\ Return("Timeout")
  /\ UNCHANGED <<srv, ctl, ends, held, trace, outcome, started, faults>>

(* check_timeout, after has_new has read the trace: an error replaces the  *)
(* server; the third timeout in a row gives Skip and starts counting anew. *)
NextTmout == IF exe.status \notin {"Timeout", "Error"} \/ exe.tmout + 1 >= TMOUT_SKIP
               THEN 0 ELSE exe.tmout + 1
CheckTimeout ==
  /\ exe.at = "judge"
  /\ exe' = [exe EXCEPT !.tmout = NextTmout, !.then = "idle",
                        !.at = IF exe.status # "Error" THEN "idle"
                               ELSE IF exe.gen = 0 THEN "new" ELSE "fin"]
  /\ UNCHANGED <<srv, ctl, st, ends, held, trace, outcome, started, faults>>

(* The grader ends and its executor is dropped. *)
DropExecutor ==
  /\ exe.at = "idle"
  /\ exe' = [exe EXCEPT !.at = IF exe.gen = 0 THEN "end" ELSE "fin", !.then = "end"]
  /\ UNCHANGED <<srv, ctl, st, ends, held, trace, outcome, started, faults>>

(* Drop of Forksrv: FIN, then the two ends are closed. *)
DropFin ==
  /\ exe.at = "fin"
  /\ ctl' = IF FarEnd(exe.gen) THEN Send(ctl, exe.gen, 0) ELSE ctl
  /\ Goto("close_st")
  /\ UNCHANGED <<srv, st, ends, held, trace, outcome, started, faults>>

BugKeepSt ==
  /\ exe.at = "close_st"
  /\ Goto("close_ctl")
  /\ UNCHANGED <<srv, ctl, st, ends, held, trace, outcome, started, faults>>
DropCloseSt ==
  /\ exe.at = "close_st"
  /\ ends' = [ends EXCEPT ![exe.gen] = @ \ {"st"}]
  /\ Goto("close_ctl")
  /\ UNCHANGED <<srv, ctl, st, held, trace, outcome, started, faults>>

DropCloseCtl ==
  /\ exe.at = "close_ctl"
  /\ ends' = [ends EXCEPT ![exe.gen] = @ \ {"ctl"}]
  /\ exe' = [exe EXCEPT !.gen = 0, !.at = IF exe.then = "end" THEN "end" ELSE "new"]
  /\ UNCHANGED <<srv, ctl, st, held, trace, outcome, started, faults>>

Executor ==
  \/ SpawnServer \/ SpawnFails \/ RunInner \/ WriteCtl \/ ReadPid \/ ReadStatus
  \/ KillChild \/ ReadLateStatus \/ CheckTimeout \/ DropExecutor
  \/ DropFin \/ DropCloseSt \/ DropCloseCtl

-----------------------------------------------------------------------------
(* start_forkcli: any successful read of the control pipe starts a child,  *)
(* be it a request, FIN or the end of the pipe.                            *)
SrvRead(g) ==
  /\ srv[g].at = "read"
  /\ ~Empty(ctl, g) \/ ~NearEnd(g, "ctl")
  /\ ctl' = IF Empty(ctl, g) THEN ctl ELSE Take(ctl, g)
  /\ \E ok \in BOOLEAN :
       /\ srv' = [srv EXCEPT ![g] = [at |-> "forked", kid |-> IF ok THEN "run" ELSE "failed",
                                     tag |-> IF Empty(ctl, g) THEN 0 ELSE Head(ctl[g])]]
       /\ faults' = IF ok THEN faults ELSE faults + 1
       /\ faults' <= MaxFaults
  /\ UNCHANGED <<exe, st, ends, held, trace, outcome, started>>

(* The pid, or -1, goes to the status pipe; without a reader exit. *)
SrvWritePid(g) ==
  /\ srv[g].at = "forked"
  /\ IF NearEnd(g, "st")
       THEN /\ Len(st[g]) < PipeCap
            /\ st' = Send(st, g, IF srv[g].kid = "failed" THEN "failed" ELSE "pid")
            /\ srv' = SrvGoto(srv, g, "wait")
       ELSE srv' = SrvGoto(srv, g, "dead") /\ UNCHANGED st
  /\ UNCHANGED <<exe, ctl, ends, held, trace, outcome, started, faults>>

BugWaitFailed(g) ==
  /\ srv[g].at = "wait" /\ ~KidRuns(g)
  /\ srv' = SrvGoto(srv, g, IF srv[g].kid = "failed" THEN "read" ELSE "status")
  /\ UNCHANGED <<exe, ctl, st, ends, held, trace, outcome, started, faults>>

(* waitpid, which fails at once after a failed fork: exit. *)
SrvWait(g) ==
  /\ srv[g].at = "wait" /\ ~KidRuns(g)
  /\ srv' = SrvGoto(srv, g, IF srv[g].kid = "failed" THEN "dead" ELSE "status")
  /\ UNCHANGED <<exe, ctl, st, ends, held, trace, outcome, started, faults>>

SrvWriteStatus(g) ==
  /\ srv[g].at = "status"
  /\ IF NearEnd(g, "st")
       THEN /\ Len(st[g]) < PipeCap
            /\ st' = Send(st, g, srv[g].kid)
            /\ srv' = [srv EXCEPT ![g] = [NoSrv EXCEPT !.at = "read"]]
       ELSE srv' = SrvGoto(srv, g, "dead") /\ UNCHANGED st
  /\ UNCHANGED <<exe, ctl, ends, held, trace, outcome, started, faults>>

Server(g) == SrvRead(g) \/ SrvWritePid(g) \/ SrvWait(g) \/ SrvWriteStatus(g)

(* The server itself is killed, whatever it is doing. *)
SrvDie(g) ==
  /\ srv[g].at \notin {"none", "dead"} /\ faults < MaxFaults
  /\ faults' = faults + 1
  /\ srv' = SrvGoto(srv, g, "dead")
  /\ UNCHANGED <<exe, ctl, st, ends, held, trace, outcome, started>>

(* A child, which may be an orphan, counts a branch in the shared trace,   *)
(* or ends by itself.                                                      *)
ChildTrace(g) ==
  /\ KidRuns(g)
  /\ trace' = trace \cup {srv[g].tag}
  /\ UNCHANGED <<exe, srv, ctl, st, ends, held, outcome, started, faults>>

ChildEnd(g) ==
  /\ KidRuns(g)
  /\ \E how \in {"normal", "crash"} :
       /\ srv' = SetKid(srv, g, how)
       /\ outcome' = IF srv[g].tag = exe.run THEN how ELSE outcome
  /\ UNCHANGED <<exe, ctl, st, ends, held, trace, started, faults>>

(* A process that another thread starts inherits the executor's ends, and  *)
(* closes them when it exits.                                              *)
InheritEnds(g) ==
  /\ Inherit /\ ends[g] \ held[g] # {}
  /\ held' = [held EXCEPT ![g] = @ \cup ends[g]]
  /\ UNCHANGED <<exe, srv, ctl, st, ends, trace, outcome, started, faults>>

HolderCloses(g) ==
  /\ held[g] # {}
  /\ \E e \in held[g] : held' = [held EXCEPT ![g] = @ \ {e}]
  /\ UNCHANGED <<exe, srv, ctl, st, ends, trace, outcome, started, faults>>

Next ==
  \/ Executor
  \/ \E g \in Gens : \/ Server(g) \/ SrvDie(g) \/ ChildTrace(g) \/ ChildEnd(g)
                     \/ InheritEnds(g) \/ HolderCloses(g)

Spec == Init /\ [][Next]_vars

(* The executor and live servers keep taking steps; select returns.  A     *)
(* child need not end.                                                     *)
FairSpec == Spec /\ WF_vars(Executor) /\ \A g \in Gens : WF_vars(Server(g))

-----------------------------------------------------------------------------
ExeRec == [at : {"new", "idle", "write", "pid", "status", "late", "judge", "fin", "close_st", "close_ctl", "end"},
           then : {"idle", "write", "end"}, gen : 0 .. MaxGen, run : 0 .. MaxRun,
           status : {"Normal", "Crash", "Timeout", "Error"}, tmout : 0 .. TMOUT_SKIP - 1, stale : BOOLEAN]
SrvRec == [at : {"none", "read", "forked", "wait", "status", "dead"}, kid : Kids, tag : 0 .. MaxRun]

(* Type correctness; tmout_cnt stays below TMOUT_SKIP. *)
TypeOK ==
  /\ exe \in ExeRec
  /\ srv \in [Gens -> SrvRec]
  /\ ctl \in [Gens -> Seq(0 .. MaxRun)] /\ st \in [Gens -> Seq(Kids \cup {"pid"})]
  /\ ends \in [Gens -> SUBSET Ends] /\ held \in [Gens -> SUBSET Ends]
  /\ trace \subseteq 0 .. MaxRun /\ outcome \in Kids
  /\ started \in 0 .. MaxGen /\ faults \in 0 .. MaxFaults

(* When has_new reads the trace, only the child of this run has written    *)
(* to it and no child of any server, old or new, is still running: no      *)
(* timeout, failed fork or dead server leaves one behind.                  *)
TraceIsOwn ==
  exe.at = "judge" /\ exe.status # "Error" =>
    /\ trace \subseteq {exe.run}
    /\ \A g \in Gens : ~KidRuns(g)

(* The status that Forksrv::run returns is that of this run's child, never *)
(* a late answer about an earlier one.                                     *)
StatusIsOwn ==
  exe.at = "judge" =>
    /\ exe.status = "Normal" => outcome = "normal"
    /\ exe.status = "Crash" => outcome = "crash"

(* A server that is gone when a run begins is noticed by that run, which   *)
(* is an error and gets a new server.                                      *)
DeadServerNoticed == exe.at = "judge" /\ exe.stale => exe.status = "Error"

(* Forksrv::run returns even if the child hangs, unless the server was     *)
(* killed after it forked and before it reported the pid: then nobody      *)
(* kills the child and the executor reads for ever.                        *)
Orphaned == exe.gen # 0 /\ srv[exe.gen].at = "dead" /\ KidRuns(exe.gen) /\ exe.at = "pid"
RunReturns == exe.at = "write" ~> (exe.at = "judge" \/ Orphaned)

(* A server whose executor is dropped exits in the end.  It is not FIN     *)
(* that ends it, nor the end of the control pipe, but the closed status    *)
(* pipe, which it notices after it has started another child.  This needs   *)
(* children to end, and the processes that inherited the pipe ends.        *)
ServerEnds ==
  (\A g \in Gens : WF_vars(ChildEnd(g)) /\ WF_vars(HolderCloses(g))) =>
    \A g \in Gens : (exe.at = "end" /\ srv[g].at # "none") ~> srv[g].at = "dead"
=============================================================================
