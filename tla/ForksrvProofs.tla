--------------------------- MODULE ForksrvProofs ----------------------------
(***************************************************************************)
(* Proofs about Forksrv for any number of runs, servers and faults.        *)
(***************************************************************************)
EXTENDS Forksrv, TLAPS

(* More time than the provers take by default. *)
USE SMTT(30), ZenonT(30)

Ending == exe.then = "end"
KidEnds == {"normal", "crash", "killed"}

(* A server that will start no child: it is gone, with its child, or about *)
(* to exit because fork failed.                                            *)
Doomed(r) == \/ r.at \in {"none", "dead"} /\ r.kid # "run"
             \/ r.at = "wait" /\ r.kid = "failed"

(* Nothing is under way between the executor and its server. *)
Quiet(r, c, s) ==
  /\ c = <<>> /\ s = <<>>
  /\ r.at \in {"read", "dead"}
  /\ r.kid # "run"

(* A child of run n is under way; o is how it ended. *)
Working(r, n, o) ==
  /\ r.tag = n
  /\ r.kid \in {"run"} \cup KidEnds
  /\ r.kid \in KidEnds => o = r.kid
  /\ r.at = "status" => r.kid # "run"

(* Between the request and the answer with the pid. *)
AwaitPid(r, c, s, n, o) ==
  \/ c = <<n>> /\ s = <<>> /\ r.at \in {"read", "dead"} /\ r.kid # "run"
  \/ c = <<>> /\ s = <<>> /\ r.at \in {"forked", "dead"} /\ Working(r, n, o) /\ r.kid # "killed"
  \/ c = <<>> /\ s = <<>> /\ r.at \in {"forked", "dead"} /\ r.kid = "failed"
  \/ c = <<>> /\ s = <<"failed">> /\ Doomed(r)
  \/ c = <<>> /\ s = <<"pid">> /\ r.at \in {"wait", "status", "dead"} /\ Working(r, n, o) /\ r.kid # "killed"
  \/ c = <<>> /\ s = <<"pid", o>> /\ r.at \in {"read", "dead"} /\ r.kid \notin {"run", "killed"} /\ o \in {"normal", "crash"}

(* Between the pid and the status. *)
AwaitStatus(r, c, s, n, o) ==
  \/ c = <<>> /\ s = <<>> /\ r.at \in {"wait", "status", "dead"} /\ Working(r, n, o)
  \/ c = <<>> /\ s = <<o>> /\ r.at \in {"read", "dead"} /\ r.kid # "run" /\ o \in KidEnds

(* What the executor knows of its server at each of its steps. *)
Phase(e, r, c, s, o) ==
  /\ e.at \in {"idle", "write"} => Quiet(r, c, s)
  /\ e.at = "pid" => AwaitPid(r, c, s, e.run, o)
  /\ e.at = "status" => AwaitStatus(r, c, s, e.run, o) /\ r.kid # "killed" /\ s # <<"killed">>
  /\ e.at = "late" => AwaitStatus(r, c, s, e.run, o) /\ r.kid # "run"
  /\ e.at = "judge" /\ e.status # "Error" => Quiet(r, c, s)
  /\ e.at = "judge" /\ e.status = "Error" => Doomed(r)
  /\ e.at \in {"fin", "close_st", "close_ctl"} => Doomed(r)
  /\ e.at = "write" /\ e.stale => r.at = "dead"

Closing == {"fin", "close_st", "close_ctl"}

ExeInv ==
  /\ exe.at \in {"write", "pid", "status", "late"} \cup Closing => exe.gen # 0
  /\ exe.at = "judge" /\ exe.status # "Error" => exe.gen # 0
  /\ exe.at = "new" => exe.gen = 0 /\ (exe.then = "write" => ~exe.stale)
  /\ exe.at \in {"pid", "status", "late"} => ~exe.stale
  /\ exe.at \in Closing => exe.then # "write"
  /\ exe.gen <= started
  /\ exe.at = "end" => Ending
  /\ Ending => exe.at \in Closing \cup {"end"}

(* Generations that have not been started are blank. *)
Unborn == \A g \in Gens : g > started => srv[g] = NoSrv /\ ctl[g] = <<>> /\ st[g] = <<>>

(* As long as the executor lives, only its own server has a child, and     *)
(* only a child of this run has written the trace.                         *)
Alone == ~Ending => /\ trace \subseteq {exe.run}
                    /\ \A g \in Gens : g # exe.gen => Doomed(srv[g])

Current ==
  ~Ending /\ exe.gen # 0 =>
    /\ Phase(exe, srv[exe.gen], ctl[exe.gen], st[exe.gen], outcome)
    /\ exe.at \notin Closing => "ctl" \in ends[exe.gen]

Rest == ExeInv /\ StatusIsOwn /\ DeadServerNoticed /\ Unborn /\ Alone /\ Current
IInv == TypeOK /\ Rest

-----------------------------------------------------------------------------
ExeAt == {"new", "idle", "write", "pid", "status", "late", "judge", "fin", "close_st", "close_ctl", "end"}
Statuses == {"Normal", "Crash", "Timeout", "Error"}

Thens == {"idle", "write", "end"}

(* Sequences of one length with the same elements are the same. *)
LEMMA SameSeq ==
  ASSUME NEW S, NEW s \in Seq(S), NEW t \in Seq(S),
         Len(s) = Len(t), \A i \in 1 .. Len(s) : s[i] = t[i]
  PROVE  s = t
OBVIOUS

(* The assignments of the executor's steps keep it typed. *)
LEMMA ExeGoto == ASSUME NEW e \in ExeRec, NEW a \in ExeAt
                 PROVE  [e EXCEPT !.at = a] \in ExeRec
BY BoundAssumption DEF ExeRec, ExeAt

LEMMA ExeReturn == ASSUME NEW e \in ExeRec, NEW a \in ExeAt, NEW s \in Statuses
                   PROVE  [e EXCEPT !.at = a, !.status = s] \in ExeRec
BY BoundAssumption, Zenon DEF ExeRec, ExeAt, Statuses

LEMMA ExeGen == ASSUME NEW e \in ExeRec, NEW a \in ExeAt, NEW g \in 0 .. MaxGen
                PROVE  /\ [e EXCEPT !.at = a, !.gen = g] \in ExeRec
                       /\ [e EXCEPT !.gen = g, !.at = a] \in ExeRec
BY BoundAssumption, Zenon DEF ExeRec, ExeAt

LEMMA ExeThen == ASSUME NEW e \in ExeRec, NEW a \in ExeAt, NEW t \in Thens
                 PROVE  [e EXCEPT !.at = a, !.then = t] \in ExeRec
BY BoundAssumption, Zenon DEF ExeRec, ExeAt, Thens

LEMMA ExeFail == ASSUME NEW e \in ExeRec, NEW a \in ExeAt, NEW g \in 0 .. MaxGen, NEW s \in Statuses
                 PROVE  [e EXCEPT !.gen = g, !.status = s, !.at = a] \in ExeRec
BY BoundAssumption, Zenon DEF ExeRec, ExeAt, Statuses

LEMMA ExeTmout == ASSUME NEW e \in ExeRec, NEW a \in ExeAt, NEW t \in Thens, NEW m \in 0 .. TMOUT_SKIP - 1
                  PROVE  [e EXCEPT !.tmout = m, !.then = t, !.at = a] \in ExeRec
BY BoundAssumption, Zenon DEF ExeRec, ExeAt, Thens

LEMMA ExeRun == ASSUME NEW e \in ExeRec, NEW a \in ExeAt, NEW t \in Thens, NEW n \in 0 .. MaxRun, NEW z \in BOOLEAN
                PROVE  [e EXCEPT !.run = n, !.then = t, !.at = a, !.stale = z] \in ExeRec
BY BoundAssumption, Zenon DEF ExeRec, ExeAt, Thens

(* A pipe stays a pipe when a message is sent or taken. *)
LEMMA SendType ==
  ASSUME NEW T, NEW p \in [Gens -> Seq(T)], NEW g, NEW x \in T
  PROVE  Send(p, g, x) \in [Gens -> Seq(T)]
<1>1. g \in Gens => Append(p[g], x) \in Seq(T)
  OBVIOUS
<1> QED
  BY <1>1, Zenon DEF Send

LEMMA TakeType ==
  ASSUME NEW T, NEW p \in [Gens -> Seq(T)], NEW g, ~Empty(p, g)
  PROVE  Take(p, g) \in [Gens -> Seq(T)]
<1>1. g \in Gens => Tail(p[g]) \in Seq(T)
  BY DEF Empty
<1> QED
  BY <1>1, Zenon DEF Take, Empty

(* The steps of a server and its child keep them typed. *)
LEMMA SrvGotoType ==
  ASSUME NEW f \in [Gens -> SrvRec], NEW g,
         NEW a \in {"none", "read", "forked", "wait", "status", "dead"}
  PROVE  SrvGoto(f, g, a) \in [Gens -> SrvRec]
BY Zenon DEF SrvRec, SrvGoto

LEMMA SetKidType ==
  ASSUME NEW f \in [Gens -> SrvRec], NEW g, NEW k \in Kids
  PROVE  SetKid(f, g, k) \in [Gens -> SrvRec]
BY Zenon DEF SrvRec, SetKid

LEMMA TypeInit == Init => TypeOK
<1> SUFFICES ASSUME Init PROVE TypeOK
  OBVIOUS
<1>1. exe \in ExeRec
  BY BoundAssumption DEF Init, ExeRec, TMOUT_SKIP
<1>2. srv \in [Gens -> SrvRec]
  BY BoundAssumption DEF Init, SrvRec, NoSrv, Kids
<1>3. ctl \in [Gens -> Seq(0 .. MaxRun)] /\ st \in [Gens -> Seq(Kids \cup {"pid"})]
  BY DEF Init
<1> QED
  BY <1>1, <1>2, <1>3, BoundAssumption DEF Init, TypeOK, Kids

LEMMA TypeExecutor == TypeOK /\ Executor => TypeOK'
<1> SUFFICES ASSUME TypeOK, Executor PROVE TypeOK'
  OBVIOUS
<1> USE BoundAssumption
<1>t. /\ exe \in ExeRec
      /\ exe.run \in 0 .. MaxRun /\ exe.gen \in 0 .. MaxGen /\ exe.then \in Thens
      /\ ctl \in [Gens -> Seq(0 .. MaxRun)] /\ st \in [Gens -> Seq(Kids \cup {"pid"})]
  BY DEF TypeOK, ExeRec, Thens
<1>0. 0 \in 0 .. MaxRun /\ 0 \in 0 .. MaxGen /\ "pid" \in Kids \cup {"pid"}
  OBVIOUS
<1>1. CASE SpawnServer
  <2>1. started + 1 \in Gens /\ started + 1 \in 0 .. MaxGen
    BY <1>1 DEF SpawnServer, TypeOK, Gens
  <2>2. exe' \in ExeRec
    BY <1>1, <1>t, <2>1, ExeGen, Zenon DEF SpawnServer, ExeAt, Thens
  <2>3. [NoSrv EXCEPT !.at = "read"] \in SrvRec
    BY DEF SrvRec, NoSrv, Kids
  <2>4. srv' \in [Gens -> SrvRec]
    BY <1>1, <2>3, Zenon DEF SpawnServer, TypeOK
  <2> QED
    BY <1>1, <2>1, <2>2, <2>4 DEF SpawnServer, TypeOK, Gens
<1>2. CASE SpawnFails
  <2>1. exe' \in ExeRec
    <3> DEFINE a == IF exe.then = "write" THEN "judge" ELSE "idle"
    <3>1. a \in ExeAt /\ "Error" \in Statuses
      BY DEF ExeAt, Statuses
    <3>2. exe' = [exe EXCEPT !.gen = 0, !.status = "Error", !.at = a]
      BY <1>2 DEF SpawnFails
    <3> HIDE DEF a
    <3> QED
      BY <1>t, <1>0, <3>1, <3>2, ExeFail, Zenon
  <2> QED
    BY <1>2, <2>1 DEF SpawnFails, TypeOK
<1>3. CASE RunInner
  <2>1. exe' \in ExeRec
    <3> DEFINE a == IF exe.gen = 0 THEN "new" ELSE "write"
               z == exe.gen # 0 /\ ~FarEnd(exe.gen)
    <3>1. a \in ExeAt /\ exe.run + 1 \in 0 .. MaxRun /\ z \in BOOLEAN
      BY <1>3, <1>t DEF ExeAt, RunInner
    <3>2. exe' = [exe EXCEPT !.run = exe.run + 1, !.then = "write", !.at = a, !.stale = z]
      BY <1>3 DEF RunInner
    <3> HIDE DEF a, z
    <3> QED
      BY <1>t, <3>1, <3>2, ExeRun, Zenon DEF Thens
  <2> QED
    BY <1>3, <2>1 DEF RunInner, TypeOK, Kids
<1>4. CASE WriteCtl
  <2>1. exe' \in ExeRec
    BY <1>4, <1>t, ExeGoto, ExeReturn, ZenonT(30) DEF WriteCtl, Goto, Return, ExeAt, Statuses
  <2>2. ctl' \in [Gens -> Seq(0 .. MaxRun)]
    <3>1. ctl' = ctl \/ ctl' = Send(ctl, exe.gen, exe.run)
      BY <1>4 DEF WriteCtl, Goto, Return
    <3>2. Send(ctl, exe.gen, exe.run) \in [Gens -> Seq(0 .. MaxRun)]
      BY <1>t, SendType, Zenon
    <3>3. CASE ctl' = ctl
      BY <1>t, <3>3
    <3>4. CASE ctl' = Send(ctl, exe.gen, exe.run)
      BY <3>2, <3>4
    <3> QED
      BY <3>1, <3>3, <3>4
  <2> QED
    BY <1>4, <2>1, <2>2 DEF WriteCtl, TypeOK
<1>5. CASE ReadPid
  <2>1. exe' \in ExeRec
    BY <1>5, <1>t, ExeGoto, ExeReturn, ZenonT(30) DEF ReadPid, Goto, Return, ExeAt, Statuses
  <2>2. st' \in [Gens -> Seq(Kids \cup {"pid"})]
    <3>1. CASE Empty(st, exe.gen)
      BY <1>5, <1>t, <3>1 DEF ReadPid
    <3>2. CASE ~Empty(st, exe.gen)
      <4>1. st' = Take(st, exe.gen)
        BY <1>5, <3>2 DEF ReadPid
      <4> QED
        BY <1>t, <3>2, <4>1, TakeType
    <3> QED
      BY <3>1, <3>2
  <2> QED
    BY <1>5, <2>1, <2>2 DEF ReadPid, TypeOK
<1>6. CASE ReadStatus
  <2>1. exe' \in ExeRec
    BY <1>6, <1>t, ExeGoto, ExeReturn, Zenon DEF ReadStatus, Return, ExeAt, Statuses
  <2>2. st' \in [Gens -> Seq(Kids \cup {"pid"})]
    BY <1>6, <1>t, TakeType, Zenon DEF ReadStatus
  <2> QED
    BY <1>6, <2>1, <2>2 DEF ReadStatus, TypeOK
<1>7. CASE KillChild
  <2>1. exe' \in ExeRec
    BY <1>7, <1>t, ExeGoto, ExeReturn, Zenon DEF KillChild, Goto, ExeAt
  <2>2. srv' \in [Gens -> SrvRec]
    <3>1. srv' = srv \/ srv' = SetKid(srv, exe.gen, "killed")
      BY <1>7 DEF KillChild, TypeOK, SrvRec
    <3> QED
      BY <3>1, SetKidType DEF TypeOK, Kids
  <2> QED
    BY <1>7, <2>1, <2>2 DEF KillChild, TypeOK, Kids
<1>8. CASE ReadLateStatus
  <2>1. exe' \in ExeRec
    BY <1>8, <1>t, ExeGoto, ExeReturn, Zenon DEF ReadLateStatus, Return, ExeAt, Statuses
  <2>2. st' \in [Gens -> Seq(Kids \cup {"pid"})]
    <3>1. CASE Empty(st, exe.gen)
      BY <1>8, <1>t, <3>1 DEF ReadLateStatus
    <3>2. CASE ~Empty(st, exe.gen)
      <4>1. st' = Take(st, exe.gen)
        BY <1>8, <3>2 DEF ReadLateStatus
      <4> QED
        BY <1>t, <3>2, <4>1, TakeType
    <3> QED
      BY <3>1, <3>2
  <2> QED
    BY <1>8, <2>1, <2>2 DEF ReadLateStatus, TypeOK
<1>9. CASE CheckTimeout
  <2>1. NextTmout \in 0 .. TMOUT_SKIP - 1
    BY DEF NextTmout, TypeOK, ExeRec, TMOUT_SKIP
  <2>2. exe' \in ExeRec
    <3> DEFINE a == IF exe.status # "Error" THEN "idle" ELSE IF exe.gen = 0 THEN "new" ELSE "fin"
    <3>1. a \in ExeAt
      BY DEF ExeAt
    <3>2. exe' = [exe EXCEPT !.tmout = NextTmout, !.then = "idle", !.at = a]
      BY <1>9 DEF CheckTimeout
    <3> HIDE DEF a
    <3> QED
      BY <1>t, <2>1, <3>1, <3>2, ExeTmout, Zenon DEF Thens
  <2> QED
    BY <1>9, <2>2 DEF CheckTimeout, TypeOK
<1>10. CASE DropExecutor
  <2>1. exe' \in ExeRec
    <3> DEFINE a == IF exe.gen = 0 THEN "end" ELSE "fin"
    <3>1. a \in ExeAt
      BY DEF ExeAt
    <3>2. exe' = [exe EXCEPT !.at = a, !.then = "end"]
      BY <1>10 DEF DropExecutor
    <3> HIDE DEF a
    <3> QED
      BY <1>t, <3>1, <3>2, ExeThen, Zenon DEF Thens
  <2> QED
    BY <1>10, <2>1 DEF DropExecutor, TypeOK
<1>11. CASE DropFin
  <2>1. exe' \in ExeRec
    BY <1>11, <1>t, ExeGoto, ExeReturn, Zenon DEF DropFin, Goto, ExeAt
  <2>2. ctl' \in [Gens -> Seq(0 .. MaxRun)]
    <3>1. Send(ctl, exe.gen, 0) \in [Gens -> Seq(0 .. MaxRun)]
      BY <1>t, <1>0, SendType, Zenon
    <3> QED
      BY <1>11, <1>t, <3>1 DEF DropFin
  <2> QED
    BY <1>11, <2>1, <2>2 DEF DropFin, TypeOK
<1>12. CASE DropCloseSt
  <2>1. exe' \in ExeRec
    BY <1>12, <1>t, ExeGoto, ExeReturn, Zenon DEF DropCloseSt, Goto, ExeAt
  <2> QED
    BY <1>12, <2>1, Zenon DEF DropCloseSt, TypeOK
<1>13. CASE DropCloseCtl
  <2>1. exe' \in ExeRec
    <3> DEFINE a == IF exe.then = "end" THEN "end" ELSE "new"
    <3>1. a \in ExeAt
      BY DEF ExeAt
    <3>2. exe' = [exe EXCEPT !.gen = 0, !.at = a]
      BY <1>13 DEF DropCloseCtl
    <3> HIDE DEF a
    <3> QED
      BY <1>t, <1>0, <3>1, <3>2, ExeGen, Zenon
  <2> QED
    BY <1>13, <2>1, Zenon DEF DropCloseCtl, TypeOK
<1> QED
  BY <1>1, <1>2, <1>3, <1>4, <1>5, <1>6, <1>7, <1>8, <1>9, <1>10, <1>11, <1>12, <1>13 DEF Executor

LEMMA TypeServer ==
  ASSUME TypeOK, NEW g \in Gens, Server(g) \/ SrvDie(g) \/ ChildTrace(g) \/ ChildEnd(g) \/ InheritEnds(g) \/ HolderCloses(g)
  PROVE  TypeOK'
<1> USE BoundAssumption
<1>1. CASE SrvRead(g)
  <2> DEFINE tag == IF Empty(ctl, g) THEN 0 ELSE Head(ctl[g])
  <2>1. ctl[g] \in Seq(0 .. MaxRun) /\ faults \in Nat
    BY DEF TypeOK
  <2>2. tag \in 0 .. MaxRun
    BY <2>1 DEF Empty
  <2> HIDE DEF tag
  <2>3. PICK ok \in BOOLEAN :
          /\ srv' = [srv EXCEPT ![g] = [at |-> "forked", kid |-> IF ok THEN "run" ELSE "failed", tag |-> tag]]
          /\ faults' = IF ok THEN faults ELSE faults + 1
          /\ faults' <= MaxFaults
    BY <1>1, Zenon DEF SrvRead, tag
  <2>4. [at |-> "forked", kid |-> IF ok THEN "run" ELSE "failed", tag |-> tag] \in SrvRec
    BY <2>2 DEF SrvRec, Kids
  <2>5. srv' \in [Gens -> SrvRec]
    BY <2>3, <2>4 DEF TypeOK
  <2>6. faults' \in 0 .. MaxFaults
    BY <2>1, <2>3, BoundAssumption
  <2>7. ctl' \in [Gens -> Seq(0 .. MaxRun)]
    <3>1. CASE Empty(ctl, g)
      BY <1>1, <3>1 DEF SrvRead, TypeOK
    <3>2. CASE ~Empty(ctl, g)
      <4>1. ctl' = Take(ctl, g)
        BY <1>1, <3>2 DEF SrvRead
      <4>2. ctl \in [Gens -> Seq(0 .. MaxRun)]
        BY DEF TypeOK
      <4> QED
        BY <3>2, <4>1, <4>2, TakeType
    <3> QED
      BY <3>1, <3>2
  <2> QED
    BY <1>1, <2>5, <2>6, <2>7 DEF SrvRead, TypeOK
<1>2. CASE SrvWritePid(g)
  <2>1. srv' \in [Gens -> SrvRec]
    <3>1. srv \in [Gens -> SrvRec]
      BY DEF TypeOK
    <3>2. srv' = SrvGoto(srv, g, "wait") \/ srv' = SrvGoto(srv, g, "dead")
      BY <1>2 DEF SrvWritePid
    <3>3. SrvGoto(srv, g, "wait") \in [Gens -> SrvRec] /\ SrvGoto(srv, g, "dead") \in [Gens -> SrvRec]
      BY <3>1, SrvGotoType
    <3> QED
      BY <3>2, <3>3
  <2>2. st' \in [Gens -> Seq(Kids \cup {"pid"})]
    <3> DEFINE x == IF srv[g].kid = "failed" THEN "failed" ELSE "pid"
    <3>1. st' = st \/ st' = Send(st, g, x)
      BY <1>2 DEF SrvWritePid
    <3>2. x \in Kids \cup {"pid"}
      BY DEF Kids
    <3> HIDE DEF x
    <3>3. st \in [Gens -> Seq(Kids \cup {"pid"})]
      BY DEF TypeOK
    <3>4. Send(st, g, x) \in [Gens -> Seq(Kids \cup {"pid"})]
      BY <3>2, <3>3, SendType
    <3> QED
      BY <3>1, <3>3, <3>4
  <2> QED
    BY <1>2, <2>1, <2>2 DEF SrvWritePid, TypeOK
<1>3. CASE SrvWait(g)
  <2>1. srv' \in [Gens -> SrvRec]
    <3>1. srv' = SrvGoto(srv, g, "dead") \/ srv' = SrvGoto(srv, g, "status")
      BY <1>3 DEF SrvWait
    <3>2. srv \in [Gens -> SrvRec]
      BY DEF TypeOK
    <3>3. SrvGoto(srv, g, "dead") \in [Gens -> SrvRec] /\ SrvGoto(srv, g, "status") \in [Gens -> SrvRec]
      BY <3>2, SrvGotoType
    <3> QED
      BY <3>1, <3>3
  <2> QED
    BY <1>3, <2>1 DEF SrvWait, TypeOK
<1>4. CASE SrvWriteStatus(g)
  <2>1. srv' \in [Gens -> SrvRec]
    <3>1. [NoSrv EXCEPT !.at = "read"] \in SrvRec
      BY BoundAssumption DEF NoSrv, SrvRec, Kids
    <3>2. srv \in [Gens -> SrvRec]
      BY DEF TypeOK
    <3>3. SrvGoto(srv, g, "dead") \in [Gens -> SrvRec]
      BY <3>2, SrvGotoType
    <3>4. srv' = SrvGoto(srv, g, "dead") \/ srv' = [srv EXCEPT ![g] = [NoSrv EXCEPT !.at = "read"]]
      BY <1>4 DEF SrvWriteStatus
    <3> QED
      BY <3>1, <3>2, <3>3, <3>4
  <2>2. srv[g].kid \in Kids
    BY DEF TypeOK, SrvRec
  <2>3. st' \in [Gens -> Seq(Kids \cup {"pid"})]
    <3>1. st' = st \/ st' = Send(st, g, srv[g].kid)
      BY <1>4 DEF SrvWriteStatus
    <3>3. st \in [Gens -> Seq(Kids \cup {"pid"})]
      BY DEF TypeOK
    <3>4. Send(st, g, srv[g].kid) \in [Gens -> Seq(Kids \cup {"pid"})]
      BY <2>2, <3>3, SendType
    <3> QED
      BY <3>1, <3>3, <3>4
  <2> QED
    BY <1>4, <2>1, <2>3 DEF SrvWriteStatus, TypeOK
<1>5. CASE SrvDie(g)
  <2>1. srv' \in [Gens -> SrvRec]
    BY <1>5, SrvGotoType, Zenon DEF SrvDie, TypeOK
  <2> QED
    BY <1>5, <2>1, BoundAssumption DEF SrvDie, TypeOK
<1>6. CASE ChildTrace(g)
  <2>1. srv[g].tag \in 0 .. MaxRun
    BY DEF TypeOK, SrvRec
  <2> QED
    BY <1>6, <2>1, Zenon DEF ChildTrace, TypeOK
<1>7. CASE ChildEnd(g)
  <2>1. PICK how \in {"normal", "crash"} :
          /\ srv' = SetKid(srv, g, how)
          /\ outcome' = IF srv[g].tag = exe.run THEN how ELSE outcome
    BY <1>7 DEF ChildEnd
  <2>2. how \in Kids
    BY DEF Kids
  <2>3. srv' \in [Gens -> SrvRec]
    BY <2>1, <2>2, SetKidType, Zenon DEF TypeOK
  <2> QED
    BY <1>7, <2>1, <2>2, <2>3 DEF ChildEnd, TypeOK
<1>8. CASE InheritEnds(g)
  BY <1>8 DEF InheritEnds, TypeOK
<1>9. CASE HolderCloses(g)
  BY <1>9 DEF HolderCloses, TypeOK
<1> QED
  BY <1>1, <1>2, <1>3, <1>4, <1>5, <1>6, <1>7, <1>8, <1>9 DEF Server

(* Every variable keeps its type. *)
THEOREM TypeCorrect == Spec => []TypeOK
<1>1. TypeOK /\ [Next]_vars => TypeOK'
  <2>1. TypeOK /\ UNCHANGED vars => TypeOK'
    BY DEF TypeOK, vars
  <2> QED
    BY <2>1, TypeExecutor, TypeServer DEF Next
<1> QED
  BY <1>1, TypeInit, PTL DEF Spec

-----------------------------------------------------------------------------
(* What a step of a server or its child does to the server r, its pipes    *)
(* c and s and the outcome o of run n.                                     *)
Same(r, q) == q.at = r.at /\ q.kid = r.kid /\ q.tag = r.tag
ReadStep(r, c, s, o, q, c2, s2, o2) ==
  /\ r.at = "read" /\ c # <<>> /\ c2 = Tail(c) /\ s2 = s /\ o2 = o
  /\ q.at = "forked" /\ q.kid \in {"run", "failed"} /\ q.tag = Head(c)
PidStep(r, c, s, o, q, c2, s2, o2) ==
  /\ r.at = "forked" /\ c2 = c /\ o2 = o
  /\ s2 = Append(s, IF r.kid = "failed" THEN "failed" ELSE "pid")
  /\ q.at = "wait" /\ q.kid = r.kid /\ q.tag = r.tag
WaitStep(r, c, s, o, q, c2, s2, o2) ==
  /\ r.at = "wait" /\ r.kid # "run" /\ c2 = c /\ s2 = s /\ o2 = o
  /\ q.at = (IF r.kid = "failed" THEN "dead" ELSE "status") /\ q.kid = r.kid /\ q.tag = r.tag
StatusStep(r, c, s, o, q, c2, s2, o2) ==
  /\ r.at = "status" /\ c2 = c /\ s2 = Append(s, r.kid) /\ o2 = o
  /\ q.at = "read" /\ q.kid = "none"
DieStep(r, c, s, o, q, c2, s2, o2) ==
  /\ r.at # "none" /\ c2 = c /\ s2 = s /\ o2 = o
  /\ q.at = "dead" /\ q.kid = r.kid /\ q.tag = r.tag
EndStep(r, c, s, n, o, q, c2, s2, o2) ==
  /\ r.kid = "run" /\ c2 = c /\ s2 = s
  /\ q.kid \in {"normal", "crash"} /\ q.at = r.at /\ q.tag = r.tag
  /\ o2 = IF r.tag = n THEN q.kid ELSE o
SameStep(r, c, s, o, q, c2, s2, o2) == Same(r, q) /\ c2 = c /\ s2 = s /\ o2 = o

Step(r, c, s, n, o, q, c2, s2, o2) ==
  \/ ReadStep(r, c, s, o, q, c2, s2, o2)
  \/ PidStep(r, c, s, o, q, c2, s2, o2)
  \/ WaitStep(r, c, s, o, q, c2, s2, o2)
  \/ StatusStep(r, c, s, o, q, c2, s2, o2)
  \/ DieStep(r, c, s, o, q, c2, s2, o2)
  \/ EndStep(r, c, s, n, o, q, c2, s2, o2)
  \/ SameStep(r, c, s, o, q, c2, s2, o2)

(* Short sequences. *)
LEMMA ShortSeq ==
  ASSUME NEW x, NEW y
  PROVE  /\ Append(<<>>, x) = <<x>> /\ Append(<<x>>, y) = <<x, y>>
         /\ Tail(<<x>>) = <<>> /\ Head(<<x>>) = x
         /\ Tail(<<x, y>>) = <<y>> /\ Head(<<x, y>>) = x
         /\ <<x>> # <<>> /\ <<x, y>> # <<>>
<1>1. Append(<<>>, x) = <<x>>
  OBVIOUS
<1>2. Append(<<x>>, y) = <<x, y>>
  <2> DEFINE T == {x, y}
             a == Append(<<x>>, y)
             b == <<x, y>>
  <2>1. <<x>> \in Seq(T) /\ Len(<<x>>) = 1
    OBVIOUS
  <2>2. a \in Seq(T) /\ Len(a) = 2 /\ a[1] = x /\ a[2] = y
    BY <2>1
  <2>3. b \in Seq(T) /\ Len(b) = 2 /\ b[1] = x /\ b[2] = y
    OBVIOUS
  <2> HIDE DEF a, b, T
  <2>4. \A i \in 1 .. 2 : i = 1 \/ i = 2
    OBVIOUS
  <2>5. \A i \in 1 .. 2 : a[i] = b[i]
    BY <2>2, <2>3, <2>4
  <2>6. a = b
    BY <2>2, <2>3, <2>5, SameSeq
  <2> QED
    BY <2>6 DEF a, b
<1>3. Tail(<<x>>) = <<>> /\ Tail(<<x, y>>) = <<y>>
  OBVIOUS
<1>4. Head(<<x>>) = x /\ Head(<<x, y>>) = x
  OBVIOUS
<1>5. <<x>> # <<>> /\ <<x, y>> # <<>>
  OBVIOUS
<1> QED
  BY <1>1, <1>2, <1>3, <1>4, <1>5

(* A doomed server stays doomed. *)
LEMMA DoomedStep ==
  ASSUME NEW r, NEW c, NEW s, NEW n, NEW o, NEW q, NEW c2, NEW s2, NEW o2,
         Doomed(r), Step(r, c, s, n, o, q, c2, s2, o2)
  PROVE  Doomed(q) /\ r.kid # "run" /\ o2 = o
BY DEF Doomed, Step, ReadStep, PidStep, WaitStep, StatusStep, DieStep, EndStep, SameStep, Same

(* An idle server can only die. *)
LEMMA QuietStep ==
  ASSUME NEW r, NEW c, NEW s, NEW n, NEW o, NEW q, NEW c2, NEW s2, NEW o2,
         Quiet(r, c, s), Step(r, c, s, n, o, q, c2, s2, o2)
  PROVE  Quiet(q, c2, s2) /\ r.kid # "run" /\ o2 = o /\ (r.at = "dead" => q.at = "dead")
BY DEF Quiet, Step, ReadStep, PidStep, WaitStep, StatusStep, DieStep, EndStep, SameStep, Same

LEMMA WorkingStep ==
  ASSUME NEW r, NEW n, NEW o, NEW q, NEW o2, Working(r, n, o), q.tag = r.tag,
         \/ q.kid = r.kid /\ o2 = o /\ (q.at = "status" => r.kid # "run")
         \/ r.kid = "run" /\ q.kid \in {"normal", "crash"} /\ o2 = q.kid
  PROVE  Working(q, n, o2)
BY DEF Working, KidEnds

LEMMA AwaitPidStep ==
  ASSUME NEW r, NEW c, NEW s, NEW n, NEW o, NEW q, NEW c2, NEW s2, NEW o2,
         AwaitPid(r, c, s, n, o), Step(r, c, s, n, o, q, c2, s2, o2)
  PROVE  AwaitPid(q, c2, s2, n, o2)
<1>0. Doomed(r) => Doomed(q)
  BY DoomedStep
<1> USE DEF Step, ReadStep, PidStep, WaitStep, StatusStep, DieStep, EndStep, SameStep, Same
<1>1. CASE c = <<n>> /\ s = <<>> /\ r.at \in {"read", "dead"} /\ r.kid # "run"
  <2>1. CASE ReadStep(r, c, s, o, q, c2, s2, o2)
    <3>1. c2 = <<>> /\ q.tag = n
      BY <1>1, <2>1, ShortSeq
    <3> QED
      BY <1>1, <2>1, <3>1 DEF AwaitPid, Working, KidEnds
  <2>2. CASE ~ReadStep(r, c, s, o, q, c2, s2, o2)
    <3>1. c2 = c /\ s2 = s /\ q.at \in {"read", "dead"} /\ q.kid # "run"
      BY <1>1, <2>2
    <3> QED
      BY <1>1, <3>1 DEF AwaitPid
  <2> QED
    BY <2>1, <2>2
<1>2. CASE c = <<>> /\ s = <<>> /\ r.at \in {"forked", "dead"} /\ Working(r, n, o) /\ r.kid # "killed"
  <2>1. CASE PidStep(r, c, s, o, q, c2, s2, o2)
    <3>1. r.kid # "failed"
      BY <1>2 DEF Working, KidEnds
    <3>2. s2 = <<"pid">>
      BY <1>2, <2>1, <3>1, ShortSeq
    <3>3. Working(q, n, o2)
      BY <1>2, <2>1, WorkingStep
    <3> QED
      BY <1>2, <2>1, <3>2, <3>3 DEF AwaitPid
  <2>2. CASE ~PidStep(r, c, s, o, q, c2, s2, o2)
    <3>1. c2 = c /\ s2 = s /\ q.at \in {"forked", "dead"} /\ q.kid # "killed"
      BY <1>2, <2>2
    <3>2. Working(q, n, o2)
      BY <1>2, <2>2 DEF Working, KidEnds
    <3> QED
      BY <1>2, <3>1, <3>2 DEF AwaitPid
  <2> QED
    BY <2>1, <2>2
<1>3. CASE c = <<>> /\ s = <<>> /\ r.at \in {"forked", "dead"} /\ r.kid = "failed"
  <2>1. CASE PidStep(r, c, s, o, q, c2, s2, o2)
    <3>1. s2 = <<"failed">>
      BY <1>3, <2>1, ShortSeq
    <3> QED
      BY <1>3, <2>1, <3>1 DEF AwaitPid, Doomed
  <2>2. CASE ~PidStep(r, c, s, o, q, c2, s2, o2)
    <3>1. c2 = c /\ s2 = s /\ q.at \in {"forked", "dead"} /\ q.kid = "failed"
      BY <1>3, <2>2
    <3> QED
      BY <1>3, <3>1 DEF AwaitPid
  <2> QED
    BY <2>1, <2>2
<1>4. CASE c = <<>> /\ s = <<"failed">> /\ Doomed(r)
  <2>1. Doomed(q)
    BY <1>0, <1>4
  <2>2. c2 = c /\ s2 = s
    BY <1>4 DEF Doomed
  <2> QED
    BY <1>4, <2>1, <2>2 DEF AwaitPid
<1>5. CASE c = <<>> /\ s = <<"pid">> /\ r.at \in {"wait", "status", "dead"} /\ Working(r, n, o) /\ r.kid # "killed"
  <2>0. r.kid # "failed"
    BY <1>5 DEF Working, KidEnds
  <2>1. CASE StatusStep(r, c, s, o, q, c2, s2, o2)
    <3>1. r.kid = o /\ o2 = o /\ o \in {"normal", "crash"}
      BY <1>5, <2>1 DEF Working, KidEnds
    <3>2. s2 = <<"pid", o>>
      BY <1>5, <2>1, <3>1, ShortSeq, Zenon
    <3> QED
      BY <1>5, <2>1, <3>1, <3>2, Zenon DEF AwaitPid
  <2>2. CASE ~StatusStep(r, c, s, o, q, c2, s2, o2)
    <3>1. c2 = c /\ s2 = s /\ q.at \in {"wait", "status", "dead"} /\ q.kid # "killed"
      BY <1>5, <2>0, <2>2
    <3>2. Working(q, n, o2)
      BY <1>5, <2>2 DEF Working, KidEnds
    <3> QED
      BY <1>5, <3>1, <3>2 DEF AwaitPid
  <2> QED
    BY <2>1, <2>2
<1>6. CASE c = <<>> /\ s = <<"pid", o>> /\ r.at \in {"read", "dead"} /\ r.kid \notin {"run", "killed"} /\ o \in {"normal", "crash"}
  <2>1. c2 = c /\ s2 = s /\ o2 = o /\ q.at \in {"read", "dead"} /\ q.kid \notin {"run", "killed"}
    BY <1>6
  <2> QED
    BY <1>6, <2>1 DEF AwaitPid
<1> QED
  BY <1>1, <1>2, <1>3, <1>4, <1>5, <1>6 DEF AwaitPid

LEMMA AwaitStatusStep ==
  ASSUME NEW r, NEW c, NEW s, NEW n, NEW o, NEW q, NEW c2, NEW s2, NEW o2,
         AwaitStatus(r, c, s, n, o), Step(r, c, s, n, o, q, c2, s2, o2)
  PROVE  /\ AwaitStatus(q, c2, s2, n, o2)
         /\ r.kid # "killed" /\ s # <<"killed">> => q.kid # "killed" /\ s2 # <<"killed">>
         /\ r.kid # "run" => q.kid # "run"
<1> USE DEF Step, ReadStep, PidStep, WaitStep, StatusStep, DieStep, EndStep, SameStep, Same
<1>1. CASE c = <<>> /\ s = <<>> /\ r.at \in {"wait", "status", "dead"} /\ Working(r, n, o)
  <2>0. r.kid # "failed"
    BY <1>1 DEF Working, KidEnds
  <2>1. CASE StatusStep(r, c, s, o, q, c2, s2, o2)
    <3>1. r.kid = o /\ o2 = o /\ o \in KidEnds
      BY <1>1, <2>1 DEF Working
    <3>2. s2 = <<o>> /\ (s2 = <<"killed">> => o = "killed")
      BY <1>1, <2>1, <3>1, ShortSeq
    <3> QED
      BY <1>1, <2>1, <3>1, <3>2 DEF AwaitStatus
  <2>2. CASE ~StatusStep(r, c, s, o, q, c2, s2, o2)
    <3>1. c2 = c /\ s2 = s /\ q.at \in {"wait", "status", "dead"}
      BY <1>1, <2>0, <2>2
    <3>2. (q.kid = r.kid \/ r.kid = "run") /\ q.kid \in {r.kid, "normal", "crash"}
      BY <1>1, <2>2
    <3>3. Working(q, n, o2)
      BY <1>1, <2>2 DEF Working, KidEnds
    <3>4. s2 # <<"killed">>
      BY <1>1, <3>1, ShortSeq
    <3> QED
      BY <1>1, <3>1, <3>2, <3>3, <3>4 DEF AwaitStatus
  <2> QED
    BY <2>1, <2>2
<1>2. CASE c = <<>> /\ s = <<o>> /\ r.at \in {"read", "dead"} /\ r.kid # "run" /\ o \in KidEnds
  <2>1. c2 = c /\ s2 = s /\ o2 = o /\ q.at \in {"read", "dead"} /\ q.kid # "run" /\ q.kid = r.kid
    BY <1>2
  <2> QED
    BY <1>2, <2>1 DEF AwaitStatus
<1> QED
  BY <1>1, <1>2 DEF AwaitStatus

(* What the executor knows of its server stays true when the server steps. *)
LEMMA PhaseStep ==
  ASSUME NEW e, NEW r, NEW c, NEW s, NEW o, NEW q, NEW c2, NEW s2, NEW o2,
         Phase(e, r, c, s, o), Step(r, c, s, e.run, o, q, c2, s2, o2)
  PROVE  Phase(e, q, c2, s2, o2)
<1>1. Quiet(r, c, s) => Quiet(q, c2, s2) /\ (r.at = "dead" => q.at = "dead")
  BY QuietStep
<1>2. Doomed(r) => Doomed(q)
  BY DoomedStep
<1>3. AwaitPid(r, c, s, e.run, o) => AwaitPid(q, c2, s2, e.run, o2)
  BY AwaitPidStep
<1>4. AwaitStatus(r, c, s, e.run, o) =>
        /\ AwaitStatus(q, c2, s2, e.run, o2)
        /\ r.kid # "killed" /\ s # <<"killed">> => q.kid # "killed" /\ s2 # <<"killed">>
        /\ r.kid # "run" => q.kid # "run"
  BY AwaitStatusStep
<1> QED
  BY <1>1, <1>2, <1>3, <1>4 DEF Phase

(* Where Send, Take, SrvGoto and SetKid change their argument. *)
LEMMA SendAt ==
  ASSUME NEW p, DOMAIN p = Gens, NEW g \in Gens, NEW x
  PROVE  /\ Send(p, g, x)[g] = Append(p[g], x)
         /\ \A h \in Gens : h # g => Send(p, g, x)[h] = p[h]
BY DEF Send

LEMMA TakeAt ==
  ASSUME NEW p, DOMAIN p = Gens, NEW g \in Gens
  PROVE  /\ Take(p, g)[g] = Tail(p[g])
         /\ \A h \in Gens : h # g => Take(p, g)[h] = p[h]
BY DEF Take

LEMMA SrvGotoAt ==
  ASSUME NEW f \in [Gens -> SrvRec], NEW g \in Gens, NEW a
  PROVE  /\ SrvGoto(f, g, a)[g].at = a
         /\ SrvGoto(f, g, a)[g].kid = f[g].kid /\ SrvGoto(f, g, a)[g].tag = f[g].tag
         /\ \A h \in Gens : h # g => SrvGoto(f, g, a)[h] = f[h]
BY DEF SrvGoto, SrvRec

LEMMA SetKidAt ==
  ASSUME NEW f \in [Gens -> SrvRec], NEW g \in Gens, NEW k
  PROVE  /\ SetKid(f, g, k)[g].kid = k
         /\ SetKid(f, g, k)[g].at = f[g].at /\ SetKid(f, g, k)[g].tag = f[g].tag
         /\ \A h \in Gens : h # g => SetKid(f, g, k)[h] = f[h]
BY DEF SetKid, SrvRec

ServerSide(g) ==
  Server(g) \/ SrvDie(g) \/ ChildTrace(g) \/ ChildEnd(g) \/ InheritEnds(g) \/ HolderCloses(g)

(* Other servers are not touched. *)
Others(g) == \A h \in Gens : h # g => srv'[h] = srv[h] /\ ctl'[h] = ctl[h] /\ st'[h] = st[h]

StepOf(g) == Step(srv[g], ctl[g], st[g], exe.run, outcome, srv'[g], ctl'[g], st'[g], outcome')

(* Every step of the server's side is such a step, if the server does not  *)
(* see the end of the control pipe.                                        *)
LEMMA ServerSideStep ==
  ASSUME TypeOK, NEW g \in Gens, ServerSide(g)
  PROVE  /\ Others(g)
         /\ UNCHANGED <<exe, ends, started>>
         /\ SrvRead(g) \/ StepOf(g)
         /\ NearEnd(g, "ctl") => StepOf(g)
         /\ trace' = trace \/ (srv[g].kid = "run" /\ trace' = trace \cup {srv[g].tag})
         /\ outcome' = outcome \/ srv[g].kid = "run"
         /\ srv[g].at = "none" /\ srv[g].kid # "run" => srv' = srv /\ ctl' = ctl /\ st' = st
<1> USE DEF StepOf, Step
<1>t. srv \in [Gens -> SrvRec] /\ DOMAIN srv = Gens /\ DOMAIN ctl = Gens /\ DOMAIN st = Gens
  BY DEF TypeOK
<1>1. CASE SrvRead(g)
  <2>1. Others(g)
    <3>1. \A h \in Gens : h # g => srv'[h] = srv[h]
      BY <1>1, <1>t DEF SrvRead
    <3>2. \A h \in Gens : h # g => Take(ctl, g)[h] = ctl[h]
      BY <1>t, TakeAt
    <3>3. \A h \in Gens : h # g => ctl'[h] = ctl[h]
      BY <1>1, <3>2 DEF SrvRead
    <3> QED
      BY <1>1, <3>1, <3>3 DEF SrvRead, Others
  <2>2. ASSUME NearEnd(g, "ctl") PROVE ReadStep(srv[g], ctl[g], st[g], outcome, srv'[g], ctl'[g], st'[g], outcome')
    <3>1. ~Empty(ctl, g)
      BY <1>1, <2>2 DEF SrvRead
    <3>2. ctl'[g] = Tail(ctl[g])
      BY <1>1, <1>t, <3>1, TakeAt, Zenon DEF SrvRead
    <3>3. srv'[g].at = "forked" /\ srv'[g].kid \in {"run", "failed"} /\ srv'[g].tag = Head(ctl[g])
      BY <1>1, <1>t, <3>1 DEF SrvRead
    <3> QED
      BY <1>1, <3>1, <3>2, <3>3 DEF SrvRead, ReadStep, Empty
  <2> QED
    BY <1>1, <2>1, <2>2, Zenon DEF SrvRead
<1>2. CASE SrvWritePid(g)
  <2> DEFINE x == IF srv[g].kid = "failed" THEN "failed" ELSE "pid"
  <2>1. CASE NearEnd(g, "st")
    <3>1. st' = Send(st, g, x) /\ srv' = SrvGoto(srv, g, "wait") /\ srv[g].at = "forked"
          /\ UNCHANGED <<exe, ctl, ends, held, trace, outcome, started, faults>>
      BY <1>2, <2>1 DEF SrvWritePid
    <3> HIDE DEF x
    <3>2. st'[g] = Append(st[g], x) /\ \A h \in Gens : h # g => st'[h] = st[h]
      BY <1>t, <3>1, SendAt
    <3>3. /\ srv'[g].at = "wait" /\ srv'[g].kid = srv[g].kid /\ srv'[g].tag = srv[g].tag
          /\ \A h \in Gens : h # g => srv'[h] = srv[h]
      BY <1>t, <3>1, SrvGotoAt
    <3>4. PidStep(srv[g], ctl[g], st[g], outcome, srv'[g], ctl'[g], st'[g], outcome')
      BY <3>1, <3>2, <3>3 DEF PidStep, x
    <3> QED
      BY <3>1, <3>2, <3>3, <3>4 DEF Others
  <2>2. CASE ~NearEnd(g, "st")
    <3>1. st' = st /\ srv' = SrvGoto(srv, g, "dead") /\ srv[g].at = "forked"
          /\ UNCHANGED <<exe, ctl, ends, held, trace, outcome, started, faults>>
      BY <1>2, <2>2 DEF SrvWritePid
    <3>2. /\ srv'[g].at = "dead" /\ srv'[g].kid = srv[g].kid /\ srv'[g].tag = srv[g].tag
          /\ \A h \in Gens : h # g => srv'[h] = srv[h]
      BY <1>t, <3>1, SrvGotoAt
    <3>3. DieStep(srv[g], ctl[g], st[g], outcome, srv'[g], ctl'[g], st'[g], outcome')
      BY <3>1, <3>2 DEF DieStep
    <3> QED
      BY <3>1, <3>2, <3>3 DEF Others
  <2> QED
    BY <2>1, <2>2, Zenon
<1>3. CASE SrvWait(g)
  <2> DEFINE a == IF srv[g].kid = "failed" THEN "dead" ELSE "status"
  <2>1. srv' = SrvGoto(srv, g, a) /\ srv[g].at = "wait" /\ srv[g].kid # "run"
        /\ UNCHANGED <<exe, ctl, st, ends, held, trace, outcome, started, faults>>
    BY <1>3 DEF SrvWait, KidRuns
  <2> HIDE DEF a
  <2>2. /\ srv'[g].at = a /\ srv'[g].kid = srv[g].kid /\ srv'[g].tag = srv[g].tag
        /\ \A h \in Gens : h # g => srv'[h] = srv[h]
    BY <1>t, <2>1, SrvGotoAt
  <2>3. WaitStep(srv[g], ctl[g], st[g], outcome, srv'[g], ctl'[g], st'[g], outcome')
    BY <2>1, <2>2 DEF WaitStep, a
  <2> QED
    BY <2>1, <2>2, <2>3 DEF Others
<1>4. CASE SrvWriteStatus(g)
  <2>1. CASE NearEnd(g, "st")
    <3>1. st' = Send(st, g, srv[g].kid) /\ srv' = [srv EXCEPT ![g] = [NoSrv EXCEPT !.at = "read"]]
          /\ srv[g].at = "status" /\ UNCHANGED <<exe, ctl, ends, held, trace, outcome, started, faults>>
      BY <1>4, <2>1 DEF SrvWriteStatus
    <3>2. st'[g] = Append(st[g], srv[g].kid) /\ \A h \in Gens : h # g => st'[h] = st[h]
      BY <1>t, <3>1, SendAt
    <3>3. /\ srv'[g].at = "read" /\ srv'[g].kid = "none"
          /\ \A h \in Gens : h # g => srv'[h] = srv[h]
      BY <1>t, <3>1 DEF NoSrv
    <3>4. StatusStep(srv[g], ctl[g], st[g], outcome, srv'[g], ctl'[g], st'[g], outcome')
      BY <3>1, <3>2, <3>3 DEF StatusStep
    <3> QED
      BY <3>1, <3>2, <3>3, <3>4 DEF Others
  <2>2. CASE ~NearEnd(g, "st")
    <3>1. st' = st /\ srv' = SrvGoto(srv, g, "dead") /\ srv[g].at = "status"
          /\ UNCHANGED <<exe, ctl, ends, held, trace, outcome, started, faults>>
      BY <1>4, <2>2 DEF SrvWriteStatus
    <3>2. /\ srv'[g].at = "dead" /\ srv'[g].kid = srv[g].kid /\ srv'[g].tag = srv[g].tag
          /\ \A h \in Gens : h # g => srv'[h] = srv[h]
      <4>1. /\ SrvGoto(srv, g, "dead")[g].at = "dead"
            /\ SrvGoto(srv, g, "dead")[g].kid = srv[g].kid /\ SrvGoto(srv, g, "dead")[g].tag = srv[g].tag
            /\ \A h \in Gens : h # g => SrvGoto(srv, g, "dead")[h] = srv[h]
        BY <1>t, SrvGotoAt
      <4> QED
        BY <3>1, <4>1
    <3>3. DieStep(srv[g], ctl[g], st[g], outcome, srv'[g], ctl'[g], st'[g], outcome')
      BY <3>1, <3>2 DEF DieStep
    <3> QED
      BY <3>1, <3>2, <3>3 DEF Others
  <2> QED
    BY <2>1, <2>2, Zenon
<1>5. CASE SrvDie(g)
  <2>1. srv' = SrvGoto(srv, g, "dead") /\ srv[g].at # "none"
        /\ UNCHANGED <<exe, ctl, st, ends, held, trace, outcome, started>>
    BY <1>5 DEF SrvDie
  <2>2. /\ srv'[g].at = "dead" /\ srv'[g].kid = srv[g].kid /\ srv'[g].tag = srv[g].tag
        /\ \A h \in Gens : h # g => srv'[h] = srv[h]
    <3>1. /\ SrvGoto(srv, g, "dead")[g].at = "dead"
          /\ SrvGoto(srv, g, "dead")[g].kid = srv[g].kid /\ SrvGoto(srv, g, "dead")[g].tag = srv[g].tag
          /\ \A h \in Gens : h # g => SrvGoto(srv, g, "dead")[h] = srv[h]
      BY <1>t, SrvGotoAt
    <3> QED
      BY <2>1, <3>1
  <2>3. DieStep(srv[g], ctl[g], st[g], outcome, srv'[g], ctl'[g], st'[g], outcome')
    BY <2>1, <2>2 DEF DieStep
  <2> QED
    BY <2>1, <2>2, <2>3 DEF Others
<1>6. CASE ChildTrace(g)
  BY <1>6 DEF ChildTrace, Others, SameStep, Same, KidRuns
<1>7. CASE ChildEnd(g)
  <2>1. PICK how \in {"normal", "crash"} :
          /\ srv' = SetKid(srv, g, how)
          /\ outcome' = IF srv[g].tag = exe.run THEN how ELSE outcome
    BY <1>7 DEF ChildEnd
  <2>2. srv[g].kid = "run" /\ UNCHANGED <<exe, ctl, st, ends, held, trace, started, faults>>
    BY <1>7 DEF ChildEnd, KidRuns
  <2>3. /\ srv'[g].kid = how /\ srv'[g].at = srv[g].at /\ srv'[g].tag = srv[g].tag
        /\ \A h \in Gens : h # g => srv'[h] = srv[h]
    BY <1>t, <2>1, SetKidAt
  <2>4. EndStep(srv[g], ctl[g], st[g], exe.run, outcome, srv'[g], ctl'[g], st'[g], outcome')
    BY <2>1, <2>2, <2>3 DEF EndStep
  <2> QED
    BY <2>2, <2>3, <2>4 DEF Others
<1>8. CASE InheritEnds(g)
  BY <1>8 DEF InheritEnds, Others, SameStep, Same
<1>9. CASE HolderCloses(g)
  BY <1>9 DEF HolderCloses, Others, SameStep, Same
<1> QED
  BY <1>1, <1>2, <1>3, <1>4, <1>5, <1>6, <1>7, <1>8, <1>9, Zenon DEF ServerSide, Server

(* The child of the executor's server, while it runs, is that of this run, *)
(* and the executor is waiting for it.                                     *)
LEMMA PhaseKid ==
  ASSUME NEW e, NEW r, NEW c, NEW s, NEW o, Phase(e, r, c, s, o),
         e.at \in ExeAt \ {"new", "end"}, r.kid = "run"
  PROVE  r.tag = e.run /\ e.at \in {"pid", "status"}
<1>1. ~Quiet(r, c, s) /\ ~Doomed(r)
  BY DEF Quiet, Doomed
<1>2. AwaitPid(r, c, s, e.run, o) => r.tag = e.run
  BY <1>1 DEF AwaitPid, Working
<1>3. AwaitStatus(r, c, s, e.run, o) => r.tag = e.run
  BY DEF AwaitStatus, Working
<1> QED
  BY <1>1, <1>2, <1>3 DEF Phase, ExeAt

LEMMA ServerInv ==
  ASSUME IInv, NEW g \in Gens, ServerSide(g)
  PROVE  Rest'
<1> USE BoundAssumption
<1>t. TypeOK /\ exe.at \in ExeAt /\ exe.gen \in 0 .. MaxGen /\ started \in Nat
  BY DEF IInv, TypeOK, ExeRec, ExeAt
<1>1. /\ Others(g)
      /\ UNCHANGED <<exe, ends, started>>
      /\ SrvRead(g) \/ StepOf(g)
      /\ NearEnd(g, "ctl") => StepOf(g)
      /\ trace' = trace \/ (srv[g].kid = "run" /\ trace' = trace \cup {srv[g].tag})
      /\ outcome' = outcome \/ srv[g].kid = "run"
      /\ srv[g].at = "none" /\ srv[g].kid # "run" => srv' = srv /\ ctl' = ctl /\ st' = st
  BY <1>t, ServerSideStep
<1>2. Unborn'
  <2>1. g > started => srv[g].at = "none" /\ srv[g].kid # "run"
    BY DEF IInv, Rest, Unborn, NoSrv
  <2> QED
    BY <1>1, <2>1 DEF IInv, Rest, Unborn, Others
<1>3. ExeInv' /\ DeadServerNoticed'
  BY <1>1 DEF IInv, Rest, ExeInv, DeadServerNoticed, Ending
<1>4. CASE Ending
  <2>1. exe.at # "judge"
    BY <1>4 DEF IInv, Rest, ExeInv, Closing
  <2> QED
    BY <1>1, <1>2, <1>3, <1>4, <2>1 DEF Rest, StatusIsOwn, Alone, Current, Ending
<1>5. CASE ~Ending
  <2>1. Doomed(srv[g]) => Doomed(srv'[g]) /\ srv[g].kid # "run" /\ StepOf(g)
    <3>1. SUFFICES ASSUME Doomed(srv[g]) PROVE Doomed(srv'[g]) /\ srv[g].kid # "run" /\ StepOf(g)
      OBVIOUS
    <3>2. ~SrvRead(g)
      BY <3>1 DEF SrvRead, Doomed
    <3>3. StepOf(g)
      BY <1>1, <3>2
    <3> QED
      BY <3>1, <3>3, DoomedStep DEF StepOf
  <2>2. g # exe.gen => Doomed(srv[g])
    BY <1>5 DEF IInv, Rest, Alone
  <2>3. CASE g = exe.gen
    <3>1. exe.gen # 0 /\ Phase(exe, srv[g], ctl[g], st[g], outcome) /\ (exe.at \notin Closing => "ctl" \in ends[g])
      BY <1>5, <2>3 DEF IInv, Rest, Current, Gens
    <3>2. StepOf(g)
      <4>1. CASE exe.at \in Closing
        BY <2>1, <3>1, <4>1 DEF Phase, Closing
      <4>2. CASE exe.at \notin Closing
        BY <1>1, <3>1, <4>2 DEF NearEnd
      <4> QED
        BY <4>1, <4>2
    <3>3. Phase(exe, srv'[g], ctl'[g], st'[g], outcome')
      BY <3>1, <3>2, PhaseStep DEF StepOf
    <3>4. exe.at \in ExeAt \ {"new", "end"}
      BY <1>t, <1>5, <3>1 DEF IInv, Rest, ExeInv
    <3>5. srv[g].kid = "run" => srv[g].tag = exe.run /\ exe.at \in {"pid", "status"}
      BY <3>1, <3>4, PhaseKid
    <3>6. Current'
      BY <1>1, <2>3, <3>1, <3>3 DEF Current, Ending
    <3>7. Alone'
      BY <1>1, <1>5, <2>3, <3>5 DEF IInv, Rest, Alone, Others, Ending
    <3>8. StatusIsOwn'
      BY <1>1, <3>5 DEF IInv, Rest, StatusIsOwn
    <3> QED
      BY <1>2, <1>3, <3>6, <3>7, <3>8 DEF Rest
  <2>4. CASE g # exe.gen
    <3>1. Doomed(srv'[g]) /\ srv[g].kid # "run" /\ StepOf(g) /\ outcome' = outcome /\ trace' = trace
      BY <1>1, <2>1, <2>2, <2>4
    <3>2. Current'
      <4>1. exe.gen # 0 => exe.gen \in Gens
        BY <1>t DEF Gens
      <4> QED
        BY <1>1, <1>5, <2>4, <3>1, <4>1 DEF IInv, Rest, Current, Others, Ending
    <3>3. Alone'
      BY <1>1, <1>5, <3>1 DEF IInv, Rest, Alone, Others, Ending
    <3>4. StatusIsOwn'
      BY <1>1, <3>1 DEF IInv, Rest, StatusIsOwn
    <3> QED
      BY <1>2, <1>3, <3>2, <3>3, <3>4 DEF Rest
  <2> QED
    BY <2>3, <2>4
<1> QED
  BY <1>4, <1>5

(* The steps of the executor, one lemma per group of steps. *)
Typed ==
  /\ exe \in ExeRec /\ exe.at \in ExeAt /\ exe.gen \in 0 .. MaxGen /\ started \in 0 .. MaxGen
  /\ exe.gen # 0 => exe.gen \in Gens
  /\ srv \in [Gens -> SrvRec] /\ DOMAIN ctl = Gens /\ DOMAIN st = Gens /\ DOMAIN ends = Gens

LEMMA IsTyped == TypeOK => Typed
BY BoundAssumption DEF TypeOK, Typed, ExeRec, ExeAt, Gens

LEMMA SpawnInv == ASSUME IInv, SpawnServer \/ SpawnFails PROVE Rest'
<1> USE BoundAssumption
<1>t. Typed
  BY IsTyped DEF IInv
<1>0. /\ exe.at = "new" /\ exe.gen = 0 /\ ~Ending /\ exe.then \in {"idle", "write"}
      /\ (exe.then = "write" => ~exe.stale)
      /\ trace \subseteq {exe.run} /\ \A g \in Gens : Doomed(srv[g])
  <2>1. exe.at = "new"
    BY DEF SpawnServer, SpawnFails
  <2>2. exe.gen = 0 /\ ~Ending /\ (exe.then = "write" => ~exe.stale)
    BY <2>1 DEF IInv, Rest, ExeInv, Closing
  <2>3. exe.then \in {"idle", "write"}
    BY <1>t, <2>2 DEF Typed, ExeRec, Ending
  <2>4. \A g \in Gens : g # 0
    BY DEF Gens
  <2> QED
    BY <2>1, <2>2, <2>3, <2>4 DEF IInv, Rest, Alone
<1>1. CASE SpawnServer
  <2> DEFINE n == started + 1
  <2>1. n \in Gens /\ n > started /\ n # 0 /\ started' = n
    BY <1>1, <1>t DEF SpawnServer, Gens, Typed
  <2>2. /\ exe'.at = exe.then /\ exe'.gen = n /\ exe'.then = exe.then /\ exe'.run = exe.run
        /\ exe'.stale = exe.stale /\ exe'.status = exe.status
    BY <1>1, <1>t DEF SpawnServer, Typed, ExeRec
  <2>3. /\ srv'[n].at = "read" /\ srv'[n].kid = "none" /\ ctl'[n] = <<>> /\ st'[n] = <<>>
        /\ ends'[n] = Ends /\ \A g \in Gens : g # n => srv'[g] = srv[g]
    BY <1>1, <1>t, <2>1 DEF SpawnServer, Typed, NoSrv, IInv, Rest, Unborn
  <2>4. trace' = trace /\ outcome' = outcome /\ ctl' = ctl /\ st' = st
    BY <1>1 DEF SpawnServer
  <2>5. ExeInv'
    BY <1>0, <2>1, <2>2 DEF ExeInv, Ending, Closing, Gens
  <2>6. Unborn'
    BY <1>t, <2>1, <2>3, <2>4 DEF IInv, Rest, Unborn, Gens, Typed
  <2>7. Alone'
    BY <1>0, <2>2, <2>3, <2>4 DEF Alone
  <2>8. Current'
    <3>1. Phase(exe', srv'[n], ctl'[n], st'[n], outcome')
      BY <1>0, <2>2, <2>3 DEF Phase, Quiet
    <3> QED
      BY <2>2, <2>3, <3>1 DEF Current, Ends
  <2>9. StatusIsOwn' /\ DeadServerNoticed'
    BY <1>0, <2>2 DEF StatusIsOwn, DeadServerNoticed
  <2> QED
    BY <2>5, <2>6, <2>7, <2>8, <2>9 DEF Rest
<1>2. CASE SpawnFails
  <2>1. /\ exe'.at \in {"judge", "idle"} /\ exe'.gen = 0 /\ exe'.then = exe.then /\ exe'.run = exe.run
        /\ exe'.status = "Error"
    BY <1>2, <1>t DEF SpawnFails, Typed, ExeRec
  <2>2. UNCHANGED <<srv, ctl, st, ends, held, trace, outcome, started>>
    BY <1>2 DEF SpawnFails
  <2>3. ExeInv'
    BY <1>0, <1>t, <2>1, <2>2 DEF ExeInv, Ending, Closing, Typed
  <2>4. Unborn' /\ Alone' /\ Current' /\ StatusIsOwn' /\ DeadServerNoticed'
    BY <1>0, <2>1, <2>2 DEF IInv, Rest, Unborn, Alone, Current, StatusIsOwn, DeadServerNoticed
  <2> QED
    BY <2>3, <2>4 DEF Rest
<1> QED
  BY <1>1, <1>2

LEMMA RunInnerInv == ASSUME IInv, RunInner PROVE Rest'
<1>t. Typed
  BY IsTyped DEF IInv
<1>0. exe.at = "idle" /\ ~Ending
  BY DEF RunInner, IInv, Rest, ExeInv, Closing
<1>1. /\ exe'.at = (IF exe.gen = 0 THEN "new" ELSE "write") /\ exe'.gen = exe.gen /\ exe'.then = "write"
      /\ exe'.stale = (exe.gen # 0 /\ ~FarEnd(exe.gen))
  BY <1>t DEF RunInner, Typed, ExeRec
<1>2. trace' = {} /\ UNCHANGED <<srv, ctl, st, ends, started>>
  BY DEF RunInner
<1>3. ExeInv'
  BY <1>0, <1>1, <1>2, Zenon DEF ExeInv, Ending, Closing, IInv, Rest
<1>4. Unborn' /\ Alone' /\ StatusIsOwn' /\ DeadServerNoticed'
  BY <1>0, <1>1, <1>2 DEF IInv, Rest, Unborn, Alone, StatusIsOwn, DeadServerNoticed
<1>5. Current'
  <2>1. SUFFICES ASSUME exe.gen # 0
                 PROVE  /\ Phase(exe', srv[exe.gen], ctl[exe.gen], st[exe.gen], outcome')
                        /\ "ctl" \in ends[exe.gen]
    BY <1>1, <1>2 DEF Current
  <2>2. Quiet(srv[exe.gen], ctl[exe.gen], st[exe.gen]) /\ "ctl" \in ends[exe.gen]
    BY <1>0, <2>1 DEF IInv, Rest, Current, Phase, Closing
  <2>3. exe'.stale => srv[exe.gen].at = "dead"
    BY <1>1, <2>2, Zenon DEF FarEnd, Quiet
  <2> QED
    BY <1>1, <2>1, <2>2, <2>3 DEF Phase
<1> QED
  BY <1>3, <1>4, <1>5 DEF Rest

LEMMA CloseInv == ASSUME IInv, DropExecutor \/ DropFin \/ DropCloseSt \/ DropCloseCtl PROVE Rest'
<1>t. Typed
  BY IsTyped DEF IInv
<1>1. CASE DropExecutor
  <2>1. /\ exe.at = "idle" /\ exe'.at = (IF exe.gen = 0 THEN "end" ELSE "fin") /\ exe'.gen = exe.gen /\ exe'.then = "end"
        /\ UNCHANGED <<srv, ctl, st, started>>
    BY <1>1, <1>t DEF DropExecutor, Typed, ExeRec
  <2> QED
    BY <2>1 DEF IInv, Rest, ExeInv, Closing, Ending, Unborn, Alone, Current, StatusIsOwn, DeadServerNoticed
<1>2. CASE DropFin \/ DropCloseSt
  <2>1. /\ exe.at \in Closing /\ exe'.at \in Closing /\ exe'.gen = exe.gen /\ exe'.then = exe.then
        /\ exe'.run = exe.run /\ exe'.stale = exe.stale
        /\ UNCHANGED <<srv, st, started, trace, outcome>>
    BY <1>2, <1>t DEF DropFin, DropCloseSt, Goto, Typed, ExeRec, Closing
  <2>2. exe.gen # 0 /\ exe.gen \in Gens /\ exe.gen <= started
    BY <1>t, <2>1 DEF IInv, Rest, ExeInv, Closing, Typed
  <2>3. \A g \in Gens : g > started => ctl'[g] = ctl[g]
    <3>1. \A g \in Gens : g # exe.gen => ctl'[g] = ctl[g]
      BY <1>2, <1>t, <2>2, SendAt DEF DropFin, DropCloseSt, Typed
    <3>2. \A g \in Gens : g > started => g # exe.gen
      BY <1>t, <2>2 DEF Typed, Gens
    <3> QED
      BY <3>1, <3>2
  <2>4. ExeInv'
    BY <2>1 DEF IInv, Rest, ExeInv, Ending, Closing
  <2>5. Unborn' /\ Alone' /\ StatusIsOwn' /\ DeadServerNoticed'
    BY <2>1, <2>3 DEF IInv, Rest, Unborn, Alone, Ending, Closing, StatusIsOwn, DeadServerNoticed
  <2>6. Current'
    BY <2>1, <2>2 DEF IInv, Rest, Current, Ending, Closing, Phase
  <2> QED
    BY <2>4, <2>5, <2>6 DEF Rest
<1>3. CASE DropCloseCtl
  <2>1. /\ exe.at = "close_ctl" /\ exe'.at = (IF exe.then = "end" THEN "end" ELSE "new") /\ exe'.gen = 0
        /\ exe'.then = exe.then /\ exe'.run = exe.run
        /\ UNCHANGED <<srv, ctl, st, started, trace, outcome>>
    BY <1>3, <1>t, BoundAssumption DEF DropCloseCtl, Typed, ExeRec
  <2>2. exe.gen # 0 /\ exe.then # "write"
    BY <2>1 DEF IInv, Rest, ExeInv, Closing
  <2>3. ~Ending => Doomed(srv[exe.gen])
    BY <2>1, <2>2 DEF IInv, Rest, Current, Phase
  <2>4. ExeInv'
    BY <1>t, <2>1, <2>2, BoundAssumption DEF ExeInv, Ending, Closing, Typed
  <2>5. Unborn' /\ Alone' /\ Current' /\ StatusIsOwn' /\ DeadServerNoticed'
    BY <2>1, <2>3 DEF IInv, Rest, Unborn, Alone, Current, Ending, StatusIsOwn, DeadServerNoticed
  <2> QED
    BY <2>4, <2>5 DEF Rest
<1> QED
  BY <1>1, <1>2, <1>3

(* The steps of Forksrv::run: the executor stays with its server, and what *)
(* it then knows of it is the new phase.                                   *)
LEMMA TalkFrame ==
  ASSUME IInv, NEW g \in Gens, g = exe.gen, ~Ending,
         exe.at \in {"write", "pid", "status", "late"},
         exe'.gen = g, exe'.then = exe.then, exe'.run = exe.run, exe'.stale = exe.stale,
         exe'.at \in {"pid", "status", "late", "judge"},
         exe'.at # "judge" => ~exe.stale,
         UNCHANGED <<trace, ends, started>>, Others(g),
         Phase(exe', srv'[g], ctl'[g], st'[g], outcome'), StatusIsOwn', DeadServerNoticed'
  PROVE  Rest'
<1>t. Typed
  BY IsTyped DEF IInv
<1>1. exe'.gen # 0 /\ exe.gen <= started
  BY DEF IInv, Rest, ExeInv, Closing, Gens
<1>2. ExeInv'
  BY <1>1 DEF ExeInv, Ending, Closing
<1>3. Unborn'
  <2>1. \A h \in Gens : h > started => h # g
    BY <1>t, <1>1 DEF Typed, Gens
  <2> QED
    BY <2>1 DEF IInv, Rest, Unborn, Others
<1>4. Alone'
  BY DEF IInv, Rest, Alone, Others, Ending
<1>5. Current'
  BY <1>1 DEF IInv, Rest, Current, Closing
<1> QED
  BY <1>2, <1>3, <1>4, <1>5 DEF Rest

LEMMA TalkInv ==
  ASSUME IInv, WriteCtl \/ ReadPid \/ ReadStatus \/ KillChild \/ ReadLateStatus
  PROVE  Rest'
<1>t. Typed
  BY IsTyped DEF IInv
<1> DEFINE g == exe.gen
           r == srv[g]
           c == ctl[g]
           s == st[g]
<1>0. /\ exe.at \in {"write", "pid", "status", "late"} /\ ~Ending
      /\ g \in Gens /\ g # 0 /\ Phase(exe, r, c, s, outcome)
      /\ exe.at # "write" => ~exe.stale
  <2>1. exe.at \in {"write", "pid", "status", "late"}
    BY DEF WriteCtl, ReadPid, ReadStatus, KillChild, ReadLateStatus
  <2>2. ~Ending /\ g # 0 /\ (exe.at # "write" => ~exe.stale)
    BY <2>1 DEF IInv, Rest, ExeInv, Closing
  <2> QED
    BY <1>t, <2>1, <2>2 DEF IInv, Rest, Current, Typed
<1>f. /\ UNCHANGED <<trace, ends, started>>
      /\ exe'.gen = g /\ exe'.then = exe.then /\ exe'.run = exe.run /\ exe'.stale = exe.stale
  BY <1>t, Zenon DEF WriteCtl, ReadPid, ReadStatus, KillChild, ReadLateStatus, Goto, Return, Typed, ExeRec
<1>e. Empty(st, g) <=> s = <<>>
  BY DEF Empty
<1>far. ~FarEnd(g) => r.at \in {"none", "dead"} /\ r.kid # "run"
  BY DEF FarEnd, KidRuns
<1>1. CASE WriteCtl
  <2>0. exe.at = "write" /\ Quiet(r, c, s) /\ (exe.stale => r.at = "dead")
    BY <1>0, <1>1 DEF WriteCtl, Phase
  <2>1. CASE FarEnd(g)
    <3>1. ctl' = Send(ctl, g, exe.run) /\ exe'.at = "pid" /\ UNCHANGED <<srv, st, outcome>>
      BY <1>1, <1>t, <2>1 DEF WriteCtl, Goto, Typed, ExeRec
    <3>2. ctl'[g] = Append(c, exe.run) /\ \A h \in Gens : h # g => ctl'[h] = ctl[h]
      <4>1. DOMAIN ctl = Gens /\ g \in Gens
        BY <1>0, <1>t DEF Typed
      <4>2. /\ Send(ctl, g, exe.run)[g] = Append(ctl[g], exe.run)
            /\ \A h \in Gens : h # g => Send(ctl, g, exe.run)[h] = ctl[h]
        BY <4>1, SendAt
      <4> QED
        BY <3>1, <4>2
    <3>3. ctl'[g] = <<exe.run>>
      BY <2>0, <3>2, ShortSeq DEF Quiet
    <3>4. ~exe.stale
      BY <2>0, <2>1 DEF FarEnd, KidRuns, Quiet
    <3>5. AwaitPid(r, ctl'[g], s, exe.run, outcome)
      BY <2>0, <3>3 DEF AwaitPid, Quiet
    <3>6. Phase(exe', srv'[g], ctl'[g], st'[g], outcome')
      BY <1>f, <3>1, <3>5 DEF Phase
    <3>7. Others(g) /\ StatusIsOwn' /\ DeadServerNoticed'
      BY <3>1, <3>2 DEF Others, StatusIsOwn, DeadServerNoticed
    <3> QED
      BY <1>0, <1>f, <3>1, <3>4, <3>6, <3>7, TalkFrame
  <2>2. CASE ~FarEnd(g)
    <3>1. exe'.at = "judge" /\ exe'.status = "Error" /\ UNCHANGED <<srv, ctl, st, outcome>>
      BY <1>1, <1>t, <2>2, Zenon DEF WriteCtl, Return, Typed, ExeRec
    <3>2. Doomed(r)
      BY <1>far, <2>2 DEF Doomed
    <3>3. Phase(exe', srv'[g], ctl'[g], st'[g], outcome')
      BY <3>1, <3>2 DEF Phase
    <3>4. Others(g) /\ StatusIsOwn' /\ DeadServerNoticed'
      BY <3>1 DEF Others, StatusIsOwn, DeadServerNoticed
    <3> QED
      BY <1>0, <1>f, <3>1, <3>3, <3>4, TalkFrame
  <2> QED
    BY <2>1, <2>2
<1>2. CASE ReadPid
  <2>0. exe.at = "pid" /\ AwaitPid(r, c, s, exe.run, outcome) /\ ~exe.stale
    BY <1>0, <1>2 DEF ReadPid, Phase
  <2>1. CASE Empty(st, g)
    <3>1. exe'.at = "judge" /\ exe'.status = "Error" /\ UNCHANGED <<srv, ctl, st, outcome>> /\ ~FarEnd(g)
      BY <1>2, <1>t, <2>1, Zenon DEF ReadPid, Return, Typed, ExeRec
    <3>2. Doomed(r)
      BY <1>far, <3>1 DEF Doomed
    <3>3. Phase(exe', srv'[g], ctl'[g], st'[g], outcome')
      BY <3>1, <3>2 DEF Phase
    <3>4. Others(g) /\ StatusIsOwn' /\ DeadServerNoticed'
      BY <3>1 DEF Others, StatusIsOwn, DeadServerNoticed
    <3> QED
      BY <1>0, <1>f, <3>1, <3>3, <3>4, TalkFrame
  <2>2. CASE ~Empty(st, g)
    <3>1. /\ st' = Take(st, g) /\ UNCHANGED <<srv, ctl, outcome>>
          /\ Head(s) = "failed" => exe'.at = "judge" /\ exe'.status = "Error"
          /\ Head(s) # "failed" => exe'.at = "status"
      BY <1>2, <1>t, <2>2, Zenon DEF ReadPid, Goto, Return, Typed, ExeRec
    <3>2. st'[g] = Tail(s) /\ \A h \in Gens : h # g => st'[h] = st[h]
      BY <1>0, <1>t, <3>1, TakeAt DEF Typed
    <3>3. Others(g) /\ StatusIsOwn' /\ DeadServerNoticed'
      <4>1. exe'.at = "judge" => exe'.status = "Error"
        BY <3>1
      <4> QED
        BY <3>1, <3>2, <4>1 DEF Others, StatusIsOwn, DeadServerNoticed
    <3>4. Phase(exe', srv'[g], ctl'[g], st'[g], outcome')
      <4>1. CASE s = <<"failed">> /\ Doomed(r)
        <5>1. Head(s) = "failed"
          BY <4>1, ShortSeq
        <5> QED
          BY <3>1, <4>1, <5>1 DEF Phase
      <4>2. CASE s = <<"pid">> /\ c = <<>> /\ r.at \in {"wait", "status", "dead"}
                 /\ Working(r, exe.run, outcome) /\ r.kid # "killed"
        <5>1. Head(s) = "pid" /\ st'[g] = <<>> /\ st'[g] # <<"killed">>
          BY <3>2, <4>2, ShortSeq
        <5> QED
          BY <1>f, <3>1, <4>2, <5>1 DEF Phase, AwaitStatus
      <4>3. CASE s = <<"pid", outcome>> /\ c = <<>> /\ r.at \in {"read", "dead"} /\ r.kid \notin {"run", "killed"}
                 /\ outcome \in {"normal", "crash"}
        <5>1. Head(s) = "pid" /\ st'[g] = <<outcome>> /\ st'[g] # <<"killed">>
          BY <3>2, <4>3, ShortSeq
        <5> QED
          BY <1>f, <3>1, <4>3, <5>1 DEF Phase, AwaitStatus, KidEnds
      <4> QED
        BY <1>e, <2>0, <2>2, <4>1, <4>2, <4>3 DEF AwaitPid
    <3>5. exe'.at \in {"judge", "status"}
      BY <3>1
    <3> QED
      BY <1>0, <1>f, <2>0, <3>1, <3>3, <3>4, <3>5, TalkFrame
  <2> QED
    BY <2>1, <2>2
<1>3. CASE ReadStatus
  <2>0. exe.at = "status" /\ AwaitStatus(r, c, s, exe.run, outcome) /\ s # <<"killed">> /\ s # <<>> /\ ~exe.stale
    BY <1>0, <1>3, <1>e DEF ReadStatus, Phase
  <2>1. s = <<outcome>> /\ outcome \in KidEnds /\ c = <<>> /\ r.at \in {"read", "dead"} /\ r.kid # "run"
    BY <2>0 DEF AwaitStatus
  <2>2. outcome \in {"normal", "crash"}
    BY <2>0, <2>1 DEF KidEnds
  <2>3. /\ st' = Take(st, g) /\ exe'.at = "judge" /\ UNCHANGED <<srv, ctl, outcome>>
        /\ exe'.status = IF Head(s) = "normal" THEN "Normal" ELSE "Crash"
    BY <1>3, <1>t DEF ReadStatus, Return, Typed, ExeRec
  <2>4. st'[g] = Tail(s) /\ \A h \in Gens : h # g => st'[h] = st[h]
    BY <1>0, <1>t, <2>3, TakeAt DEF Typed
  <2>5. Head(s) = outcome /\ st'[g] = <<>>
    BY <2>1, <2>4, ShortSeq
  <2>6. Phase(exe', srv'[g], ctl'[g], st'[g], outcome')
    BY <2>1, <2>3, <2>5 DEF Phase, Quiet
  <2>7. Others(g) /\ StatusIsOwn' /\ DeadServerNoticed'
    BY <1>f, <2>0, <2>2, <2>3, <2>4, <2>5 DEF Others, StatusIsOwn, DeadServerNoticed
  <2> QED
    BY <1>0, <1>f, <2>3, <2>6, <2>7, TalkFrame
<1>4. CASE KillChild
  <2>0. exe.at = "status" /\ AwaitStatus(r, c, s, exe.run, outcome) /\ r.kid # "killed" /\ ~exe.stale
    BY <1>0, <1>4 DEF KillChild, Phase
  <2>1. /\ exe'.at = "late" /\ UNCHANGED <<ctl, st>>
        /\ srv' = IF KidRuns(g) THEN SetKid(srv, g, "killed") ELSE srv
        /\ outcome' = IF KidRuns(g) THEN "killed" ELSE outcome
    BY <1>4, <1>t DEF KillChild, Goto, Typed, ExeRec
  <2>2. CASE KidRuns(g)
    <3>1. /\ srv'[g].kid = "killed" /\ srv'[g].at = r.at /\ srv'[g].tag = r.tag
          /\ \A h \in Gens : h # g => srv'[h] = srv[h]
      BY <1>0, <1>t, <2>1, <2>2, SetKidAt DEF Typed
    <3>2. s = <<>> /\ c = <<>> /\ r.at \in {"wait", "status", "dead"} /\ Working(r, exe.run, outcome)
      BY <2>0, <2>2 DEF AwaitStatus, KidRuns
    <3>3. AwaitStatus(srv'[g], c, s, exe.run, outcome')
      BY <2>1, <2>2, <3>1, <3>2 DEF AwaitStatus, Working, KidEnds
    <3>4. Phase(exe', srv'[g], ctl'[g], st'[g], outcome')
      BY <1>f, <2>1, <3>1, <3>3 DEF Phase
    <3>5. Others(g) /\ StatusIsOwn' /\ DeadServerNoticed'
      BY <2>1, <3>1 DEF Others, StatusIsOwn, DeadServerNoticed
    <3> QED
      BY <1>0, <1>f, <2>0, <2>1, <3>4, <3>5, TalkFrame
  <2>3. CASE ~KidRuns(g)
    <3>1. srv' = srv /\ outcome' = outcome /\ r.kid # "run"
      BY <2>1, <2>3 DEF KidRuns
    <3>2. Phase(exe', srv'[g], ctl'[g], st'[g], outcome')
      BY <1>f, <2>0, <2>1, <3>1 DEF Phase
    <3>3. Others(g) /\ StatusIsOwn' /\ DeadServerNoticed'
      BY <2>1, <3>1 DEF Others, StatusIsOwn, DeadServerNoticed
    <3> QED
      BY <1>0, <1>f, <2>0, <2>1, <3>2, <3>3, TalkFrame
  <2> QED
    BY <2>2, <2>3
<1>5. CASE ReadLateStatus
  <2>0. exe.at = "late" /\ AwaitStatus(r, c, s, exe.run, outcome) /\ r.kid # "run" /\ ~exe.stale
    BY <1>0, <1>5 DEF ReadLateStatus, Phase
  <2>1. exe'.at = "judge" /\ exe'.status = "Timeout" /\ UNCHANGED <<srv, ctl, outcome>>
    BY <1>5, <1>t DEF ReadLateStatus, Return, Typed, ExeRec
  <2>2. StatusIsOwn' /\ DeadServerNoticed'
    BY <1>f, <2>0, <2>1 DEF StatusIsOwn, DeadServerNoticed
  <2>3. Quiet(r, c, st'[g]) /\ \A h \in Gens : h # g => st'[h] = st[h]
    <3>1. CASE Empty(st, g)
      <4>1. st' = st /\ ~FarEnd(g)
        BY <1>5, <3>1 DEF ReadLateStatus
      <4>2. s = <<>> /\ r.at = "dead"
        BY <1>e, <1>far, <2>0, <3>1, <4>1 DEF AwaitStatus
      <4> QED
        BY <2>0, <4>1, <4>2 DEF Quiet, AwaitStatus
    <3>2. CASE ~Empty(st, g)
      <4>1. st' = Take(st, g)
        BY <1>5, <3>2 DEF ReadLateStatus
      <4>2. st'[g] = Tail(s) /\ \A h \in Gens : h # g => st'[h] = st[h]
        BY <1>0, <1>t, <4>1, TakeAt DEF Typed
      <4>3. s = <<outcome>> /\ c = <<>> /\ r.at \in {"read", "dead"}
        BY <1>e, <2>0, <3>2 DEF AwaitStatus
      <4>4. st'[g] = <<>>
        BY <4>2, <4>3, ShortSeq
      <4> QED
        BY <2>0, <4>2, <4>3, <4>4 DEF Quiet
    <3> QED
      BY <3>1, <3>2
  <2>4. Phase(exe', srv'[g], ctl'[g], st'[g], outcome')
    BY <2>1, <2>3 DEF Phase
  <2>5. Others(g)
    BY <2>1, <2>3 DEF Others
  <2> QED
    BY <1>0, <1>f, <2>1, <2>2, <2>4, <2>5, TalkFrame
<1> QED
  BY <1>1, <1>2, <1>3, <1>4, <1>5

LEMMA CheckTimeoutInv == ASSUME IInv, CheckTimeout PROVE Rest'
<1>t. Typed
  BY IsTyped DEF IInv
<1>1. /\ exe.at = "judge" /\ exe'.gen = exe.gen /\ exe'.then = "idle" /\ exe'.run = exe.run
      /\ exe'.at = IF exe.status # "Error" THEN "idle" ELSE IF exe.gen = 0 THEN "new" ELSE "fin"
      /\ UNCHANGED <<srv, ctl, st, ends, trace, outcome, started>>
  BY <1>t DEF CheckTimeout, Typed, ExeRec
<1>2. ~Ending
  BY <1>1 DEF IInv, Rest, ExeInv, Closing
<1>3. ExeInv'
  BY <1>1 DEF IInv, Rest, ExeInv, Ending, Closing
<1>4. Unborn' /\ Alone' /\ StatusIsOwn' /\ DeadServerNoticed'
  BY <1>1, <1>2 DEF IInv, Rest, Unborn, Alone, StatusIsOwn, DeadServerNoticed
<1>5. Current'
  <2>1. SUFFICES ASSUME exe.gen # 0
                 PROVE  /\ Phase(exe', srv[exe.gen], ctl[exe.gen], st[exe.gen], outcome)
                        /\ "ctl" \in ends[exe.gen]
    BY <1>1 DEF Current
  <2> QED
    BY <1>1, <1>2, <2>1 DEF IInv, Rest, Current, Phase, Closing
<1> QED
  BY <1>3, <1>4, <1>5 DEF Rest

(* The inductive invariant holds throughout. *)
THEOREM Invariance == Spec => []IInv
<1>1. Init => IInv
  <2> SUFFICES ASSUME Init PROVE IInv
    OBVIOUS
  <2>1. TypeOK
    BY TypeInit
  <2>2. \A g \in Gens : srv[g] = NoSrv /\ ctl[g] = <<>> /\ st[g] = <<>>
    BY DEF Init
  <2>3. ExeInv /\ StatusIsOwn /\ DeadServerNoticed
    BY BoundAssumption DEF Init, ExeInv, StatusIsOwn, DeadServerNoticed, Ending, Closing
  <2>4. Unborn /\ Alone /\ Current
    BY <2>2 DEF Init, Unborn, Alone, Current, Doomed, NoSrv
  <2> QED
    BY <2>1, <2>3, <2>4 DEF IInv, Rest
<1>2. IInv /\ [Next]_vars => IInv'
  <2> SUFFICES ASSUME IInv, [Next]_vars PROVE IInv'
    OBVIOUS
  <2>1. CASE UNCHANGED vars
    BY <2>1 DEF vars, IInv, TypeOK, Rest, ExeInv, StatusIsOwn, DeadServerNoticed, Unborn, Alone, Current, Ending
  <2>2. CASE Executor
    <3>1. TypeOK'
      BY <2>2, TypeExecutor DEF IInv
    <3>2. Rest'
      BY <2>2, SpawnInv, RunInnerInv, CloseInv, TalkInv, CheckTimeoutInv DEF Executor
    <3> QED
      BY <3>1, <3>2 DEF IInv
  <2>3. ASSUME NEW g \in Gens, ServerSide(g) PROVE IInv'
    <3>1. TypeOK'
      BY <2>3, TypeServer DEF IInv, ServerSide
    <3>2. Rest'
      BY <2>3, ServerInv
    <3> QED
      BY <3>1, <3>2 DEF IInv
  <2> QED
    BY <2>1, <2>2, <2>3 DEF Next, ServerSide
<1> QED
  BY <1>1, <1>2, PTL DEF Spec

(* When has_new reads the trace, the child of this run wrote it and no     *)
(* other child can: Forksrv::run leaves nothing running behind, whatever   *)
(* times out, fails or dies.                                               *)
THEOREM TraceIsOwnHolds == Spec => []TraceIsOwn
<1>1. IInv => TraceIsOwn
  <2> SUFFICES ASSUME IInv, exe.at = "judge", exe.status # "Error"
               PROVE  trace \subseteq {exe.run} /\ \A g \in Gens : ~KidRuns(g)
    BY DEF TraceIsOwn
  <2>1. ~Ending /\ exe.gen # 0
    BY DEF IInv, Rest, ExeInv, Closing
  <2>2. srv[exe.gen].kid # "run"
    BY <2>1 DEF IInv, Rest, Current, Phase, Quiet
  <2>3. \A g \in Gens : g # exe.gen => srv[g].kid # "run"
    BY <2>1 DEF IInv, Rest, Alone, Doomed
  <2> QED
    BY <2>1, <2>2, <2>3 DEF IInv, Rest, Alone, KidRuns
<1> QED
  BY <1>1, Invariance, PTL

(* Forksrv::run never takes the answer about an earlier run for its own. *)
THEOREM StatusIsOwnHolds == Spec => []StatusIsOwn
<1>1. IInv => StatusIsOwn
  BY DEF IInv, Rest
<1> QED
  BY <1>1, Invariance, PTL

(* A server that is gone is replaced after the first run that meets it. *)
THEOREM DeadServerNoticedHolds == Spec => []DeadServerNoticed
<1>1. IInv => DeadServerNoticed
  BY DEF IInv, Rest
<1> QED
  BY <1>1, Invariance, PTL
=============================================================================
