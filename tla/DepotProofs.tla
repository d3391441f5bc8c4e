---------------------------- MODULE DepotProofs ----------------------------
(* Proofs about the seed queue for any number of savers, takers, buffers   *)
(* and ids.                                                                *)
EXTENDS Depot, FiniteSetTheorems, TLAPS

(* More time than the provers take by default. *)
USE SMTT(30), ZenonT(30)

(* A saver that loaded id saw files below id, and owns a file from create on. *)
SaverInv ==
  \A s \in Savers : saver[s].at # "idle" =>
    /\ saver[s].buf \in used
    /\ saver[s].id \in Ids
    /\ \A i \in Ids : i < saver[s].id => i \in exists[saver[s].kind]
    /\ saver[s].at \in {"write", "store"} => saver[s].id \in exists[saver[s].kind]

FileInv == \A k \in Kinds, i \in Ids : i < num[k] => i \in exists[k]

(* Everything below n, from the first id of this run on, was handed out. *)
Covered(f, n) == \A i \in Ids : i < n /\ (Restart => FirstId <= i) => f[i] >= 1

TakerInv ==
  \A t \in Takers :
    /\ taker[t].at \in {"start", "restore", "dead"} => Restart
    /\ taker[t].at = "restore" => Covered(taken, taker[t].id)
    /\ taker[t].at \in {"cas", "truncate", "progress", "read"} =>
         taker[t].id \in Ids /\ taker[t].id \in exists[Normal]
    /\ taker[t].at \in {"truncate", "progress", "read"} =>
         taken[taker[t].id] >= 1 /\ Covered(taken, taker[t].id)

ProgressInv ==
  progress # Empty =>
    /\ Covered(taken, progress)
    /\ ~(Restart /\ progress = FirstId) => progress \in Ids /\ taken[progress] >= 1

(* Between two resets next_id only grows, so in each round what it has     *)
(* passed was handed out once and the rest not at all.                     *)
OnceInv ==
  \A i \in Ids : taken[i] <= IF Rounds = 0 THEN 0 ELSE IF i < next_id THEN Rounds ELSE Rounds - 1

IInv == TypeOK /\ SaverInv /\ FileInv /\ TakerInv /\ Covered(taken, next_id) /\ ProgressInv /\ OnceInv

-----------------------------------------------------------------------------
(* Overlaying a file with a buffer leaves a sequence of cells. *)
LEMMA OverlayType ==
  ASSUME NEW old \in Seq(Bufs), NEW b \in Bufs
  PROVE  Overlay(old, b) \in Seq(Bufs)
<1> DEFINE n == IF Size[b] > Len(old) THEN Size[b] ELSE Len(old)
<1>1. Size[b] \in Nat /\ Len(old) \in Nat /\ n \in Nat
  BY BufsAssumption
<1>2. \A i \in 1 .. n : (IF i <= Size[b] THEN b ELSE old[i]) \in Bufs
  BY <1>1
<1>3. Overlay(old, b) \in [1 .. n -> Bufs]
  BY <1>2 DEF Overlay
<1> QED
  BY <1>1, <1>3

(* The contents a save writes are a sequence of cells. *)
LEMMA ContentType == ASSUME NEW b \in Bufs PROVE Content(b) \in Seq(Bufs)
<1>1. Size[b] \in Nat /\ Content(b) \in [1 .. Size[b] -> Bufs]
  BY BufsAssumption DEF Content
<1> QED
  BY <1>1

(* A saver or a taker that moves on keeps its locals. *)
LEMMA SaverMove ==
  ASSUME NEW f \in [Savers -> SaverRec], NEW s \in Savers, NEW a \in {"idle", "create", "write", "store"}
  PROVE  [f EXCEPT ![s].at = a] \in [Savers -> SaverRec]
<1>1. [f[s] EXCEPT !.at = a] \in SaverRec
  BY DEF SaverRec
<1> QED
  BY <1>1

(* Rounds is a number. *)
LEMMA RoundsNat == Rounds \in Nat /\ (Restored # {} => Rounds >= 1) /\ (~Restart => Rounds = 1)
<1>1. IsFiniteSet(Restored)
  BY TakersAssumption, FS_Subset DEF Restored
<1>2. Cardinality(Restored) \in Nat /\ (Cardinality(Restored) = 0 <=> Restored = {})
  BY <1>1, FS_CardinalityType, FS_EmptySet
<1> QED
  BY <1>2, RestartAssumption DEF Rounds

(* A thread that gets through load_cached_next_id begins another round. *)
LEMMA RoundsGrow ==
  ASSUME Restart, NEW t \in Takers, t \notin Restored, Restored' = Restored \cup {t}
  PROVE  Rounds' = Rounds + 1
<1>1. IsFiniteSet(Restored)
  BY TakersAssumption, FS_Subset DEF Restored
<1>2. Cardinality(Restored \cup {t}) = Cardinality(Restored) + 1
  BY <1>1, FS_AddElement, Zenon
<1> QED
  BY <1>2 DEF Rounds

(* The initial state satisfies the inductive invariant. *)
LEMMA InitIInv == Init => IInv
<1> SUFFICES ASSUME Init PROVE IInv
  OBVIOUS
<1> USE KindsAssumption, SeedsAssumption, RestartAssumption DEF Init
<1>0. Len(Seeds) \in Nat /\ Len(Seeds) <= MaxInputs /\ MaxInputs \in Nat
  OBVIOUS
<1>1. SeedBufs \subseteq Bufs
  BY DEF SeedBufs
<1>2. file \in [Kinds -> [Ids -> Seq(Bufs)]]
  <2>1. \A i \in Ids : i < Len(Seeds) => Seeds[i + 1] \in Bufs
    BY <1>0 DEF Ids
  <2>2. \A i \in Ids : i < Len(Seeds) => Content(Seeds[i + 1]) \in Seq(Bufs)
    BY <2>1, ContentType
  <2> QED
    BY <2>2
<1>3. TypeOK
  <2>1. exists \in [Kinds -> SUBSET Ids]
    BY <1>0 DEF Ids
  <2>2. saver \in [Savers -> SaverRec]
    BY <1>0 DEF IdleSaver, SaverRec, Normal
  <2>3. taker \in [Takers -> TakerRec]
    BY DEF TakerRec
  <2> QED
    BY <1>0, <1>1, <1>2, <2>1, <2>2, <2>3 DEF TypeOK, Empty
<1>4. SaverInv /\ FileInv
  BY <1>0 DEF SaverInv, FileInv, IdleSaver, Ids
<1>5. TakerInv
  BY DEF TakerInv
<1>6. Covered(taken, next_id) /\ ProgressInv
  BY DEF Covered, ProgressInv, Ids, Empty
<1>7. OnceInv
  BY RoundsNat DEF OnceInv, Ids
<1> QED
  BY <1>3, <1>4, <1>5, <1>6, <1>7 DEF IInv

-----------------------------------------------------------------------------
(* A step of a saver preserves the inductive invariant. *)
LEMMA SaveIInv ==
  ASSUME IInv, NEW s \in Savers, SaveStep(s)
  PROVE  IInv'
<1> USE KindsAssumption, SeedsAssumption, RestartAssumption
<1>t. TypeOK /\ SaverInv /\ FileInv /\ TakerInv /\ Covered(taken, next_id) /\ ProgressInv /\ OnceInv
  BY DEF IInv
<1>1. CASE \E k \in Kinds, b \in Bufs : SaveLoad(s, k, b)
  <2> PICK k \in Kinds, b \in Bufs : SaveLoad(s, k, b)
    BY <1>1
  <2>1. TypeOK'
    BY <1>t DEF SaveLoad, TypeOK, takeVars, SaverRec
  <2>2. SaverInv'
    BY <1>t DEF SaveLoad, SaverInv, FileInv, TypeOK, Ids
  <2>3. FileInv' /\ TakerInv' /\ Covered(taken, next_id)' /\ ProgressInv' /\ OnceInv'
    BY <1>t DEF SaveLoad, takeVars, FileInv, TakerInv, Covered, ProgressInv, OnceInv, Rounds, Restored
  <2> QED
    BY <2>1, <2>2, <2>3 DEF IInv
<1>2. CASE SaveCreate(s)
  <2>0. saver[s].kind \in Kinds /\ saver[s].id \in Ids /\ saver[s].buf \in Bufs
    BY <1>t, <1>2 DEF SaveCreate, SaverInv, TypeOK, SaverRec
  <2>1. TypeOK'
    <3>1. file' \in [Kinds -> [Ids -> Seq(Bufs)]]
      BY <1>t, <1>2, <2>0 DEF SaveCreate, TypeOK
    <3>2. saver' \in [Savers -> SaverRec]
      BY <1>t, <1>2, SaverMove, Zenon DEF SaveCreate, TypeOK
    <3>3. exists' \in [Kinds -> SUBSET Ids]
      BY <1>t, <1>2, <2>0, Zenon DEF SaveCreate, TypeOK
    <3> QED
      BY <1>t, <1>2, <3>1, <3>2, <3>3, Zenon DEF SaveCreate, TypeOK, takeVars
  <2>2. /\ \A k \in Kinds : exists[k] \subseteq exists'[k]
        /\ saver[s].id \in exists'[saver[s].kind]
    BY <1>t, <1>2, <2>0, Zenon DEF SaveCreate, TypeOK
  <2>3. SaverInv'
    <3> SUFFICES ASSUME NEW r \in Savers, saver'[r].at # "idle"
                 PROVE  /\ saver'[r].buf \in used'
                        /\ saver'[r].id \in Ids
                        /\ \A i \in Ids : i < saver'[r].id => i \in exists'[saver'[r].kind]
                        /\ saver'[r].at \in {"write", "store"} => saver'[r].id \in exists'[saver'[r].kind]
      BY DEF SaverInv
    <3>1. saver[r] \in SaverRec /\ saver[s] \in SaverRec
      BY <1>t DEF TypeOK
    <3>2. /\ saver'[r].buf = saver[r].buf /\ saver'[r].id = saver[r].id /\ saver'[r].kind = saver[r].kind
          /\ r # s => saver'[r] = saver[r]
          /\ saver[r].at # "idle" /\ used' = used
      BY <1>t, <1>2, <3>1, Zenon DEF SaveCreate, TypeOK, SaverRec
    <3> QED
      BY <1>t, <1>2, <2>0, <2>2, <3>1, <3>2, Zenon DEF SaverInv, SaverRec
  <2>4. FileInv' /\ TakerInv'
    BY <1>t, <1>2, <2>2, Zenon DEF SaveCreate, takeVars, FileInv, TakerInv, Covered
  <2>5. Covered(taken, next_id)' /\ ProgressInv' /\ OnceInv'
    BY <1>t, <1>2 DEF SaveCreate, takeVars, Covered, ProgressInv, OnceInv, Rounds, Restored
  <2> QED
    BY <2>1, <2>3, <2>4, <2>5 DEF IInv
<1>3. CASE SaveWrite(s)
  <2>0. saver[s].kind \in Kinds /\ saver[s].id \in Ids /\ saver[s].buf \in Bufs
    BY <1>t, <1>3 DEF SaveWrite, SaverInv, TypeOK, SaverRec
  <2>1. TypeOK'
    <3>1. Overlay(file[saver[s].kind][saver[s].id], saver[s].buf) \in Seq(Bufs)
      <4>1. \A k \in Kinds, i \in Ids : file[k][i] \in Seq(Bufs)
        BY <1>t, Zenon DEF TypeOK
      <4> QED
        BY <2>0, <4>1, OverlayType, Zenon
    <3>2. file' \in [Kinds -> [Ids -> Seq(Bufs)]]
      BY <1>t, <1>3, <2>0, <3>1 DEF SaveWrite, TypeOK
    <3>3. saver' \in [Savers -> SaverRec]
      BY <1>t, <1>3, SaverMove, Zenon DEF SaveWrite, TypeOK
    <3> QED
      BY <1>t, <1>3, <3>2, <3>3, Zenon DEF SaveWrite, TypeOK, takeVars
  <2>2. SaverInv'
    BY <1>t, <1>3 DEF SaveWrite, SaverInv, TypeOK, SaverRec
  <2>3. FileInv' /\ TakerInv' /\ Covered(taken, next_id)' /\ ProgressInv' /\ OnceInv'
    BY <1>t, <1>3 DEF SaveWrite, takeVars, FileInv, TakerInv, Covered, ProgressInv, OnceInv, Rounds, Restored
  <2> QED
    BY <2>1, <2>2, <2>3 DEF IInv
<1>4. CASE SaveStore(s)
  <2>0. /\ saver[s].kind \in Kinds /\ saver[s].id \in Ids /\ saver[s].buf \in Bufs
        /\ \A i \in Ids : i < saver[s].id + 1 => i \in exists[saver[s].kind]
    <3>1. saver[s] \in SaverRec /\ saver[s].at = "store"
      BY <1>t, <1>4 DEF SaveStore, TypeOK
    <3>2. /\ saver[s].buf \in used
          /\ saver[s].id \in Ids
          /\ \A i \in Ids : i < saver[s].id => i \in exists[saver[s].kind]
          /\ saver[s].id \in exists[saver[s].kind]
      BY <1>t, <3>1, Zenon DEF SaverInv
    <3>3. \A i \in Ids : i < saver[s].id + 1 => i < saver[s].id \/ i = saver[s].id
      BY <3>2 DEF Ids
    <3> QED
      BY <1>t, <3>1, <3>2, <3>3 DEF TypeOK, SaverRec
  <2>1. TypeOK'
    <3>1. num' \in [Kinds -> 0 .. MaxInputs]
      <4>1. num \in [Kinds -> 0 .. MaxInputs]
        BY <1>t DEF TypeOK
      <4>2. num' = [num EXCEPT ![saver[s].kind] = saver[s].id + 1]
        BY <1>4 DEF SaveStore
      <4>3. saver[s].id + 1 \in 0 .. MaxInputs
        BY <2>0, SeedsAssumption DEF Ids
      <4> QED
        BY <4>1, <4>2, <4>3, Zenon
    <3>2. saver' \in [Savers -> SaverRec]
      BY <1>t, <1>4 DEF SaveStore, TypeOK, SaverRec, IdleSaver, Normal
    <3>3. saved' \subseteq used'
      BY <1>t, <1>4 DEF SaveStore, TypeOK, SaverInv
    <3> QED
      BY <1>t, <1>4, <3>1, <3>2, <3>3 DEF SaveStore, TypeOK, takeVars
  <2>2. SaverInv'
    BY <1>t, <1>4, Zenon DEF SaveStore, SaverInv, TypeOK, IdleSaver
  <2>3. FileInv'
    BY <1>t, <1>4, <2>0, Zenon DEF SaveStore, FileInv, TypeOK
  <2>4. TakerInv' /\ Covered(taken, next_id)' /\ ProgressInv' /\ OnceInv'
    BY <1>t, <1>4 DEF SaveStore, takeVars, TakerInv, Covered, ProgressInv, OnceInv, Rounds, Restored
  <2> QED
    BY <2>1, <2>2, <2>3, <2>4 DEF IInv
<1> QED
  BY <1>1, <1>2, <1>3, <1>4 DEF SaveStep

-----------------------------------------------------------------------------
(* The counterpart of SaverMove. *)
LEMMA TakerMove ==
  ASSUME NEW f \in [Takers -> TakerRec], NEW t \in Takers,
         NEW a \in {"start", "restore", "dead", "idle", "compare", "cas", "truncate", "progress", "read"}
  PROVE  [f EXCEPT ![t].at = a] \in [Takers -> TakerRec]
<1>1. [f[t] EXCEPT !.at = a] \in TakerRec
  BY DEF TakerRec
<1> QED
  BY <1>1

(* Resets of next_id and successful compare_exchanges keep OnceInv. *)
LEMMA TakeOnce ==
  ASSUME IInv, NEW t \in Takers, TakeStep(t)
  PROVE  OnceInv'
<1>t. TypeOK /\ TakerInv /\ OnceInv /\ taker \in [Takers -> TakerRec] /\ next_id \in Nat /\ taken \in [Ids -> Nat]
  BY DEF IInv, TypeOK
<1>n. Rounds \in Nat
  BY RoundsNat
<1>1. CASE RestoreNextId(t)
  <2>1. Restart
    BY <1>t, <1>1 DEF RestoreNextId, TakerInv
  <2>2. taker' = [taker EXCEPT ![t].at = "idle"] /\ taken' = taken /\ taker[t].at = "restore"
    BY <1>1 DEF RestoreNextId
  <2>3. Restored' = Restored \cup {t} /\ t \notin Restored
    BY <1>t, <2>2 DEF Restored, TakerRec
  <2>4. Rounds' = Rounds + 1
    BY <2>1, <2>3, RoundsGrow
  <2> QED
    BY <1>t, <1>n, <2>2, <2>4 DEF OnceInv
<1>2. CASE TakeCas(t) /\ next_id = taker[t].id
  <2>1. /\ next_id \in Ids /\ next_id' = next_id + 1 /\ taker[t].at = "cas"
        /\ taken' = [taken EXCEPT ![next_id] = taken[next_id] + 1]
        /\ taker' = [taker EXCEPT ![t].at = "truncate"]
    BY <1>t, <1>2 DEF TakeCas, TakerInv
  <2>2. Restored' = Restored /\ t \in Restored
    BY <1>t, <2>1 DEF Restored, TakerRec
  <2>3. Rounds' = Rounds /\ Rounds >= 1
    BY <2>2, RoundsNat DEF Rounds
  <2>4. \A i \in Ids : taken'[i] = IF i = next_id THEN taken[i] + 1 ELSE taken[i]
    BY <1>t, <2>1
  <2> QED
    BY <1>t, <1>n, <2>1, <2>3, <2>4 DEF OnceInv, Ids
<1>3. CASE ~RestoreNextId(t) /\ ~(TakeCas(t) /\ next_id = taker[t].id)
  <2>1. /\ taken' = taken /\ next_id' = next_id
        /\ \A r \in Takers : taker'[r].at \in {"start", "restore", "dead"} <=> taker[r].at \in {"start", "restore", "dead"}
    <3>1. CASE LoadProgress(t)
      BY <1>t, <3>1 DEF LoadProgress, TakerRec, TypeOK, Empty
    <3>2. CASE TakeLoad(t)
      BY <1>t, <3>2 DEF TakeLoad, TakerRec
    <3>3. CASE TakeCompare(t)
      BY <1>t, <3>3 DEF TakeCompare, TakerRec
    <3>4. CASE TakeCas(t)
      BY <1>t, <1>3, <3>4 DEF TakeCas, TakerRec
    <3>5. CASE ProgressTruncate(t)
      BY <1>t, <3>5 DEF ProgressTruncate, TakerRec
    <3>6. CASE ProgressWrite(t)
      BY <1>t, <3>6 DEF ProgressWrite, TakerRec
    <3>7. CASE GetInputBuf(t)
      BY <1>t, <3>7 DEF GetInputBuf, TakerRec
    <3> QED
      BY <1>3, <3>1, <3>2, <3>3, <3>4, <3>5, <3>6, <3>7, Zenon DEF TakeStep
  <2>2. Restored' = Restored
    BY <1>t, <2>1 DEF Restored
  <2> QED
    BY <1>t, <2>1, <2>2 DEF OnceInv, Rounds
<1> QED
  BY <1>1, <1>2, <1>3

(* A step of a taker preserves the inductive invariant. *)
LEMMA TakeIInv ==
  ASSUME IInv, NEW t \in Takers, TakeStep(t)
  PROVE  IInv'
<1> USE KindsAssumption, SeedsAssumption, RestartAssumption
<1>t. TypeOK /\ SaverInv /\ FileInv /\ TakerInv /\ Covered(taken, next_id) /\ ProgressInv /\ OnceInv
  BY DEF IInv
<1>r. taker[t] \in TakerRec
  BY <1>t DEF TypeOK
<1>o. OnceInv'
  BY TakeOnce, Zenon
<1>s. SaverInv' /\ FileInv'
  BY <1>t DEF TakeStep, LoadProgress, RestoreNextId, TakeLoad, TakeCompare, TakeCas, ProgressTruncate,
             ProgressWrite, GetInputBuf, saveVars, SaverInv, FileInv
<1>1. CASE LoadProgress(t)
  <2>1. taker' \in [Takers -> TakerRec] /\ TypeOK'
    <3>1. taker' \in [Takers -> TakerRec]
      BY <1>t, <1>1, TakerMove, Zenon DEF LoadProgress, TypeOK, TakerRec
    <3> QED
      BY <1>t, <1>1, <3>1 DEF LoadProgress, saveVars, TypeOK, Empty
  <2>2. TakerInv'
    BY <1>t, <1>1, <1>r, Zenon DEF LoadProgress, saveVars, TakerInv, TypeOK, TakerRec, Covered, ProgressInv, Empty
  <2>3. Covered(taken, next_id)' /\ ProgressInv'
    BY <1>t, <1>1, <1>r DEF LoadProgress, Covered, ProgressInv, TakerInv, TypeOK, TakerRec, Empty
  <2> QED
    BY <1>s, <1>t, <1>o, <2>1, <2>2, <2>3, Zenon DEF IInv
<1>2. CASE RestoreNextId(t)
  <2>1. taker' \in [Takers -> TakerRec] /\ TypeOK'
    <3>1. taker' \in [Takers -> TakerRec]
      BY <1>t, <1>2, TakerMove, Zenon DEF RestoreNextId, TypeOK, TakerRec
    <3> QED
      BY <1>t, <1>2, <1>r, <3>1, Zenon DEF RestoreNextId, saveVars, TypeOK, TakerRec
  <2>2. TakerInv'
    BY <1>t, <1>2, <1>r DEF RestoreNextId, saveVars, TakerInv, TypeOK, TakerRec, Covered, ProgressInv
  <2>3. Covered(taken, next_id)' /\ ProgressInv'
    BY <1>t, <1>2, <1>r DEF RestoreNextId, Covered, ProgressInv, TakerInv, TypeOK, TakerRec
  <2> QED
    BY <1>s, <1>t, <1>o, <2>1, <2>2, <2>3, Zenon DEF IInv
<1>3. CASE TakeLoad(t)
  <2>1. taker' \in [Takers -> TakerRec] /\ TypeOK'
    <3>1. taker' \in [Takers -> TakerRec]
      BY <1>t, <1>3, TakerMove, Zenon DEF TakeLoad, TypeOK, TakerRec
    <3> QED
      BY <1>t, <1>3, <3>1 DEF TakeLoad, saveVars, TypeOK
  <2>2. TakerInv'
    BY <1>t, <1>3, <1>r, Zenon DEF TakeLoad, saveVars, TakerInv, TypeOK, TakerRec, Covered, ProgressInv
  <2>3. Covered(taken, next_id)' /\ ProgressInv'
    BY <1>t, <1>3, <1>r DEF TakeLoad, Covered, ProgressInv, TakerInv, TypeOK, TakerRec
  <2> QED
    BY <1>s, <1>t, <1>o, <2>1, <2>2, <2>3, Zenon DEF IInv
<1>4. CASE TakeCompare(t)
  <2>1. taker' \in [Takers -> TakerRec] /\ TypeOK'
    <3>1. taker' \in [Takers -> TakerRec]
      BY <1>t, <1>4, TakerMove, Zenon DEF TakeCompare, TypeOK, TakerRec
    <3> QED
      BY <1>t, <1>4, <3>1, Zenon DEF TakeCompare, saveVars, TypeOK, FileInv, Ids
  <2>2. TakerInv'
    BY <1>t, <1>4, <1>r DEF TakeCompare, saveVars, TakerInv, TypeOK, TakerRec, Covered, ProgressInv, FileInv, Ids
  <2>3. Covered(taken, next_id)' /\ ProgressInv'
    BY <1>t, <1>4, <1>r DEF TakeCompare, Covered, ProgressInv, TakerInv, TypeOK, TakerRec, FileInv, Ids
  <2> QED
    BY <1>s, <1>t, <1>o, <2>1, <2>2, <2>3 DEF IInv
<1>5. CASE TakeCas(t)
  <2>1. CASE next_id = taker[t].id
    <3>1. /\ next_id \in Ids /\ next_id \in exists[Normal]
          /\ next_id' = next_id + 1
          /\ taken' = [taken EXCEPT ![next_id] = taken[next_id] + 1]
          /\ taker' = [taker EXCEPT ![t].at = "truncate"]
          /\ UNCHANGED <<num, exists, file, saver, used, clash, saved, progress, scanned>>
      BY <1>t, <1>5, <2>1 DEF TakeCas, TakerInv, saveVars
    <3>0. taker' \in [Takers -> TakerRec]
      BY <1>t, <3>1, TakerMove, Zenon DEF TypeOK
    <3>2. TypeOK' /\ \A i \in Ids : taken'[i] >= taken[i]
      BY <1>t, <3>0, <3>1 DEF TypeOK
    <3>3. Covered(taken', next_id') /\ taken'[next_id] >= 1 /\ Covered(taken', next_id)
      BY <1>t, <3>1, <3>2 DEF Covered, TypeOK, Ids
    <3>4. \A n \in Nat : Covered(taken, n) => Covered(taken', n)
      BY <1>t, <3>1, <3>2 DEF Covered, TypeOK
    <3>5. TakerInv'
      <4> SUFFICES ASSUME NEW r \in Takers
                   PROVE  TakerInv!(r)'
        BY DEF TakerInv
      <4>1. CASE r = t
        BY <1>t, <1>r, <2>1, <3>1, <3>3, <4>1, Zenon DEF TypeOK, TakerRec, TakerInv
      <4>2. CASE r # t
        <5>1. taker'[r] = taker[r] /\ taker[r].id \in Nat
          BY <1>t, <3>1, <4>2, Zenon DEF TypeOK, TakerRec
        <5>2. Covered(taken, taker[r].id) => Covered(taken', taker[r].id)
          BY <3>4, <5>1
        <5>3. taker[r].id \in Ids => taken'[taker[r].id] >= taken[taker[r].id] /\ taken[taker[r].id] \in Nat
                                     /\ taken'[taker[r].id] \in Nat
          BY <1>t, <3>2, Zenon DEF TypeOK
        <5>4. taker[r].id \in Ids /\ taken[taker[r].id] >= 1 => taken'[taker[r].id] >= 1
          BY <5>3
        <5>5. exists' = exists
          BY <3>1, Zenon
        <5>6. TakerInv!(r)
          BY <1>t DEF TakerInv
        <5> QED
          BY <5>1, <5>2, <5>4, <5>5, <5>6, Zenon
      <4> QED
        BY <4>1, <4>2
    <3>6. ProgressInv'
      <4> SUFFICES ASSUME progress # Empty
                   PROVE  /\ Covered(taken', progress)
                          /\ ~(Restart /\ progress = FirstId) => progress \in Ids /\ taken'[progress] >= 1
        BY <3>1 DEF ProgressInv
      <4>1. progress \in Nat
        BY <1>t DEF TypeOK
      <4>2. Covered(taken', progress)
        BY <1>t, <3>4, <4>1 DEF ProgressInv
      <4>3. progress \in Ids /\ taken[progress] >= 1 => taken'[progress] >= 1
        BY <1>t, <3>2 DEF TypeOK
      <4> QED
        BY <1>t, <4>2, <4>3 DEF ProgressInv
    <3> QED
      BY <1>s, <1>o, <3>2, <3>3, <3>5, <3>6 DEF IInv
  <2>2. CASE next_id # taker[t].id
    <3>0. taker' = [taker EXCEPT ![t].at = "idle"] /\ UNCHANGED <<next_id, taken, progress, scanned, saveVars>>
      BY <1>5, <2>2 DEF TakeCas
    <3>1. TypeOK'
      <4>1. taker' \in [Takers -> TakerRec]
        BY <1>t, <3>0, TakerMove, Zenon DEF TypeOK
      <4> QED
        BY <1>t, <3>0, <4>1 DEF saveVars, TypeOK
    <3>2. TakerInv'
      BY <1>t, <1>r, <3>0 DEF saveVars, TakerInv, TypeOK, TakerRec
    <3>3. Covered(taken, next_id)' /\ ProgressInv'
      BY <1>t, <3>0 DEF ProgressInv
    <3> QED
      BY <1>s, <1>o, <3>1, <3>2, <3>3 DEF IInv
  <2> QED
    BY <2>1, <2>2
<1>6. CASE ProgressTruncate(t)
  <2>1. taker' \in [Takers -> TakerRec] /\ TypeOK'
    <3>1. taker' \in [Takers -> TakerRec]
      BY <1>t, <1>6, TakerMove, Zenon DEF ProgressTruncate, TypeOK, TakerRec
    <3> QED
      BY <1>t, <1>6, <3>1 DEF ProgressTruncate, saveVars, TypeOK
  <2>2. TakerInv'
    BY <1>t, <1>6, <1>r DEF ProgressTruncate, saveVars, TakerInv, TypeOK, TakerRec, Covered, ProgressInv
  <2>3. Covered(taken, next_id)' /\ ProgressInv'
    BY <1>t, <1>6, <1>r DEF ProgressTruncate, Covered, ProgressInv, TakerInv, TypeOK, TakerRec
  <2> QED
    BY <1>s, <1>t, <1>o, <2>1, <2>2, <2>3 DEF IInv
<1>7. CASE ProgressWrite(t)
  <2>1. taker' \in [Takers -> TakerRec] /\ TypeOK'
    <3>1. taker' \in [Takers -> TakerRec]
      BY <1>t, <1>7, TakerMove, Zenon DEF ProgressWrite, TypeOK, TakerRec
    <3> QED
      BY <1>t, <1>7, <1>r, <3>1, Zenon DEF ProgressWrite, saveVars, TypeOK, TakerRec
  <2>2. TakerInv'
    BY <1>t, <1>7, <1>r, Zenon DEF ProgressWrite, saveVars, TakerInv, TypeOK, TakerRec, Covered, ProgressInv, Ids
  <2>3. Covered(taken, next_id)' /\ ProgressInv'
    BY <1>t, <1>7, <1>r DEF ProgressWrite, Covered, ProgressInv, TakerInv, TypeOK, TakerRec, Ids
  <2> QED
    BY <1>s, <1>t, <1>o, <2>1, <2>2, <2>3 DEF IInv
<1>8. CASE GetInputBuf(t)
  <2>1. taker' \in [Takers -> TakerRec] /\ TypeOK'
    <3>1. taker' \in [Takers -> TakerRec]
      BY <1>t, <1>8, TakerMove, Zenon DEF GetInputBuf, TypeOK, TakerRec
    <3> QED
      BY <1>t, <1>8, <3>1 DEF GetInputBuf, saveVars, TypeOK
  <2>2. TakerInv'
    BY <1>t, <1>8, <1>r DEF GetInputBuf, saveVars, TakerInv, TypeOK, TakerRec, Covered, ProgressInv
  <2>3. Covered(taken, next_id)' /\ ProgressInv'
    BY <1>t, <1>8, <1>r DEF GetInputBuf, Covered, ProgressInv, TakerInv, TypeOK, TakerRec
  <2> QED
    BY <1>s, <1>t, <1>o, <2>1, <2>2, <2>3, Zenon DEF IInv
<1> QED
  BY <1>1, <1>2, <1>3, <1>4, <1>5, <1>6, <1>7, <1>8, Zenon DEF TakeStep

-----------------------------------------------------------------------------
(* IInv is an invariant of the queue. *)
THEOREM Invariance == Spec => []IInv
<1>1. IInv /\ [Next]_vars => IInv'
  <2> SUFFICES ASSUME IInv, [Next]_vars PROVE IInv'
    OBVIOUS
  <2>1. CASE Next
    BY <2>1, SaveIInv, TakeIInv, Zenon DEF Next
  <2>2. CASE UNCHANGED vars
    BY <2>2 DEF vars, IInv, TypeOK, SaverInv, FileInv, TakerInv, Covered, ProgressInv, OnceInv, Rounds, Restored
  <2> QED
    BY <2>1, <2>2
<1> QED
  BY InitIInv, <1>1, PTL DEF Spec

(* Type correctness of the queue's counters, files and thread locals. *)
THEOREM TypeCorrect == Spec => []TypeOK
<1>1. IInv => TypeOK
  BY DEF IInv
<1> QED
  BY Invariance, <1>1, PTL

(* get_input_buf finds a file for every id that get_next_input hands out,  *)
(* whatever the interleaving of any number of savers.                      *)
THEOREM NoHoleHolds == Spec => []NoHole
<1>1. IInv => NoHole
  BY DEF IInv, NoHole, FileInv, TakerInv
<1> QED
  BY Invariance, <1>1, PTL

(* get_next_input hands out every id to one thread between two resets of   *)
(* next_id: the compare_exchange suffices for any number of fuzz_loops.    *)
THEOREM ExclusiveTakeHolds == Spec => []ExclusiveTake
<1>1. IInv => ExclusiveTake
  <2> SUFFICES ASSUME IInv, NEW i \in Ids PROVE taken[i] <= Rounds
    BY DEF ExclusiveTake
  <2>1. taken[i] <= IF Rounds = 0 THEN 0 ELSE IF i < next_id THEN Rounds ELSE Rounds - 1
    BY DEF IInv, OnceInv
  <2>2. taken[i] \in Nat /\ Rounds \in Nat
    BY RoundsNat DEF IInv, TypeOK
  <2> QED
    BY <2>1, <2>2
<1> QED
  BY Invariance, <1>1, PTL

(* The scan has no gaps, also after a restart. *)
THEOREM HandedInOrderHolds == Spec => []HandedInOrder
<1>1. IInv => HandedInOrder
  BY DEF IInv, Covered, HandedInOrder
<1> QED
  BY Invariance, <1>1, PTL

(* ce_progress never runs ahead of the scan. *)
THEOREM ProgressBehindHolds == Spec => []ProgressBehind
<1>1. IInv => ProgressBehind
  BY DEF IInv, ProgressInv, ProgressBehind
<1> QED
  BY Invariance, <1>1, PTL
-----------------------------------------------------------------------------
(* Depot implements Queue.  While no two saves of a directory have         *)
(* overlapped, the one saver of a directory works on the file behind its   *)
(* end, so that the files below the counter hold whole buffers, and the    *)
(* counter never moves back below an id that a taker has seen.             *)
BufInv ==
  /\ \A s \in Savers : saver[s].at # "idle" => saver[s].buf \in used /\ saver[s].buf \notin saved
  /\ \A r, s \in Savers : r # s /\ saver[r].at # "idle" /\ saver[s].at # "idle" => saver[r].buf # saver[s].buf

AloneInv ==
  /\ \A s \in Savers : saver[s].at # "idle" => saver[s].id = num[saver[s].kind]
  /\ \A r, s \in Savers :
       r # s /\ saver[r].at # "idle" /\ saver[s].at # "idle" => saver[r].kind # saver[s].kind

WholeInv ==
  /\ \A s \in Savers :
       /\ saver[s].at = "write" => file[saver[s].kind][saver[s].id] = <<>>
       /\ saver[s].at = "store" => file[saver[s].kind][saver[s].id] = Content(saver[s].buf)
  /\ \A i \in Ids : i < num[Normal] => file[Normal][i] # <<>>

AheadInv == \A t \in Takers : taker[t].at \in {"cas", "truncate", "progress", "read"} => taker[t].id < num[Normal]

RestoreInv == \A t \in Takers : taker[t].at = "restore" => taker[t].id = FirstId \/ taker[t].id \in Ids

QInv == BufInv /\ RestoreInv /\ (clash = {} => AloneInv /\ WholeInv /\ AheadInv)

(* Writing a buffer to the empty file gives its contents, which are not empty. *)
LEMMA OverlayEmpty ==
  ASSUME NEW b \in Bufs
  PROVE  Overlay(<<>>, b) = Content(b) /\ Content(b) # <<>>
<1>1. Size[b] \in Nat /\ Size[b] > 0
  BY BufsAssumption
<1>2. Len(<<>>) = 0
  OBVIOUS
<1>3. Overlay(<<>>, b) = [i \in 1 .. Size[b] |-> IF i <= Size[b] THEN b ELSE <<>>[i]]
  BY <1>1, <1>2 DEF Overlay
<1>4. Overlay(<<>>, b) = Content(b)
  BY <1>1, <1>3 DEF Content
<1>5. Content(b) \in Seq(Bufs) /\ Len(Content(b)) = Size[b]
  BY <1>1, ContentType DEF Content
<1> QED
  BY <1>1, <1>2, <1>4, <1>5

(* The initial state satisfies QInv. *)
LEMMA InitQInv == Init => QInv
<1> SUFFICES ASSUME Init PROVE QInv
  OBVIOUS
<1>1. BufInv /\ RestoreInv /\ AloneInv /\ AheadInv
  BY DEF Init, BufInv, RestoreInv, AloneInv, AheadInv, IdleSaver
<1>2. ASSUME NEW i \in Ids, i < num[Normal] PROVE file[Normal][i] # <<>>
  <2>1. Normal \in Kinds /\ num[Normal] = Len(Seeds) /\ Len(Seeds) \in Nat
    BY KindsAssumption, SeedsAssumption DEF Init
  <2>2. Seeds[i + 1] \in Bufs
    BY <1>2, <2>1, SeedsAssumption DEF Ids
  <2>3. file[Normal][i] = Content(Seeds[i + 1])
    BY <1>2, <2>1 DEF Init
  <2> QED
    BY <2>2, <2>3, OverlayEmpty
<1>3. WholeInv
  BY <1>2, Zenon DEF Init, WholeInv, IdleSaver
<1> QED
  BY <1>1, <1>3 DEF QInv

(* A step of a saver preserves QInv. *)
LEMMA SaveQInv ==
  ASSUME IInv, QInv, NEW s \in Savers, SaveStep(s)
  PROVE  QInv'
<1>t. /\ TypeOK /\ SaverInv /\ BufInv
      /\ saver \in [Savers -> SaverRec] /\ num \in [Kinds -> 0 .. MaxInputs]
      /\ file \in [Kinds -> [Ids -> Seq(Bufs)]] /\ saved \subseteq used /\ Normal \in Kinds
      /\ \A r \in Savers : saver[r].at # "idle" => saver[r].id \in Ids /\ saver[r].kind \in Kinds /\ saver[r].buf \in Bufs
  BY KindsAssumption, Zenon DEF IInv, QInv, TypeOK, SaverInv, SaverRec
<1>r. RestoreInv'
  BY DEF QInv, RestoreInv, SaveStep, SaveLoad, SaveCreate, SaveWrite, SaveStore, takeVars
<1>1. CASE \E k \in Kinds, b \in Bufs : SaveLoad(s, k, b)
  <2> PICK k \in Kinds, b \in Bufs : SaveLoad(s, k, b)
    BY <1>1
  <2>1. /\ saver[s].at = "idle" /\ b \notin used
        /\ saver' = [saver EXCEPT ![s] = [at |-> "create", kind |-> k, buf |-> b, id |-> num[k]]]
        /\ used' = used \cup {b} /\ clash' = IF Saving(s, k) THEN clash \cup {b} ELSE clash
        /\ UNCHANGED <<num, file, saved, taker>>
    BY DEF SaveLoad, takeVars
  <2>2. /\ saver'[s] = [at |-> "create", kind |-> k, buf |-> b, id |-> num[k]]
        /\ \A r \in Savers : r # s => saver'[r] = saver[r]
    BY <1>t, <2>1
  <2>3. BufInv'
    BY <1>t, <2>1, <2>2 DEF BufInv
  <2>4. ASSUME clash' = {} PROVE AloneInv' /\ WholeInv' /\ AheadInv'
    <3>1. clash = {} /\ ~Saving(s, k)
      BY <2>1, <2>4
    <3>2. AloneInv /\ WholeInv /\ AheadInv
      BY <3>1 DEF QInv
    <3>3. \A r \in Savers : r # s /\ saver[r].at # "idle" => saver[r].kind # k
      BY <3>1 DEF Saving
    <3>4. AloneInv'
      BY <2>1, <2>2, <3>2, <3>3 DEF AloneInv
    <3>5. WholeInv'
      <4>1. ASSUME NEW r \in Savers
            PROVE  /\ saver'[r].at = "write" => file[saver'[r].kind][saver'[r].id] = <<>>
                   /\ saver'[r].at = "store" => file[saver'[r].kind][saver'[r].id] = Content(saver'[r].buf)
        <5>1. CASE r = s
          BY <2>2, <5>1
        <5>2. CASE r # s
          BY <2>2, <3>2, <5>2, Zenon DEF WholeInv
        <5> QED
          BY <5>1, <5>2, Zenon
      <4> QED
        BY <2>1, <3>2, <4>1, Zenon DEF WholeInv
    <3>6. AheadInv'
      BY <2>1, <3>2 DEF AheadInv
    <3> QED
      BY <3>4, <3>5, <3>6
  <2> QED
    BY <1>r, <2>3, <2>4 DEF QInv
<1>2. CASE SaveCreate(s)
  <2> DEFINE k == saver[s].kind
             i == saver[s].id
  <2>1. /\ saver[s].at = "create" /\ k \in Kinds /\ i \in Ids
        /\ file' = [file EXCEPT ![k][i] = <<>>]
        /\ saver' = [saver EXCEPT ![s].at = "write"]
        /\ UNCHANGED <<num, used, clash, saved, taker>>
    BY <1>t, <1>2 DEF SaveCreate, takeVars
  <2>2. /\ saver'[s].at = "write" /\ saver'[s].kind = k /\ saver'[s].id = i /\ saver'[s].buf = saver[s].buf
        /\ \A r \in Savers : r # s => saver'[r] = saver[r]
    BY <1>t, <2>1 DEF SaverRec
  <2>3. BufInv'
    BY <1>t, <2>1, <2>2 DEF BufInv
  <2>4. ASSUME clash' = {} PROVE AloneInv' /\ WholeInv' /\ AheadInv'
    <3>1. AloneInv /\ WholeInv /\ AheadInv
      BY <2>1, <2>4 DEF QInv
    <3>2. AloneInv' /\ AheadInv'
      BY <2>1, <2>2, <3>1 DEF AloneInv, AheadInv
    <3>3. /\ file'[k][i] = <<>>
          /\ \A j \in Ids : j # i => file'[k][j] = file[k][j]
          /\ \A l \in Kinds : l # k => file'[l] = file[l]
      BY <1>t, <2>1
    <3>4. \A r \in Savers : r # s /\ saver[r].at # "idle" => saver[r].kind # k
      BY <2>1, <3>1 DEF AloneInv
    <3>5. \A j \in Ids : j < num[Normal] => file'[Normal][j] = file[Normal][j]
      <4>1. i = num[k]
        BY <2>1, <3>1 DEF AloneInv
      <4>2. \A j \in Ids : j < i => j # i
        BY <2>1 DEF Ids
      <4>3. CASE k = Normal
        BY <3>3, <4>1, <4>2, <4>3, Zenon
      <4>4. CASE k # Normal
        BY <1>t, <3>3, <4>4, Zenon
      <4> QED
        BY <4>3, <4>4
    <3>6. \A r \in Savers : r # s /\ saver[r].at # "idle" => file'[saver[r].kind] = file[saver[r].kind]
      BY <1>t, <3>3, <3>4, Zenon
    <3>7. WholeInv'
      <4>1. ASSUME NEW r \in Savers
            PROVE  /\ saver'[r].at = "write" => file'[saver'[r].kind][saver'[r].id] = <<>>
                   /\ saver'[r].at = "store" => file'[saver'[r].kind][saver'[r].id] = Content(saver'[r].buf)
        <5>1. CASE r = s
          BY <2>2, <3>3, <5>1, Zenon
        <5>2. CASE r # s
          <6>1. saver'[r] = saver[r]
            BY <2>2, <5>2
          <6>2. saver[r].at # "idle" => file'[saver[r].kind] = file[saver[r].kind]
            BY <3>6, <5>2, Zenon
          <6>3. /\ saver[r].at = "write" => file[saver[r].kind][saver[r].id] = <<>>
                /\ saver[r].at = "store" => file[saver[r].kind][saver[r].id] = Content(saver[r].buf)
            BY <3>1, Zenon DEF WholeInv
          <6> QED
            BY <6>1, <6>2, <6>3
        <5> QED
          BY <5>1, <5>2, Zenon
      <4>2. \A j \in Ids : j < num'[Normal] => file'[Normal][j] # <<>>
        BY <2>1, <3>1, <3>5 DEF WholeInv
      <4> QED
        BY <4>1, <4>2, Zenon DEF WholeInv
    <3> QED
      BY <3>2, <3>7
  <2> QED
    BY <1>r, <2>3, <2>4 DEF QInv
<1>3. CASE SaveWrite(s)
  <2> DEFINE k == saver[s].kind
             i == saver[s].id
             b == saver[s].buf
  <2>1. /\ saver[s].at = "write" /\ k \in Kinds /\ i \in Ids /\ b \in Bufs
        /\ file' = [file EXCEPT ![k][i] = Overlay(file[k][i], b)]
        /\ saver' = [saver EXCEPT ![s].at = "store"]
        /\ UNCHANGED <<num, used, clash, saved, taker>>
    BY <1>t, <1>3 DEF SaveWrite, takeVars
  <2>2. /\ saver'[s].at = "store" /\ saver'[s].kind = k /\ saver'[s].id = i /\ saver'[s].buf = b
        /\ \A r \in Savers : r # s => saver'[r] = saver[r]
    BY <1>t, <2>1 DEF SaverRec
  <2>3. BufInv'
    BY <1>t, <2>1, <2>2 DEF BufInv
  <2>4. ASSUME clash' = {} PROVE AloneInv' /\ WholeInv' /\ AheadInv'
    <3>1. AloneInv /\ WholeInv /\ AheadInv
      BY <2>1, <2>4 DEF QInv
    <3>2. AloneInv' /\ AheadInv'
      BY <2>1, <2>2, <3>1 DEF AloneInv, AheadInv
    <3>3. /\ file'[k][i] = Overlay(file[k][i], b)
          /\ \A j \in Ids : j # i => file'[k][j] = file[k][j]
          /\ \A l \in Kinds : l # k => file'[l] = file[l]
      BY <1>t, <2>1, Zenon
    <3>8. file'[k][i] = Content(b)
      BY <2>1, <3>1, <3>3, OverlayEmpty, Zenon DEF WholeInv
    <3>4. \A r \in Savers : r # s /\ saver[r].at # "idle" => saver[r].kind # k
      BY <2>1, <3>1 DEF AloneInv
    <3>5. \A j \in Ids : j < num[Normal] => file'[Normal][j] = file[Normal][j]
      <4>1. i = num[k]
        BY <2>1, <3>1 DEF AloneInv
      <4>2. \A j \in Ids : j < i => j # i
        BY <2>1 DEF Ids
      <4>3. CASE k = Normal
        BY <3>3, <4>1, <4>2, <4>3, Zenon
      <4>4. CASE k # Normal
        BY <1>t, <3>3, <4>4, Zenon
      <4> QED
        BY <4>3, <4>4
    <3>6. \A r \in Savers : r # s /\ saver[r].at # "idle" => file'[saver[r].kind] = file[saver[r].kind]
      BY <1>t, <3>3, <3>4, Zenon
    <3>7. WholeInv'
      <4>1. \A j \in Ids : j < num'[Normal] => file'[Normal][j] # <<>>
        BY <2>1, <3>1, <3>5, Zenon DEF WholeInv
      <4>2. ASSUME NEW r \in Savers
            PROVE  /\ saver'[r].at = "write" => file'[saver'[r].kind][saver'[r].id] = <<>>
                   /\ saver'[r].at = "store" => file'[saver'[r].kind][saver'[r].id] = Content(saver'[r].buf)
        <5>1. CASE r = s
          BY <2>2, <3>8, <5>1, Zenon
        <5>2. CASE r # s
          <6>1. saver'[r] = saver[r]
            BY <2>2, <5>2
          <6>2. saver[r].at # "idle" => file'[saver[r].kind] = file[saver[r].kind]
            BY <3>6, <5>2, Zenon
          <6>3. /\ saver[r].at = "write" => file[saver[r].kind][saver[r].id] = <<>>
                /\ saver[r].at = "store" => file[saver[r].kind][saver[r].id] = Content(saver[r].buf)
            BY <3>1 DEF WholeInv
          <6> QED
            BY <6>1, <6>2, <6>3, Zenon
        <5> QED
          BY <5>1, <5>2, Zenon
      <4> QED
        BY <4>1, <4>2, Zenon DEF WholeInv
    <3> QED
      BY <3>2, <3>7
  <2> QED
    BY <1>r, <2>3, <2>4 DEF QInv
<1>4. CASE SaveStore(s)
  <2> DEFINE k == saver[s].kind
             i == saver[s].id
             b == saver[s].buf
  <2>1. /\ saver[s].at = "store" /\ k \in Kinds /\ i \in Ids /\ b \in Bufs
        /\ num' = [num EXCEPT ![k] = i + 1]
        /\ saver' = [saver EXCEPT ![s] = IdleSaver]
        /\ saved' \subseteq saved \cup {b}
        /\ UNCHANGED <<file, used, clash, taker>>
    BY <1>t, <1>4, Zenon DEF SaveStore, takeVars
  <2>2. /\ saver'[s].at = "idle"
        /\ \A r \in Savers : r # s => saver'[r] = saver[r]
    BY <1>t, <2>1, Zenon DEF IdleSaver
  <2>3. BufInv'
    BY <1>t, <2>1, <2>2 DEF BufInv
  <2>4. ASSUME clash' = {} PROVE AloneInv' /\ WholeInv' /\ AheadInv'
    <3>1. AloneInv /\ WholeInv /\ AheadInv
      BY <2>1, <2>4 DEF QInv
    <3>2. /\ i = num[k] /\ num'[k] = num[k] + 1
          /\ \A l \in Kinds : l # k => num'[l] = num[l]
      BY <1>t, <2>1, <3>1, Zenon DEF AloneInv
    <3>3. \A r \in Savers : r # s /\ saver[r].at # "idle" => saver[r].kind # k
      BY <2>1, <3>1, Zenon DEF AloneInv
    <3>4. AloneInv'
      BY <1>t, <2>1, <2>2, <3>1, <3>2, <3>3 DEF AloneInv
    <3>5. AheadInv'
      <4>1. num[Normal] \in Nat /\ num'[Normal] \in Nat /\ num[Normal] <= num'[Normal]
        <5>1. num[Normal] \in Nat /\ num[k] \in Nat
          BY <1>t, <2>1, SeedsAssumption
        <5>2. num'[Normal] = num[Normal] \/ num'[Normal] = num[Normal] + 1
          BY <1>t, <2>1, <3>2
        <5> QED
          BY <5>1, <5>2
      <4>2. \A t \in Takers : taker[t].id \in Nat
        BY <1>t, Zenon DEF TypeOK, TakerRec
      <4> QED
        BY <2>1, <3>1, <4>1, <4>2 DEF AheadInv
    <3>6. ASSUME NEW j \in Ids, j < num'[Normal] PROVE file[Normal][j] # <<>>
      <4>1. CASE j < num[Normal]
        BY <3>1, <4>1 DEF WholeInv
      <4>2. CASE ~(j < num[Normal])
        <5>1. k = Normal /\ j = i
          BY <1>t, <3>2, <3>6, <4>2, SeedsAssumption DEF Ids
        <5>2. file[k][i] = Content(b) /\ Content(b) # <<>>
          BY <2>1, <3>1, OverlayEmpty, Zenon DEF WholeInv
        <5> QED
          BY <5>1, <5>2, Zenon
      <4> QED
        BY <4>1, <4>2, Zenon
    <3>7. WholeInv'
      BY <2>1, <2>2, <3>1, <3>6 DEF WholeInv
    <3> QED
      BY <3>4, <3>5, <3>7
  <2> QED
    BY <1>r, <2>3, <2>4, Zenon DEF QInv
<1> QED
  BY <1>1, <1>2, <1>3, <1>4, Zenon DEF SaveStep

(* A step of a taker preserves QInv. *)
LEMMA TakeQInv ==
  ASSUME IInv, QInv, NEW t \in Takers, TakeStep(t)
  PROVE  QInv'
<1>t. TypeOK /\ taker \in [Takers -> TakerRec]
  BY DEF IInv, TypeOK
<1>1. UNCHANGED <<num, file, saver, used, clash, saved>>
  BY DEF TakeStep, LoadProgress, RestoreNextId, TakeLoad, TakeCompare, TakeCas, ProgressTruncate,
         ProgressWrite, GetInputBuf, saveVars
<1>2. BufInv'
  BY <1>1 DEF QInv, BufInv
<1>4. RestoreInv'
  <2>1. CASE LoadProgress(t)
    <3>1. progress = Empty \/ progress = FirstId \/ progress \in Ids
      BY DEF IInv, ProgressInv
    <3> QED
      BY <1>t, <2>1, <3>1 DEF QInv, RestoreInv, LoadProgress, TakerRec
  <2>2. CASE ~LoadProgress(t)
    BY <1>t, <2>2 DEF QInv, RestoreInv, TakeStep, RestoreNextId, TakeLoad, TakeCompare, TakeCas,
                      ProgressTruncate, ProgressWrite, GetInputBuf, TakerRec
  <2> QED
    BY <2>1, <2>2
<1>3. ASSUME clash' = {} PROVE AloneInv' /\ WholeInv' /\ AheadInv'
  <2>1. AloneInv /\ WholeInv /\ AheadInv
    BY <1>1, <1>3, Zenon DEF QInv
  <2>2. AloneInv' /\ WholeInv'
    BY <1>1, <2>1 DEF AloneInv, WholeInv
  <2>3. AheadInv'
    BY <1>t, <1>1, <2>1 DEF AheadInv, TakeStep, LoadProgress, RestoreNextId, TakeLoad, TakeCompare, TakeCas,
                            ProgressTruncate, ProgressWrite, GetInputBuf, TakerRec
  <2> QED
    BY <2>2, <2>3
<1> QED
  BY <1>2, <1>3, <1>4 DEF QInv

(* QInv is an invariant of the queue. *)
LEMMA QInvariance == Spec => []QInv
<1>1. IInv /\ QInv /\ [Next]_vars => QInv'
  <2> SUFFICES ASSUME IInv, QInv, [Next]_vars PROVE QInv'
    OBVIOUS
  <2>1. CASE Next
    BY <2>1, SaveQInv, TakeQInv, Zenon DEF Next
  <2>2. CASE UNCHANGED vars
    BY <2>2, Zenon DEF vars, QInv, BufInv, RestoreInv, AloneInv, WholeInv, AheadInv
  <2> QED
    BY <2>1, <2>2
<1> QED
  BY InitQInv, Invariance, <1>1, PTL DEF Spec

(* A saver that is alone in its directory leaves the files below the       *)
(* counter as they are.                                                    *)
LEMMA FilesKept ==
  ASSUME IInv, QInv, clash = {}, NEW s \in Savers, SaveCreate(s) \/ SaveWrite(s)
  PROVE  \A j \in Ids : j < num[Normal] => file'[Normal][j] = file[Normal][j]
<1> DEFINE k == saver[s].kind
           i == saver[s].id
<1>1. file \in [Kinds -> [Ids -> Seq(Bufs)]] /\ Normal \in Kinds
  BY KindsAssumption DEF IInv, TypeOK
<1>2. saver[s].at # "idle"
  BY Zenon DEF SaveCreate, SaveWrite
<1>3. k \in Kinds /\ i \in Ids /\ i = num[k]
  BY <1>2 DEF IInv, TypeOK, SaverRec, SaverInv, QInv, AloneInv
<1>4. \E c : file' = [file EXCEPT ![k][i] = c]
  BY Zenon DEF SaveCreate, SaveWrite
<1>5. /\ \A j \in Ids : j # i => file'[k][j] = file[k][j]
      /\ \A l \in Kinds : l # k => file'[l] = file[l]
  BY <1>1, <1>3, <1>4
<1>6. \A j \in Ids : j < i => j # i
  BY <1>3 DEF Ids
<1>7. CASE k = Normal
  BY <1>3, <1>5, <1>6, <1>7, Zenon
<1>8. CASE k # Normal
  BY <1>1, <1>5, <1>8, Zenon
<1> QED
  BY <1>7, <1>8

(* The initial state maps to the initial state of Queue. *)
LEMMA InitFIFO == Init => FIFO!Init
<1> SUFFICES ASSUME Init PROVE FIFO!Init
  OBVIOUS
<1>0. Normal \in Kinds /\ Len(Seeds) \in Nat /\ Len(Seeds) <= MaxInputs /\ MaxInputs \in Nat
  BY KindsAssumption, SeedsAssumption
<1>1. Waiting = [i \in 1 .. Len(Seeds) |-> Images[Seeds[i]]]
  <2>1. num[Normal] = Len(Seeds)
    BY <1>0, Zenon DEF Init
  <2>2. \A i \in 1 .. Len(Seeds) : file[Normal][i - 1] = Content(Seeds[i])
    BY <1>0 DEF Init, Ids
  <2>3. \A i \in 1 .. Len(Seeds) : Images[Seeds[i]] = Content(Seeds[i])
    BY SeedsAssumption DEF Images
  <2> QED
    BY <2>1, <2>2, <2>3, Zenon DEF Waiting
<1>2. next_id = 0 /\ Given = {} /\ Hands = [t \in Takers |-> <<>>] /\ scanned = {} /\ clash = {}
  BY DEF Init, Given, Hands, InHand
<1>3. saved = {Seeds[i] : i \in 1 .. Len(Seeds)}
  BY DEF Init, SeedBufs
<1> QED
  BY <1>1, <1>2, <1>3 DEF FIFO!Init

(* Until saves overlap, a step of a saver is a step of Queue or a stutter. *)
LEMMA SaveFIFO ==
  ASSUME IInv, QInv, NEW s \in Savers, SaveStep(s), clash' = {}
  PROVE  FIFO!Next \/ UNCHANGED FIFO!vars
<1>0. /\ num \in [Kinds -> 0 .. MaxInputs] /\ Normal \in Kinds /\ MaxInputs \in Nat /\ num[Normal] \in 0 .. MaxInputs
      /\ file \in [Kinds -> [Ids -> Seq(Bufs)]]
  BY KindsAssumption, SeedsAssumption, Zenon DEF IInv, TypeOK
<1>1. /\ clash = {} /\ clash' = clash
      /\ UNCHANGED <<next_id, taken, taker, scanned>>
  BY DEF SaveStep, SaveLoad, SaveCreate, SaveWrite, SaveStore, takeVars
<1>2. Given' = Given
  BY <1>1, Zenon DEF Given
<1>3. ASSUME \A j \in Ids : j < num[Normal] => file'[Normal][j] = file[Normal][j] PROVE Hands' = Hands
  <2>1. \A t \in Takers : InHand(t) => taker[t].id \in Ids /\ taker[t].id < num[Normal]
    BY <1>1, Zenon DEF IInv, TakerInv, QInv, AheadInv, InHand
  <2> QED
    BY <1>1, <1>3, <2>1, Zenon DEF Hands, InHand
<1>4. ASSUME \A j \in Ids : j < num[Normal] => file'[Normal][j] = file[Normal][j], num' = num, saved' = saved
      PROVE  UNCHANGED FIFO!vars
  <2>3. \A i \in 1 .. num[Normal] : i - 1 \in Ids /\ i - 1 < num[Normal]
    BY <1>0 DEF Ids
  <2>1. \A i \in 1 .. num[Normal] : file'[Normal][i - 1] = file[Normal][i - 1]
    BY <1>4, <2>3, Zenon
  <2>2. Waiting' = Waiting
    BY <1>4, <2>1, Zenon DEF Waiting
  <2> QED
    BY <1>1, <1>2, <1>3, <1>4, <2>2, Zenon DEF FIFO!vars
<1>5. CASE \E k \in Kinds, b \in Bufs : SaveLoad(s, k, b)
  BY <1>4, <1>5, Zenon DEF SaveLoad
<1>6. CASE SaveCreate(s) \/ SaveWrite(s)
  <2>1. \A j \in Ids : j < num[Normal] => file'[Normal][j] = file[Normal][j]
    BY <1>1, <1>6, FilesKept
  <2> QED
    BY <1>4, <1>6, <2>1, Zenon DEF SaveCreate, SaveWrite
<1>7. CASE SaveStore(s)
  <2> DEFINE b == saver[s].buf
  <2>1. /\ saver[s].at = "store" /\ saver[s].kind \in Kinds /\ saver[s].id \in Ids /\ b \in Bufs
        /\ num' = [num EXCEPT ![saver[s].kind] = saver[s].id + 1]
        /\ saved' = IF saver[s].kind = Normal THEN saved \cup {b} ELSE saved
        /\ file' = file
    BY <1>7, Zenon DEF SaveStore, IInv, TypeOK, SaverInv, SaverRec
  <2>2. CASE saver[s].kind = Normal
    <3>1. /\ saver[s].id = num[Normal] /\ b \notin saved /\ file[Normal][num[Normal]] = Content(b)
      BY <1>1, <2>1, <2>2, Zenon DEF QInv, BufInv, AloneInv, WholeInv
    <3>2. num'[Normal] = num[Normal] + 1
      BY <1>0, <2>1, <2>2, <3>1, Zenon
    <3>3. Waiting' = Append(Waiting, Images[b])
      <4>1. Waiting' = [i \in 1 .. num[Normal] + 1 |-> file[Normal][i - 1]]
        BY <2>1, <3>2, Zenon DEF Waiting
      <4>2. Images[b] = file[Normal][num[Normal]]
        BY <2>1, <3>1 DEF Images
      <4>3. \A i \in 1 .. num[Normal] : file[Normal][i - 1] \in Seq(Bufs)
        BY <1>0 DEF Ids
      <4>4. Waiting \in Seq(Seq(Bufs)) /\ Len(Waiting) = num[Normal]
        <5>1. num[Normal] \in Nat
          BY <1>0
        <5>2. Waiting \in [1 .. num[Normal] -> Seq(Bufs)]
          BY <4>3, Zenon DEF Waiting
        <5> QED
          BY <5>1, <5>2
      <4>5. Append(Waiting, Images[b]) = [i \in 1 .. num[Normal] + 1 |-> IF i = num[Normal] + 1 THEN Images[b] ELSE Waiting[i]]
        BY <1>0, <4>4
      <4>6. \A i \in 1 .. num[Normal] + 1 : file[Normal][i - 1] = IF i = num[Normal] + 1 THEN Images[b] ELSE Waiting[i]
        BY <1>0, <4>2 DEF Waiting
      <4> QED
        BY <4>1, <4>5, <4>6, Zenon
    <3>4. Hands' = Hands
      BY <1>3, <2>1, Zenon
    <3>5. FIFO!Put(b)
      BY <1>1, <1>2, <2>1, <2>2, <3>1, <3>3, <3>4, Zenon DEF FIFO!Put
    <3> QED
      BY <2>1, <3>5, Zenon DEF FIFO!Next
  <2>3. CASE saver[s].kind # Normal
    <3>1. num'[Normal] = num[Normal] /\ saved' = saved
      BY <1>0, <2>1, <2>3, Zenon
    <3>2. Waiting' = Waiting
      BY <2>1, <3>1, Zenon DEF Waiting
    <3>3. Hands' = Hands
      BY <1>3, <2>1
    <3> QED
      BY <1>1, <1>2, <3>1, <3>2, <3>3, Zenon DEF FIFO!vars
  <2> QED
    BY <2>2, <2>3, Zenon
<1> QED
  BY <1>5, <1>6, <1>7, Zenon DEF SaveStep

(* Until saves overlap, a step of a taker is a step of Queue or a stutter. *)
LEMMA TakeFIFO ==
  ASSUME IInv, QInv, NEW t \in Takers, TakeStep(t), clash' = {}
  PROVE  FIFO!Next \/ UNCHANGED FIFO!vars
<1>0. /\ Normal \in Kinds /\ num[Normal] \in Nat /\ next_id \in Nat /\ taken \in [Ids -> Nat]
      /\ taker \in [Takers -> TakerRec]
  BY KindsAssumption, SeedsAssumption DEF IInv, TypeOK
<1>1. clash = {} /\ UNCHANGED <<num, exists, file, saved, clash>>
  BY DEF TakeStep, LoadProgress, RestoreNextId, TakeLoad, TakeCompare, TakeCas, ProgressTruncate,
         ProgressWrite, GetInputBuf, saveVars
<1>2. Waiting' = Waiting
  BY <1>1 DEF Waiting
<1>3. AheadInv /\ WholeInv
  BY <1>1 DEF QInv
<1>4. CASE RestoreNextId(t)
  <2>1. /\ taker[t].at = "restore" /\ next_id' = taker[t].id /\ taker' = [taker EXCEPT ![t].at = "idle"]
        /\ UNCHANGED <<taken, scanned>>
    BY <1>4 DEF RestoreNextId
  <2>2. Restart /\ Covered(taken, taker[t].id) /\ taker[t].id \in Nat /\ (taker[t].id = FirstId \/ taker[t].id \in Ids)
    BY <1>0, <2>1, Zenon DEF IInv, TakerInv, QInv, RestoreInv, TakerRec
  <2>3. \A i \in FirstId .. taker[t].id - 1 : i \in Given
    BY <2>2, RestartAssumption, SeedsAssumption DEF Covered, Given, Ids
  <2>4. Given' = Given /\ Hands' = Hands
    BY <1>0, <1>1, <2>1 DEF Given, Hands, InHand, TakerRec
  <2>5. FIFO!Rewind
    BY <1>1, <1>2, <2>1, <2>2, <2>3, <2>4, Zenon DEF FIFO!Rewind
  <2> QED
    BY <2>5 DEF FIFO!Next
<1>5. CASE TakeCas(t) /\ next_id = taker[t].id
  <2>1. /\ taker[t].at = "cas" /\ next_id' = next_id + 1
        /\ taken' = [taken EXCEPT ![next_id] = taken[next_id] + 1]
        /\ taker' = [taker EXCEPT ![t].at = "truncate"]
        /\ UNCHANGED scanned
    BY <1>5 DEF TakeCas
  <2>2. next_id \in Ids /\ next_id < num[Normal]
    BY <1>3, <1>5, <2>1 DEF IInv, TakerInv, AheadInv
  <2>3. Given' = Given \cup {next_id}
    BY <1>0, <2>1, <2>2 DEF Given
  <2>4. Len(Waiting) = num[Normal] /\ Waiting[next_id + 1] = file[Normal][next_id]
    BY <1>0, <2>2 DEF Waiting
  <2>5. Hands[t] = <<>>
    BY <2>1 DEF Hands, InHand
  <2>6. Hands' = [Hands EXCEPT ![t] = file[Normal][next_id]]
    BY <1>0, <1>1, <1>5, <2>1, Zenon DEF Hands, InHand, TakerRec
  <2>7. FIFO!Take(t)
    BY <1>1, <1>2, <2>1, <2>2, <2>3, <2>4, <2>5, <2>6 DEF FIFO!Take
  <2> QED
    BY <2>7 DEF FIFO!Next
<1>6. CASE GetInputBuf(t)
  <2>1. /\ taker[t].at = "read" /\ taker[t].id \in exists[Normal] /\ taker[t].id \in Ids /\ taker[t].id < num[Normal]
        /\ taker' = [taker EXCEPT ![t].at = "idle"]
        /\ UNCHANGED <<next_id, taken>>
    BY <1>3, <1>6 DEF GetInputBuf, IInv, TakerInv, AheadInv
  <2>2. scanned' = scanned \cup {file[Normal][taker[t].id]}
    BY <1>6, <2>1 DEF GetInputBuf
  <2>3. Hands[t] = file[Normal][taker[t].id]
    BY <2>1 DEF Hands, InHand
  <2>4. Hands[t] # <<>>
    BY <1>3, <2>1, <2>3 DEF WholeInv
  <2>5. Hands' = [Hands EXCEPT ![t] = <<>>]
    BY <1>0, <1>1, <2>1, Zenon DEF Hands, InHand, TakerRec
  <2>6. Given' = Given
    BY <2>1 DEF Given
  <2>7. FIFO!Read(t)
    BY <1>1, <1>2, <2>1, <2>2, <2>3, <2>4, <2>5, <2>6, Zenon DEF FIFO!Read
  <2> QED
    BY <2>7 DEF FIFO!Next
<1>7. CASE ~RestoreNextId(t) /\ ~(TakeCas(t) /\ next_id = taker[t].id) /\ ~GetInputBuf(t)
  <2>1. /\ UNCHANGED <<next_id, taken, scanned>>
        /\ \A r \in Takers : r # t => taker'[r] = taker[r]
        /\ InHand(t)' = InHand(t)
        /\ InHand(t) => taker'[t].id = taker[t].id
    <3>1. CASE LoadProgress(t)
      BY <1>0, <3>1 DEF LoadProgress, InHand, TakerRec
    <3>2. CASE TakeLoad(t)
      BY <1>0, <3>2 DEF TakeLoad, InHand, TakerRec
    <3>3. CASE TakeCompare(t)
      BY <1>0, <3>3 DEF TakeCompare, InHand, TakerRec
    <3>4. CASE TakeCas(t)
      BY <1>0, <1>7, <3>4 DEF TakeCas, InHand, TakerRec
    <3>5. CASE ProgressTruncate(t)
      BY <1>0, <3>5 DEF ProgressTruncate, InHand, TakerRec
    <3>6. CASE ProgressWrite(t)
      BY <1>0, <3>6 DEF ProgressWrite, InHand, TakerRec
    <3> QED
      BY <1>7, <3>1, <3>2, <3>3, <3>4, <3>5, <3>6, Zenon DEF TakeStep
  <2>2. Given' = Given
    BY <2>1, Zenon DEF Given
  <2>3. Hands' = Hands
    BY <1>1, <2>1 DEF Hands, InHand
  <2> QED
    BY <1>1, <1>2, <2>1, <2>2, <2>3, Zenon DEF FIFO!vars
<1> QED
  BY <1>4, <1>5, <1>6, <1>7, Zenon

(* The seed queue implements the abstract queue for any number of savers,  *)
(* takers, buffers and ids, until saves of a directory overlap.            *)
THEOREM Implementation == Spec => ImplementsQueue
<1>1. IInv /\ QInv /\ [Next]_vars => [FIFO!Next]_FIFO!vars
  <2> SUFFICES ASSUME IInv, QInv, [Next]_vars PROVE FIFO!Next \/ UNCHANGED FIFO!vars
    OBVIOUS
  <2>1. CASE clash' # {}
    BY <2>1 DEF FIFO!Next
  <2>2. CASE clash' = {} /\ Next
    BY <2>2, SaveFIFO, TakeFIFO DEF Next
  <2>3. CASE UNCHANGED vars
    <3>1. UNCHANGED <<num, file, taker, taken, next_id, scanned, saved, clash>>
      BY <2>3, Zenon DEF vars
    <3>2. Waiting' = Waiting /\ Given' = Given /\ Hands' = Hands
      BY <3>1 DEF Waiting, Given, Hands, InHand
    <3> QED
      BY <3>1, <3>2 DEF FIFO!vars
  <2> QED
    BY <2>1, <2>2, <2>3
<1> QED
  BY InitFIFO, Invariance, QInvariance, <1>1, PTL DEF Spec, ImplementsQueue, FIFO!Spec
=============================================================================
