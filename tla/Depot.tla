------------------------------- MODULE Depot -------------------------------
(***************************************************************************)
(* The seed queue of the fuzzer (fuzzer/src/depot.rs, file.rs).            *)
(*                                                                         *)
(* Savers (one grader per job, and the main thread when it syncs seeds)    *)
(* call save(); takers (one fuzz_loop thread per job) call                 *)
(* get_next_input() and then read the file of the id they got.  Every      *)
(* atomic load, store and compare_exchange and every file operation is a   *)
(* step of its own: the code holds no lock across any of them.             *)
(*                                                                         *)
(* A file is a sequence of cells.  Saving buffer b creates (truncates) the *)
(* file and then overlays its first Size[b] cells with b, so two savers    *)
(* that picked the same id can leave a file that is neither's buffer.      *)
(* Every save has a buffer of its own, so that histories can name it.      *)
(***************************************************************************)
EXTENDS Integers, Sequences, FiniteSets

CONSTANTS
  Savers,     \* threads that call Depot::save
  Takers,     \* fuzz_loop threads
  Bufs,       \* the buffers that can be saved, one save each
  NoBuf,
  Size,       \* Size[b]: length of buffer b
  Kinds,      \* the statuses save() has a directory for
  MaxInputs,  \* bound: ids of a directory are 0 .. MaxInputs - 1
  Seeds,      \* what sync_depot saved before the threads started
  Restart,    \* the fuzzer was started with input directory "-"
  FirstId     \* with Restart: the id that ce_progress holds

Normal == "Normal"
Ids == 0 .. MaxInputs - 1

ASSUME BufsAssumption == Size \in [Bufs -> Nat \ {0}] /\ NoBuf \notin Bufs
ASSUME KindsAssumption == Normal \in Kinds /\ Kinds \subseteq {"Normal", "Timeout", "Crash"}
ASSUME SeedsAssumption ==
  /\ MaxInputs \in Nat /\ Seeds \in Seq(Bufs) /\ Len(Seeds) <= MaxInputs
  /\ \A i, j \in 1 .. Len(Seeds) : Seeds[i] = Seeds[j] => i = j
ASSUME TakersAssumption == IsFiniteSet(Takers)
ASSUME RestartAssumption == Restart \in BOOLEAN /\ FirstId \in Nat

VARIABLES
  num,        \* num_inputs, num_hangs, num_crashes
  exists,     \* ids that have a file, per directory
  file,       \* contents of the files
  next_id,
  progress,   \* contents of the file ce_progress; Empty when it has none
  saver,      \* where each saver is in save_input, and its locals
  taker,      \* where each taker is in get_next_input, and its local id
  used,       \* buffers whose save has begun
  clash,      \* history: buffers whose save began during another in its directory
  saved,      \* history: Normal buffers whose save has returned
  taken,      \* history: how often get_next_input has returned an id
  scanned     \* history: what get_input_buf has returned to takers

saveVars == <<num, exists, file, saver, used, clash, saved>>
takeVars == <<next_id, progress, taker, taken, scanned>>
vars == <<num, exists, file, saver, used, clash, saved, next_id, progress, taker, taken, scanned>>

Empty == -1
SeedBufs == {Seeds[i] : i \in 1 .. Len(Seeds)}
Content(b) == [i \in 1 .. Size[b] |-> b]

(* write_all at offset 0 of a file another saver may have written already. *)
Overlay(old, b) ==
  [i \in 1 .. (IF Size[b] > Len(old) THEN Size[b] ELSE Len(old)) |->
     IF i <= Size[b] THEN b ELSE old[i]]

(* Another saver is at work in directory k. *)
Saving(s, k) == \E r \in Savers \ {s} : saver[r].at # "idle" /\ saver[r].kind = k

IdleSaver == [at |-> "idle", kind |-> Normal, buf |-> NoBuf, id |-> 0]

(* Depot::new, then sync_depot has saved the seeds in the main thread. *)
Init ==
  /\ num = [k \in Kinds |-> IF k = Normal THEN Len(Seeds) ELSE 0]
  /\ exists = [k \in Kinds |-> IF k = Normal THEN 0 .. Len(Seeds) - 1 ELSE {}]
  /\ file = [k \in Kinds |-> [i \in Ids |->
               IF k = Normal /\ i < Len(Seeds) THEN Content(Seeds[i + 1]) ELSE <<>>]]
  /\ saver = [s \in Savers |-> IdleSaver]
  /\ used = SeedBufs
  /\ clash = {}
  /\ saved = SeedBufs
  /\ next_id = 0
  /\ progress = IF Restart THEN FirstId ELSE Empty
  /\ taker = [t \in Takers |-> [at |-> IF Restart THEN "start" ELSE "idle", id |-> 0]]
  /\ taken = [i \in Ids |-> 0]
  /\ scanned = {}

-----------------------------------------------------------------------------
(* Faulty variants of the operations follow the word "Bug"; no behaviour   *)
(* of Spec uses them.                                                      *)

BugReserveFirst(s, k, b) ==
  /\ saver[s].at = "idle"
  /\ b \notin used
  /\ num[k] < MaxInputs
  /\ num' = [num EXCEPT ![k] = @ + 1]
  /\ saver' = [saver EXCEPT ![s] = [at |-> "create", kind |-> k, buf |-> b, id |-> num[k]]]
  /\ used' = used \cup {b}
  /\ clash' = IF Saving(s, k) THEN clash \cup {b} ELSE clash
  /\ UNCHANGED <<exists, file, saved, takeVars>>

(* save_input: load the counter ... *)
SaveLoad(s, k, b) ==
  /\ saver[s].at = "idle"
  /\ b \notin used
  /\ num[k] < MaxInputs
  /\ saver' = [saver EXCEPT ![s] = [at |-> "create", kind |-> k, buf |-> b, id |-> num[k]]]
  /\ used' = used \cup {b}
  /\ clash' = IF Saving(s, k) THEN clash \cup {b} ELSE clash
  /\ UNCHANGED <<num, exists, file, saved, takeVars>>

BugPublishAtCreate(s) ==
  /\ saver[s].at = "create"
  /\ LET k == saver[s].kind
         i == saver[s].id
     IN  /\ exists' = [exists EXCEPT ![k] = @ \cup {i}]
         /\ file' = [file EXCEPT ![k][i] = <<>>]
         /\ num' = [num EXCEPT ![k] = i + 1]
  /\ saver' = [saver EXCEPT ![s].at = "write"]
  /\ UNCHANGED <<used, clash, saved, takeVars>>

(* ... File::create, which truncates a file that exists ... *)
SaveCreate(s) ==
  /\ saver[s].at = "create"
  /\ LET k == saver[s].kind
         i == saver[s].id
     IN  /\ exists' = [exists EXCEPT ![k] = @ \cup {i}]
         /\ file' = [file EXCEPT ![k][i] = <<>>]
  /\ saver' = [saver EXCEPT ![s].at = "write"]
  /\ UNCHANGED <<num, used, clash, saved, takeVars>>

(* ... write_all ... *)
SaveWrite(s) ==
  /\ saver[s].at = "write"
  /\ file' = [file EXCEPT ![saver[s].kind][saver[s].id] = Overlay(@, saver[s].buf)]
  /\ saver' = [saver EXCEPT ![s].at = "store"]
  /\ UNCHANGED <<num, exists, used, clash, saved, takeVars>>

(* ... and store id + 1, whatever the counter has become meanwhile. *)
SaveStore(s) ==
  /\ saver[s].at = "store"
  /\ num' = [num EXCEPT ![saver[s].kind] = saver[s].id + 1]
  /\ saved' = IF saver[s].kind = Normal THEN saved \cup {saver[s].buf} ELSE saved
  /\ saver' = [saver EXCEPT ![s] = IdleSaver]
  /\ UNCHANGED <<exists, file, used, clash, takeVars>>

-----------------------------------------------------------------------------
(* load_cached_next_id, called by every fuzz_loop thread of a restarted    *)
(* fuzzer: the read panics on an empty file and the thread is gone ...     *)
LoadProgress(t) ==
  /\ taker[t].at = "start"
  /\ taker' = [taker EXCEPT ![t] = IF progress = Empty THEN [at |-> "dead", id |-> 0]
                                   ELSE [at |-> "restore", id |-> progress]]
  /\ UNCHANGED <<next_id, progress, taken, scanned, saveVars>>

BugRestoreAgain(t) ==
  /\ taker[t].at \in {"restore", "idle"}
  /\ next_id' = taker[t].id
  /\ taker' = [taker EXCEPT ![t].at = "idle"]
  /\ UNCHANGED <<progress, taken, scanned, saveVars>>

(* ... otherwise next_id is stored, over whatever it has become. *)
RestoreNextId(t) ==
  /\ taker[t].at = "restore"
  /\ next_id' = taker[t].id
  /\ taker' = [taker EXCEPT ![t].at = "idle"]
  /\ UNCHANGED <<progress, taken, scanned, saveVars>>

(* get_next_input: load next_id ... *)
TakeLoad(t) ==
  /\ taker[t].at = "idle"
  /\ taker' = [taker EXCEPT ![t] = [at |-> "compare", id |-> next_id]]
  /\ UNCHANGED <<next_id, progress, taken, scanned, saveVars>>

BugCompareNext(t) ==
  /\ taker[t].at = "compare"
  /\ taker' = [taker EXCEPT ![t].at = IF taker[t].id + 1 < num[Normal] THEN "cas" ELSE "idle"]
  /\ UNCHANGED <<next_id, progress, taken, scanned, saveVars>>

(* ... compare it with num_inputs; None ends the call ... *)
TakeCompare(t) ==
  /\ taker[t].at = "compare"
  /\ taker' = [taker EXCEPT ![t].at = IF taker[t].id < num[Normal] THEN "cas" ELSE "idle"]
  /\ UNCHANGED <<next_id, progress, taken, scanned, saveVars>>

(* ... compare_exchange; a thread that loses it gets None ... *)
TakeCas(t) ==
  /\ taker[t].at = "cas"
  /\ IF next_id = taker[t].id
       THEN /\ next_id' = next_id + 1
            /\ taken' = [taken EXCEPT ![next_id] = @ + 1]
            /\ taker' = [taker EXCEPT ![t].at = "truncate"]
       ELSE /\ taker' = [taker EXCEPT ![t].at = "idle"]
            /\ UNCHANGED <<next_id, taken>>
  /\ UNCHANGED <<progress, scanned, saveVars>>

(* ... and fs::write of ce_progress, which truncates and then writes. *)
ProgressTruncate(t) ==
  /\ taker[t].at = "truncate"
  /\ progress' = Empty
  /\ taker' = [taker EXCEPT ![t].at = "progress"]
  /\ UNCHANGED <<next_id, taken, scanned, saveVars>>

BugProgressNext(t) ==
  /\ taker[t].at = "progress"
  /\ progress' = taker[t].id + 1
  /\ taker' = [taker EXCEPT ![t].at = "read"]
  /\ UNCHANGED <<next_id, taken, scanned, saveVars>>

ProgressWrite(t) ==
  /\ taker[t].at = "progress"
  /\ progress' = taker[t].id
  /\ taker' = [taker EXCEPT ![t].at = "read"]
  /\ UNCHANGED <<next_id, taken, scanned, saveVars>>

(* get_input_buf(id) by the fuzz_loop that was given id; None (no such     *)
(* file) skips the input.                                                  *)
GetInputBuf(t) ==
  /\ taker[t].at = "read"
  /\ scanned' = IF taker[t].id \in exists[Normal]
                THEN scanned \cup {file[Normal][taker[t].id]} ELSE scanned
  /\ taker' = [taker EXCEPT ![t].at = "idle"]
  /\ UNCHANGED <<next_id, progress, taken, saveVars>>

-----------------------------------------------------------------------------
SaveStep(s) ==
  \/ \E k \in Kinds, b \in Bufs : SaveLoad(s, k, b)
  \/ SaveCreate(s)
  \/ SaveWrite(s)
  \/ SaveStore(s)

TakeStep(t) ==
  \/ LoadProgress(t)
  \/ RestoreNextId(t)
  \/ TakeLoad(t)
  \/ TakeCompare(t)
  \/ TakeCas(t)
  \/ ProgressTruncate(t)
  \/ ProgressWrite(t)
  \/ GetInputBuf(t)

Next == (\E s \in Savers : SaveStep(s)) \/ (\E t \in Takers : TakeStep(t))

Spec == Init /\ [][Next]_vars

(* A save that was begun finishes, and a fuzz_loop keeps polling.  No      *)
(* fairness for the start of a save: graders need not find anything.       *)
FairSpec ==
  /\ Spec
  /\ \A s \in Savers : WF_vars(SaveCreate(s) \/ SaveWrite(s) \/ SaveStore(s))
  /\ \A t \in Takers : WF_vars(TakeStep(t))

-----------------------------------------------------------------------------
SaverRec == [at : {"idle", "create", "write", "store"},
             kind : Kinds, buf : Bufs \cup {NoBuf}, id : 0 .. MaxInputs]
TakerRec == [at : {"start", "restore", "dead", "idle", "compare", "cas", "truncate", "progress", "read"},
             id : Nat]

(* Type correctness of the queue's counters, files and thread locals. *)
TypeOK ==
  /\ num \in [Kinds -> 0 .. MaxInputs]
  /\ exists \in [Kinds -> SUBSET Ids]
  /\ file \in [Kinds -> [Ids -> Seq(Bufs)]]
  /\ saver \in [Savers -> SaverRec]
  /\ used \subseteq Bufs
  /\ clash \subseteq Bufs
  /\ saved \subseteq used
  /\ next_id \in Nat
  /\ progress \in Nat \cup {Empty}
  /\ taker \in [Takers -> TakerRec]
  /\ taken \in [Ids -> Nat]
  /\ scanned \subseteq Seq(Bufs)

(* Every id below a counter has a file, however the saves of several       *)
(* threads interleave and although a late store moves the counter back:    *)
(* get_input_buf never fails for an id that get_next_input handed out.     *)
NoHole ==
  /\ \A k \in Kinds, i \in Ids : i < num[k] => i \in exists[k]
  /\ \A t \in Takers : taker[t].at = "read" => taker[t].id \in exists[Normal]

(* How often next_id was set: once by Depot::new, and in a restarted       *)
(* fuzzer by every thread that got through load_cached_next_id.            *)
Restored == {t \in Takers : taker[t].at \notin {"start", "restore", "dead"}}
Rounds == IF Restart THEN Cardinality(Restored) ELSE 1

(* get_next_input gives an id to at most one thread, for any number of     *)
(* threads polling at once; in a restarted fuzzer, to one thread between   *)
(* two resets of next_id.                                                  *)
ExclusiveTake == \A i \in Ids : taken[i] <= Rounds

(* The queue is scanned in order and without gaps: an id below next_id has *)
(* been handed out.  After a restart this holds from the id in ce_progress *)
(* on, although every thread resets next_id when it starts.                *)
HandedInOrder ==
  \A i \in Ids : i < next_id /\ (Restart => FirstId <= i) => taken[i] >= 1

(* ce_progress, written by several threads in any order, never names an id *)
(* that was not handed out: a restart resumes at or before the point that  *)
(* the scan had reached.                                                   *)
ProgressBehind ==
  progress # Empty /\ ~(Restart /\ progress = FirstId) =>
    progress \in Ids /\ taken[progress] >= 1

InHand(t) == taker[t].at \in {"truncate", "progress", "read"}

(* A FIFO queue loses nothing: a buffer whose save returned has been       *)
(* scanned, is in the hands of a fuzz_loop, or waits in a file whose id is *)
(* still to be handed out.                                                 *)
NothingLost ==
  \A b \in saved :
    \/ Content(b) \in scanned
    \/ \E i \in Ids : /\ file[Normal][i] = Content(b)
                      /\ \/ \E t \in Takers : InHand(t) /\ taker[t].id = i
                         \/ next_id <= i /\ i < num[Normal]

(* Every saved input is scanned in the end (fuzz_loop polls for ever), if  *)
(* saves do not overlap: of the finitely many inputs of a behaviour, none  *)
(* stays behind for ever.                                                  *)
EventuallyScanned == []<>(clash = {} => \A b \in saved : Content(b) \in scanned)

(* The queue that savers and takers see: the files below num_inputs, what  *)
(* was handed out of them, and what fuzz_loops hold.                       *)
Waiting == [i \in 1 .. num[Normal] |-> file[Normal][i - 1]]
Given == {i \in Ids : taken[i] >= 1}
Hands == [t \in Takers |-> IF InHand(t) THEN file[Normal][taker[t].id] ELSE <<>>]
Images == [b \in Bufs |-> Content(b)]

FIFO == INSTANCE Queue WITH
  Image <- Images, Nothing <- <<>>, queue <- Waiting, head <- next_id,
  given <- Given, hand <- Hands, got <- scanned, done <- saved

(* As long as saves do not overlap, save, get_next_input and get_input_buf *)
(* together implement that queue: nothing is lost, torn, repeated or       *)
(* skipped, although files, counters and ce_progress change in steps.      *)
ImplementsQueue == FIFO!Spec
=============================================================================
