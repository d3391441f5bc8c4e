-------------------------------- MODULE Sync --------------------------------
(***************************************************************************)
(* Importing AFL's queue (fuzzer/src/sync.rs, main_thread_sync in          *)
(* fuzz_main.rs).  The main thread polls the queue directories of AFL's    *)
(* main nodes for ever; sync_ids holds, per node, the id from which the    *)
(* next poll imports.  AFL numbers its files 0, 1, ... and adds them while *)
(* the directory is being listed: an entry that appears after the listing  *)
(* began may or may not be returned by it.                                 *)
(***************************************************************************)
EXTENDS Integers, Sequences

CONSTANTS
  Nodes,     \* names of AFL instances that have a file is_main_node
  NoNode,
  MaxFiles,  \* bound: files of a queue
  Period     \* sleeps between two polls, 12 in the code

Ids == 0 .. MaxFiles - 1
Sizes == {"short", "long"}  \* below MAX_INPUT_LEN, or not

VARIABLES
  running,
  queue,         \* AFL's files: queue[n][i + 1] is the size of file i of node n
  sync_ids,
  sync_counter,
  at,            \* the main thread: "afl" in sync_afl, "scan" in sync_one_afl_dir, "sleep", "joined"
  todo,          \* nodes that this call of sync_afl has still to visit
  scan,          \* locals of sync_one_afl_dir: node, ids, and files listed at its start and so far
  imported       \* history: files given to run_norun

vars == <<running, queue, sync_ids, sync_counter, at, todo, scan, imported>>

Files(n) == 0 .. Len(queue[n]) - 1
NoScan == [node |-> NoNode, min_id |-> 0, max_id |-> 0, first |-> {}, listed |-> {}]

(* main_thread_sync with sync_afl: a first call before the loop. *)
Init ==
  /\ running = TRUE
  /\ queue \in [Nodes -> {<<>>, <<"short">>}]
  /\ sync_ids = [n \in Nodes |-> 0]
  /\ sync_counter = 1
  /\ at = "afl" /\ todo = Nodes /\ scan = NoScan /\ imported = {}

(* AFL saves an input (external). *)
AflSave(n, size) ==
  /\ Len(queue[n]) < MaxFiles
  /\ queue' = [queue EXCEPT ![n] = Append(@, size)]
  /\ UNCHANGED <<running, sync_ids, sync_counter, at, todo, scan, imported>>

(* sync_one_afl_dir: read_dir of the queue of a node ... *)
OpenDir(n) ==
  /\ at = "afl" /\ n \in todo
  /\ todo' = todo \ {n} /\ at' = "scan"
  /\ scan' = [node |-> n, min_id |-> sync_ids[n], max_id |-> sync_ids[n], first |-> Files(n), listed |-> {}]
  /\ UNCHANGED <<running, queue, sync_ids, sync_counter, imported>>

(* ... each entry it returns, in any order ... *)
Entry(i) ==
  /\ at = "scan" /\ running
  /\ i \in Files(scan.node) \ scan.listed
  /\ scan' = [scan EXCEPT !.listed = @ \cup {i},
                          !.max_id = IF i >= scan.min_id /\ i > @ THEN i ELSE @]
  /\ imported' = IF i >= scan.min_id /\ queue[scan.node][i + 1] = "short"
                 THEN imported \cup {<<scan.node, i>>} ELSE imported
  /\ UNCHANGED <<running, queue, sync_ids, sync_counter, at, todo>>

(* ... until there is none, or the fuzzer is stopped; then the new id. *)
CloseDir ==
  /\ at = "scan" /\ (scan.first \subseteq scan.listed \/ ~running)
  /\ sync_ids' = [sync_ids EXCEPT ![scan.node] = scan.max_id + 1]
  /\ scan' = NoScan /\ at' = "afl"
  /\ UNCHANGED <<running, queue, sync_counter, todo, imported>>

(* sync_afl returns to the loop of main_thread_sync ... *)
EndPoll ==
  /\ at = "afl" /\ todo = {}
  /\ at' = IF running THEN "sleep" ELSE "joined"
  /\ UNCHANGED <<running, queue, sync_ids, sync_counter, todo, scan, imported>>

(* ... which sleeps, counts, and polls when the counter has run out. *)
Wake ==
  /\ at = "sleep"
  /\ IF sync_counter <= 1
       THEN sync_counter' = Period /\ at' = "afl" /\ todo' = Nodes
       ELSE /\ sync_counter' = sync_counter - 1
            /\ at' = IF running THEN "sleep" ELSE "joined"
            /\ UNCHANGED todo
  /\ UNCHANGED <<running, queue, sync_ids, scan, imported>>

Sigint ==
  /\ running /\ running' = FALSE
  /\ UNCHANGED <<queue, sync_ids, sync_counter, at, todo, scan, imported>>

Next ==
  \/ \E n \in Nodes, size \in Sizes : AflSave(n, size)
  \/ \E n \in Nodes : OpenDir(n)
  \/ \E i \in Ids : Entry(i)
  \/ CloseDir \/ EndPoll \/ Wake \/ Sigint

Spec == Init /\ [][Next]_vars

-----------------------------------------------------------------------------
(* The seeds are synced with AFL: while the fuzzer runs, a file of AFL's   *)
(* queue below the id from which the next poll imports, and not too long,  *)
(* has been imported.                                                      *)
SeedsSynced ==
  running => \A n \in Nodes : \A i \in Files(n) :
               i < sync_ids[n] /\ queue[n][i + 1] = "short" => <<n, i>> \in imported
=============================================================================
