------------------------------ MODULE Branches ------------------------------
(***************************************************************************)
(* The global coverage maps (fuzzer/src/branches.rs) that decide whether a *)
(* run found something new.  Every grader owns an executor; all of them    *)
(* share the three maps.  has_new reads the map of the run's status under  *)
(* the read lock, adds to density, and writes back under the write lock    *)
(* the values it computed from what it read: between the two locks other   *)
(* executors may read and write the same cells.                            *)
(*                                                                         *)
(* A byte of a map is the set of its one bits; 255 is AllBits.  A bucket   *)
(* is a single bit, so "& !bucket" removes it from the set.                *)
(*                                                                         *)
(* Faulty variants of the operations follow the word "Bug"; no behaviour   *)
(* of Spec uses them.                                                      *)
(***************************************************************************)
EXTENDS Integers, FiniteSets

CONSTANTS
  Executors,
  Edges,      \* indices of the branch map
  Counts,     \* the hit counts a run can leave in the trace
  Statuses    \* the statuses a run can end with

ASSUME EdgesAssumption == IsFiniteSet(Edges)
ASSUME CountsAssumption == Counts \subseteq 1 .. 255
ASSUME StatusAssumption == Statuses \subseteq {"Normal", "Timeout", "Crash", "Error"}

AllBits == {1, 2, 4, 8, 16, 32, 64, 128}

(* COUNT_LOOKUP for a positive count. *)
Bucket(n) ==
  CASE n <= 2           -> n
    [] n = 3            -> 4
    [] n \in 4 .. 7     -> 8
    [] n \in 8 .. 15    -> 16
    [] n \in 16 .. 31   -> 32
    [] n \in 32 .. 127  -> 64
    [] n >= 128         -> 128

(* The statuses that have a map; a run can also end with Error. *)
Mapped == {"Normal", "Timeout", "Crash"}

VARIABLES
  map,        \* virgin_branches, tmouts_branches, crashes_branches
  density,
  exec,       \* where each executor is in has_new, and its locals
  found       \* history: buckets some has_new has found to be new

vars == <<map, density, exec, found>>

NoTrace == [i \in Edges |-> 0]
NoWrite == [i \in {} |-> {}]
Idle == [at |-> "idle", status |-> "Normal", trace |-> NoTrace, write |-> NoWrite, new |-> 0]

Init ==
  /\ map = [m \in Mapped |-> [i \in Edges |-> AllBits]]
  /\ density = 0
  /\ exec = [e \in Executors |-> Idle]
  /\ found = [m \in Mapped |-> [i \in Edges |-> {}]]

(* The target has run: its trace is in the executor's shared memory. *)
Ran(e, s, t) ==
  /\ exec[e].at = "idle"
  /\ exec' = [exec EXCEPT ![e] = [Idle EXCEPT !.at = "ran", !.status = s, !.trace = t]]
  /\ UNCHANGED <<map, density, found>>

(* get_path: the edges of the trace that were hit. *)
Path(t) == {i \in Edges : t[i] > 0}

(* has_new, a status without a map: return false. *)
HasNewOther(e) ==
  /\ exec[e].at = "ran"
  /\ exec[e].status \notin Mapped
  /\ exec' = [exec EXCEPT ![e] = Idle]
  /\ UNCHANGED <<map, density, found>>

(* What has_new computes under the read lock: the edges whose bucket is    *)
(* new, the value to write back for each, and the number of edges that     *)
(* nobody has hit.                                                         *)
NewEdges(cells, t) == {i \in Path(t) : Bucket(t[i]) \in cells[i]}
BugClearLower(cells, t) ==
  [i \in NewEdges(cells, t) |-> {b \in cells[i] : b > Bucket(t[i])}]
BugForget(cells, t) == [i \in NewEdges(cells, t) |-> AllBits \ {Bucket(t[i])}]
ToWrite(cells, t) == [i \in NewEdges(cells, t) |-> cells[i] \ {Bucket(t[i])}]
NumNewEdge(cells, t) == Cardinality({i \in Path(t) : cells[i] = AllBits})

HasNewRead(e) ==
  /\ exec[e].at = "ran"
  /\ exec[e].status \in Mapped
  /\ LET m == exec[e].status
         t == exec[e].trace
     IN  /\ exec' = [exec EXCEPT ![e] = [@ EXCEPT !.at = "density", !.write = ToWrite(map[m], t),
                                                  !.new = NumNewEdge(map[m], t)]]
         /\ found' = [found EXCEPT ![m] = [i \in Edges |->
                        IF i \in NewEdges(map[m], t) THEN @[i] \cup {Bucket(t[i])} ELSE @[i]]]
  /\ UNCHANGED <<map, density>>

(* has_new, between the locks: density, and return false if nothing is new. *)
HasNewDensity(e) ==
  /\ exec[e].at = "density"
  /\ density' = IF exec[e].status = "Normal" THEN density + exec[e].new ELSE density
  /\ exec' = [exec EXCEPT ![e] = IF DOMAIN exec[e].write = {} THEN Idle ELSE [@ EXCEPT !.at = "write"]]
  /\ UNCHANGED <<map, found>>

(* has_new under the write lock, return true. *)
BugFreshMap(cells, w) == [i \in Edges |-> IF i \in DOMAIN w THEN w[i] ELSE AllBits]
Written(cells, w) == [i \in Edges |-> IF i \in DOMAIN w THEN w[i] ELSE cells[i]]

HasNewWrite(e) ==
  /\ exec[e].at = "write"
  /\ map' = [map EXCEPT ![exec[e].status] = Written(@, exec[e].write)]
  /\ exec' = [exec EXCEPT ![e] = Idle]
  /\ UNCHANGED <<density, found>>

HasNew(e) == HasNewOther(e) \/ HasNewRead(e) \/ HasNewDensity(e) \/ HasNewWrite(e)

Next ==
  \E e \in Executors :
    \/ \E s \in Statuses, t \in [Edges -> Counts \cup {0}] : Ran(e, s, t)
    \/ HasNew(e)

Spec == Init /\ [][Next]_vars

-----------------------------------------------------------------------------
Writes == UNION {[S -> SUBSET AllBits] : S \in SUBSET Edges}
ExecRec == [at : {"idle", "ran", "density", "write"}, status : Statuses \cup {"Normal"},
            trace : [Edges -> Counts \cup {0}], write : Writes, new : Nat]

(* Type correctness of the maps and of the executors' locals; the write    *)
(* lock is only taken with something to write.                             *)
TypeOK ==
  /\ map \in [Mapped -> [Edges -> SUBSET AllBits]]
  /\ density \in Nat
  /\ found \in [Mapped -> [Edges -> SUBSET AllBits]]
  /\ exec \in [Executors -> ExecRec]
  /\ \A e \in Executors : exec[e].at = "write" => DOMAIN exec[e].write # {}

(* No coverage is missed: a bucket that a map shows as seen was found new  *)
(* by some run, which then reports true and is saved.  So a run for which  *)
(* has_new returns false reached nothing that no saved input reaches,      *)
(* whatever other executors wrote between its read and theirs.             *)
SeenWasFound ==
  \A m \in Mapped, i \in Edges : AllBits \ map[m][i] \subseteq found[m][i]

(* The write-back of stale values brings single buckets back, but an edge  *)
(* that was hit never looks untouched again.                               *)
EdgeStaysTouched ==
  [][\A m \in Mapped, i \in Edges : map[m][i] # AllBits => map'[m][i] # AllBits]_vars

(* The maps settle although stale values are written back: in every        *)
(* behaviour each bucket of each cell changes only finitely often.         *)
Settles ==
  \A m \in Mapped, i \in Edges, b \in {Bucket(n) : n \in Counts} :
    <>[](b \in map[m][i]) \/ <>[](b \notin map[m][i])
=============================================================================
