------------------------------- MODULE Solve -------------------------------
(***************************************************************************)
(* The solver of one tracked input (fuzzer/src/z3solver.rs): it reads the  *)
(* messages of the target, keeps the path condition in groups of offsets   *)
(* that depend on each other, and solves each condition twice: alone (an   *)
(* optimistic solution) and together with the path condition of its group  *)
(* (a nested solution).  The union-find is used through what UnionFind     *)
(* shows of it: the group of an offset.                                    *)
(*                                                                         *)
(* A label is abstracted to a condition: the offsets that serialize        *)
(* collects for it (ins), and its value on an input, Val.  A condition     *)
(* that compares bytes of the input with concrete memory (memcmp, strcmp)  *)
(* takes that memory from a message of its own, which the solver stores    *)
(* under the label (lab) of the compared bytes.                            *)
(***************************************************************************)
EXTENDS Integers

CONSTANTS
  Offsets,    \* offsets of the input, from 0
  Bytes,      \* values of a byte
  Sites,      \* (addr, ctx) of a condition
  Labels,     \* labels of compared bytes
  Contents,   \* contents of concrete memory
  None,       \* no label, no content, no solution
  Conds,      \* the conditions that the target may report
  Val(_, _, _), \* Val(c, x, d): value of condition c on input x, compared with d
  LocalMax,   \* 64: messages of a site after which it is ignored
  GepMax      \* 16: messages of a site after which a gep is not solved

CondRec == [id : Nat, type : {"cond", "gep", "offset", "size"}, bool : BOOLEAN, known : BOOLEAN,
            ins : SUBSET Offsets, site : Sites, lab : Labels \cup {None}, con : Contents \cup {None}]
Inputs == [Offsets -> Bytes]

ASSUME CondAssumption ==
  /\ 0 \in Offsets /\ None \notin Labels \cup Contents
  /\ Conds \subseteq CondRec
  /\ \A c \in Conds : c.lab # None => c.con # None
  /\ LocalMax \in Nat /\ GepMax \in Nat

(* serialize collects every offset that the value of a label depends on. *)
ASSUME InsAssumption ==
  \A c \in Conds, x, y \in Inputs, d \in Contents \cup {None} :
    (\A o \in c.ins : x[o] = y[o]) => Val(c, x, d) = Val(c, y, d)

VARIABLES
  seed,     \* the tracked input
  at,       \* the solver thread: "run" or "end"
  sent,     \* conditions whose message was sent (B_FLIPPED)
  made,     \* conditions whose concrete memory was sent
  local,    \* branch_local
  data,     \* fmemcmp_data
  group,    \* the union-find: the set of each offset
  deps,     \* branch_deps: the constraints kept at each offset
  out,      \* the solutions of the last message
  path,     \* history: conditions that were preserved
  joined    \* history: sets of offsets that were united

vars == <<seed, at, sent, made, local, data, group, deps, out, path, joined>>

NoSol == [cond |-> None, opt |-> None, nest |-> None]

Init ==
  /\ seed \in Inputs
  /\ at = "run" /\ sent = {} /\ made = {}
  /\ local = [s \in Sites |-> 0]
  /\ data = [l \in Labels |-> None]
  /\ group = [o \in Offsets |-> {o}]
  /\ deps = [o \in Offsets |-> {}]
  /\ out = NoSol /\ path = {} /\ joined = {}

-----------------------------------------------------------------------------
(* serialize: a memcmp of concrete memory takes it from fmemcmp_data. *)
Data(c) == IF c.lab = None THEN c.con ELSE data[c.lab]
Serializes(c) == c.known /\ (c.lab # None => data[c.lab] # None)

(* A constraint: the condition, as it was serialized, has this value. *)
Meets(x, k) == Val(k.cond, x, k.data) = k.val

(* union: one set of all the groups that the inputs touch. *)
Joined(ins) == UNION {group[o] : o \in ins}

BugKeepOld(ins) ==
  [o \in Offsets |-> IF o \in ins THEN Joined(ins) ELSE group[o]]

BugJoinZero(ins) ==
  LET g == UNION {group[o] : o \in ins \cup {0}}
  IN  [o \in Offsets |-> IF o \in g THEN g ELSE group[o]]

Union(ins) == [o \in Offsets |-> IF o \in Joined(ins) THEN Joined(ins) ELSE group[o]]

(* The first element of a HashSet, in any order; 0 if there is none. *)
V0(ins) == IF ins = {} THEN {0} ELSE ins

(* preserve *)
Preserve(c, v, v0) ==
  [deps EXCEPT ![v0] = @ \cup {[cond |-> c, data |-> Data(c), val |-> v]}]

(* add_dependencies: the constraints of the group's offsets. *)
Dependencies(g, v0) == UNION {deps[o] : o \in g[v0]}

(* generate_solution and mutate: the model's bytes at the given offsets,   *)
(* the seed's elsewhere.                                                   *)
BugDropLast(m, offs) == [o \in Offsets |-> IF o \in offs /\ o + 1 \in Offsets THEN m[o] ELSE seed[o]]

Mutate(m, offs) == [o \in Offsets |-> IF o \in offs THEN m[o] ELSE seed[o]]

(* The value that the target reported. *)
Result(c) == Val(c, seed, c.con)

Flips(c) == {m \in Inputs : Val(c, m, Data(c)) # Result(c)}

(* The two solutions.  Z3 may run into its time limit, and qsym_filter may *)
(* say not to solve: then there is none.                                   *)
Solutions(c, g, v0) ==
  {NoSol} \cup {[cond |-> c, opt |-> Mutate(m, c.ins), nest |-> n] :
     m \in Flips(c),
     n \in {None} \cup {Mutate(w, g[v0]) : w \in {x \in Flips(c) : \A k \in Dependencies(g, v0) : Meets(x, k)}}}

-----------------------------------------------------------------------------
(* A message of condition c: its site is counted, whatever its type.  The  *)
(* target reports a label once, and the memory it is compared with before. *)
Message(c) ==
  /\ at = "run" /\ c \notin sent
  /\ c.lab # None => c \in made
  /\ sent' = sent \cup {c}
  /\ local' = [local EXCEPT ![c.site] = @ + 1]
  /\ UNCHANGED <<seed, made, data>>
LocalCnt(c) == local[c.site] + 1

(* After a message the time may be up (but not after one that is ignored). *)
TimeUp == at' \in {"run", "end"}

Keep(c, v, v0) == deps' = Preserve(c, v, v0) /\ path' = path \cup {c}
NoKeep == UNCHANGED <<deps, path>>

(* A label that cannot be serialized leaves no trace. *)
Unserialized(c) ==
  /\ ~Serializes(c)
  /\ out' = NoSol
  /\ UNCHANGED <<group, deps, path, joined>>

Unite(c) == group' = Union(c.ins) /\ joined' = joined \cup {c.ins}

(* Type 0. *)
SolveCond(c) ==
  /\ c.type = "cond" /\ Message(c) /\ LocalCnt(c) <= LocalMax
  /\ TimeUp
  /\ \/ Unserialized(c)
     \/ /\ Serializes(c)
        /\ Unite(c)
        /\ \E v0 \in V0(c.ins) :
             /\ out' \in Solutions(c, group', v0)
             /\ Keep(c, Result(c), v0)

(* Type 1.  hitcount is shared with the solvers of the other jobs, which   *)
(* read and write it without a lock in between: it may have any value.     *)
SolveGep(c) ==
  /\ c.type = "gep" /\ Message(c) /\ LocalCnt(c) <= LocalMax
  /\ TimeUp
  /\ \/ Unserialized(c)
     \/ /\ Serializes(c)
        /\ Unite(c)
        /\ \E v0 \in V0(c.ins), try_solve \in BOOLEAN :
             /\ try_solve => LocalCnt(c) <= GepMax
             /\ out' \in IF try_solve /\ ~c.bool THEN Solutions(c, group', v0) ELSE {NoSol}
             /\ IF try_solve /\ c.bool THEN NoKeep ELSE Keep(c, Result(c), v0)

(* Types 0 and 1, continue: neither solved nor preserved. *)
Ignore(c) ==
  /\ c.type \in {"cond", "gep"} /\ Message(c) /\ LocalCnt(c) > LocalMax
  /\ out' = NoSol
  /\ UNCHANGED <<at, group, deps, path, joined>>

(* Type 2: the memory is stored under the label of the bytes it was        *)
(* compared with, over what an earlier comparison stored; if it does not   *)
(* arrive in full, the solver ends.                                        *)
MemcmpData(c) ==
  /\ at = "run" /\ c.lab # None /\ c \notin made
  /\ made' = made \cup {c}
  /\ \/ data' = [data EXCEPT ![c.lab] = c.con] /\ TimeUp
     \/ data' = data /\ at' = "end"
  /\ out' = NoSol
  /\ UNCHANGED <<seed, sent, local, group, deps, path, joined>>

(* Type 3: the target fixed an offset to its value, so the condition holds *)
(* (value 1); one that is not a Bool is not preserved.                     *)
AddCons(c) ==
  /\ c.type = "offset" /\ Result(c) = 1 /\ Message(c)
  /\ TimeUp /\ out' = NoSol
  /\ \/ Unserialized(c)
     \/ /\ Serializes(c)
        /\ Unite(c)
        /\ \E v0 \in V0(c.ins) : IF c.bool THEN Keep(c, 1, v0) ELSE NoKeep

(* Any other type. *)
Size(c) ==
  /\ c.type = "size" /\ Message(c)
  /\ TimeUp /\ out' = NoSol
  /\ UNCHANGED <<group, deps, path, joined>>

(* The end of the pipe. *)
Eof ==
  /\ at = "run" /\ at' = "end" /\ out' = NoSol
  /\ UNCHANGED <<seed, sent, made, local, data, group, deps, path, joined>>

Next ==
  \/ Eof
  \/ \E c \in Conds :
       SolveCond(c) \/ SolveGep(c) \/ Ignore(c) \/ MemcmpData(c) \/ AddCons(c) \/ Size(c)

Spec == Init /\ [][Next]_vars

-----------------------------------------------------------------------------
Constraint == [cond : Conds, data : Contents \cup {None}, val : {Val(c, x, c.con) : c \in Conds, x \in Inputs} \cup {1}]

(* Type correctness. *)
TypeOK ==
  /\ seed \in Inputs /\ at \in {"run", "end"}
  /\ sent \subseteq Conds /\ made \subseteq Conds /\ path \subseteq Conds
  /\ local \in [Sites -> Nat]
  /\ data \in [Labels -> Contents \cup {None}]
  /\ group \in [Offsets -> SUBSET Offsets]
  /\ deps \in [Offsets -> SUBSET Constraint]
  /\ out \in [cond : Conds \cup {None}, opt : Inputs \cup {None}, nest : Inputs \cup {None}]
  /\ joined \subseteq SUBSET Offsets

(* No other condition compares the same bytes with other memory. *)
Intact(c) == \A d \in Conds : c.lab # None /\ d.lab = c.lab => d.con = c.con

(* A solution, optimistic or nested, changes the value of the condition it *)
(* was solved for.                                                         *)
SolutionFlips ==
  \A x \in {out.opt, out.nest} \ {None} :
    Intact(out.cond) => Val(out.cond, x, out.cond.con) # Result(out.cond)

(* The target takes the seed's way on a nested solution up to the          *)
(* condition: every condition preserved before has the seed's value, in    *)
(* whichever group and at whichever offset it was kept.                    *)
NestedFollowsPath ==
  out.nest # None =>
    \A p \in path \ {out.cond} : Intact(p) => Val(p, out.nest, p.con) = Result(p)

(* Sets of offsets that no condition crosses. *)
Separate == {S \in SUBSET Offsets : \A ins \in joined : ins \subseteq S \/ ins \cap S = {}}

(* A nested solution leaves every byte alone that no chain of conditions   *)
(* connects with the condition: a set of offsets that holds the inputs of  *)
(* the condition and that nothing crosses holds all that is changed.       *)
NestedStaysLocal ==
  out.nest # None =>
    \A S \in Separate : out.cond.ins \subseteq S /\ out.cond.ins # {} =>
      \A o \in Offsets \ S : out.nest[o] = seed[o]
=============================================================================
