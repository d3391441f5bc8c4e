---------------------------- MODULE SolveProofs ----------------------------
(***************************************************************************)
(* A nested solution follows the seed's path, for every input length, all  *)
(* conditions and every order of messages.  The invariant says where a     *)
(* constraint may be kept: at any offset whose group has all its inputs.   *)
(* Groups only grow, so the group of the solved condition has either all   *)
(* of a constraint's inputs, and then Z3 was given the constraint, or none *)
(* of them, and then they keep the seed's bytes.                           *)
(*                                                                         *)
(* And of module Pipeline, for any number of jobs and inputs: a write end  *)
(* of a pipe is open in the fuzzer only inside the section that forklock   *)
(* protects, so that no process but the tracked target inherits it, and    *)
(* the end of the pipe means that the target is gone.                      *)
(***************************************************************************)
EXTENDS Solve, Pipeline, TLAPS

(* More time than the provers take by default. *)
USE SMTT(30), ZenonT(30)

Partition(g) ==
  /\ g \in [Offsets -> SUBSET Offsets]
  /\ \A o \in Offsets : o \in g[o]
  /\ \A o, p \in Offsets : p \in g[o] => g[p] = g[o]

(* A constraint has the seed's value, compares with the right memory if    *)
(* that is not overwritten, and is kept within its group.                  *)
Sound(k) ==
  /\ k.cond \in Conds /\ k.data \in Contents \cup {None}
  /\ k.val = Result(k.cond)
  /\ Intact(k.cond) => k.data = k.cond.con
KeptIn(g, d) == \A o \in Offsets : \A k \in d[o] : Sound(k) /\ k.cond.ins \subseteq g[o]

PathKept == \A p \in path : \E o \in Offsets : \E k \in deps[o] : k.cond = p
DataSent == \A l \in Labels : data[l] # None => \E d \in Conds : d.lab = l /\ data[l] = d.con
Minimal == \A S \in Separate : \A o \in S : group[o] \subseteq S
OutSafe == SolutionFlips /\ NestedFollowsPath /\ NestedStaysLocal

IInv ==
  /\ TypeOK /\ Partition(group) /\ KeptIn(group, deps)
  /\ PathKept /\ DataSent /\ Minimal /\ OutSafe

-----------------------------------------------------------------------------
(* union makes one group of all that the inputs touch. *)
LEMMA UnionFacts ==
  ASSUME Partition(group), NEW ins \in SUBSET Offsets
  PROVE  /\ Partition(Union(ins))
         /\ \A o \in Offsets : group[o] \subseteq Union(ins)[o]
         /\ \A v \in V0(ins) : v \in Offsets /\ ins \subseteq Union(ins)[v]
<1> DEFINE J == Joined(ins)
           U == Union(ins)
<1>1. J \subseteq Offsets /\ ins \subseteq J
  BY DEF Joined, Partition
<1>2. \A o \in Offsets : U[o] = IF o \in J THEN J ELSE group[o]
  BY Zenon DEF Union
<1>3. \A o, p \in Offsets : o \in J /\ p \in group[o] => p \in J
  BY DEF Joined, Partition
<1>4. \A o, p \in Offsets : p \in J /\ p \in group[o] => o \in J
  <2> SUFFICES ASSUME NEW o \in Offsets, NEW p \in Offsets, p \in J, p \in group[o] PROVE o \in J
    BY Zenon
  <2>1. o \in group[p]
    BY Zenon DEF Partition
  <2> QED BY <1>3, <2>1, Zenon
<1>5. U \in [Offsets -> SUBSET Offsets]
  BY <1>1, Zenon DEF Union, Partition
<1> HIDE DEF J, U
<1>6. \A o \in Offsets : o \in U[o]
  BY <1>2, Zenon DEF Partition
<1>7. \A o, p \in Offsets : p \in U[o] => U[p] = U[o]
  BY <1>1, <1>2, <1>3, <1>4, Zenon DEF Partition
<1>8. \A o \in Offsets : group[o] \subseteq U[o]
  BY <1>1, <1>2, <1>3, Zenon DEF Partition
<1>9. \A v \in V0(ins) : v \in Offsets /\ ins \subseteq U[v]
  BY <1>1, <1>2, CondAssumption, Zenon DEF V0
<1> QED BY <1>5, <1>6, <1>7, <1>8, <1>9, Zenon DEF Partition, U

(* A set that nothing crosses still holds the whole groups of its offsets. *)
LEMMA MinimalStep ==
  ASSUME IInv, NEW c \in Conds, Unite(c)
  PROVE  Minimal'
<1>1. c.ins \in SUBSET Offsets
  BY CondAssumption, Zenon DEF CondRec
<1> SUFFICES ASSUME NEW S \in Separate', NEW o \in S PROVE group'[o] \subseteq S
  BY Zenon DEF Minimal
<1>2. S \in Separate /\ (c.ins \subseteq S \/ c.ins \cap S = {}) /\ S \subseteq Offsets
  BY Zenon DEF Separate, Unite
<1>3. \A p \in S : group[p] \subseteq S
  BY <1>2, Zenon DEF IInv, Minimal
<1>4. \A p \in Offsets : group[p] \cap S # {} => p \in S
  <2> SUFFICES ASSUME NEW p \in Offsets, NEW q \in S, q \in group[p] PROVE p \in S
    BY Zenon
  <2>1. q \in Offsets /\ p \in group[q]
    BY <1>2, Zenon DEF IInv, Partition
  <2> QED BY <1>3, <2>1, Zenon
<1>5. CASE o \in Joined(c.ins)
  <2>1. PICK p \in c.ins : o \in group[p]
    BY <1>5, Zenon DEF Joined
  <2>2. c.ins \subseteq S
    BY <1>1, <1>2, <1>4, <2>1, Zenon
  <2>3. Joined(c.ins) \subseteq S
    BY <1>3, <2>2, Zenon DEF Joined
  <2> QED BY <1>2, <1>5, <2>3, Zenon DEF Unite, Union
<1>6. CASE o \notin Joined(c.ins)
  BY <1>2, <1>3, <1>6, Zenon DEF Unite, Union
<1> QED BY <1>5, <1>6, Zenon

(* Memory that only one content is stored for is the right one. *)
LEMMA DataFacts ==
  ASSUME IInv, NEW c \in Conds, Serializes(c)
  PROVE  Data(c) \in Contents \cup {None} /\ (Intact(c) => Data(c) = c.con)
<1>1. c.lab \in Labels \cup {None} /\ c.con \in Contents \cup {None}
  BY CondAssumption, Zenon DEF CondRec
<1>2. CASE c.lab = None
  BY <1>1, <1>2, Zenon DEF Data
<1>3. CASE c.lab # None
  <2>1. c.lab \in Labels /\ data[c.lab] # None /\ Data(c) = data[c.lab]
    BY <1>1, <1>3, Zenon DEF Data, Serializes
  <2>2. PICK d \in Conds : d.lab = c.lab /\ data[c.lab] = d.con
    BY <2>1, Zenon DEF IInv, DataSent
  <2>3. data[c.lab] \in Contents \cup {None}
    BY <2>1, Zenon DEF IInv, TypeOK
  <2> QED BY <1>3, <2>1, <2>2, <2>3, Zenon DEF Intact
<1> QED BY <1>2, <1>3, Zenon

(* A mutated seed has the model's bytes at the given offsets only. *)
LEMMA MutateFacts ==
  ASSUME seed \in Inputs, NEW m \in Inputs, NEW offs \in SUBSET Offsets
  PROVE  /\ Mutate(m, offs) \in Inputs
         /\ \A o \in offs : Mutate(m, offs)[o] = m[o]
         /\ \A o \in Offsets \ offs : Mutate(m, offs)[o] = seed[o]
BY Zenon DEF Mutate, Inputs

(* The heart of the matter: a constraint that is within its group has, on  *)
(* a nested solution, the value it has on the seed.                        *)
LEMMA NestedMeets ==
  ASSUME seed \in Inputs, NEW g, Partition(g), KeptIn(g, deps), NEW v0 \in Offsets,
         NEW w \in Inputs, \A k \in Dependencies(g, v0) : Meets(w, k),
         NEW o \in Offsets, NEW k \in deps[o], Intact(k.cond)
  PROVE  Val(k.cond, Mutate(w, g[v0]), k.cond.con) = Result(k.cond)
<1> DEFINE x == Mutate(w, g[v0])
<1>1. g[v0] \in SUBSET Offsets
  BY Zenon DEF Partition
<1>2. /\ x \in Inputs /\ \A p \in g[v0] : x[p] = w[p]
      /\ \A p \in Offsets \ g[v0] : x[p] = seed[p]
  BY <1>1, MutateFacts, Zenon
<1>3. /\ k.cond \in Conds /\ k.data \in Contents \cup {None} /\ k.val = Result(k.cond)
      /\ k.data = k.cond.con /\ k.cond.ins \subseteq g[o]
  BY Zenon DEF KeptIn, Sound
<1> HIDE DEF x
<1>4. CASE o \in g[v0]
  <2>1. g[o] = g[v0]
    BY <1>4, Zenon DEF Partition
  <2>2. \A p \in k.cond.ins : x[p] = w[p]
    BY <1>2, <1>3, <2>1, Zenon
  <2>3. Val(k.cond, x, k.data) = Val(k.cond, w, k.data)
    BY <1>2, <1>3, <2>2, InsAssumption
  <2>4. Val(k.cond, w, k.data) = k.val
    BY <1>4, Zenon DEF Dependencies, Meets
  <2> QED BY <1>3, <2>3, <2>4, Zenon DEF x
<1>5. CASE o \notin g[v0]
  <2>1. \A p \in g[o] : p \in Offsets /\ p \notin g[v0]
    BY <1>5, Zenon DEF Partition
  <2>2. \A p \in k.cond.ins : x[p] = seed[p]
    BY <1>2, <1>3, <2>1, Zenon
  <2>3. Val(k.cond, x, k.data) = Val(k.cond, seed, k.data)
    BY <1>2, <1>3, <2>2, InsAssumption
  <2> QED BY <1>3, <2>3, Zenon DEF Result, x
<1> QED BY <1>4, <1>5, Zenon

(* The solutions of a condition are safe. *)
LEMMA SolvedStep ==
  ASSUME IInv, NEW c \in Conds, Serializes(c), UNCHANGED seed, Unite(c),
         NEW v0 \in V0(c.ins), out' \in Solutions(c, group', v0), path' \subseteq path \cup {c}
  PROVE  OutSafe' /\ out' \in [cond : Conds \cup {None}, opt : Inputs \cup {None}, nest : Inputs \cup {None}]
<1> DEFINE g == Union(c.ins)
<1>1. c.ins \in SUBSET Offsets
  BY CondAssumption, Zenon DEF CondRec
<1>2. /\ Partition(g) /\ v0 \in Offsets /\ c.ins \subseteq g[v0] /\ group' = g
      /\ \A o \in Offsets : group[o] \subseteq g[o]
  BY <1>1, UnionFacts, Zenon DEF IInv, Unite
<1>3. KeptIn(g, deps)
  BY <1>2, Zenon DEF IInv, KeptIn
<1>4. seed \in Inputs
  BY Zenon DEF IInv, TypeOK
<1>5. g[v0] \in SUBSET Offsets
  BY <1>2, Zenon DEF Partition
<1>6. Data(c) \in Contents \cup {None} /\ (Intact(c) => Data(c) = c.con)
  BY DataFacts, Zenon
<1> HIDE DEF g
<1>7. CASE out' = NoSol
  BY <1>7, Zenon DEF OutSafe, SolutionFlips, NestedFollowsPath, NestedStaysLocal, NoSol
<1>8. CASE out' # NoSol
  <2>1. PICK m \in Flips(c) : /\ out'.cond = c /\ out'.opt = Mutate(m, c.ins)
                              /\ out' = [cond |-> c, opt |-> out'.opt, nest |-> out'.nest]
                              /\ \/ out'.nest = None
                                 \/ \E w \in Flips(c) : /\ \A k \in Dependencies(g, v0) : Meets(w, k)
                                                        /\ out'.nest = Mutate(w, g[v0])
    BY <1>2, <1>8 DEF Solutions
  <2>2. \A w \in Flips(c), offs \in SUBSET Offsets :
          c.ins \subseteq offs => /\ Mutate(w, offs) \in Inputs
                                  /\ Intact(c) => Val(c, Mutate(w, offs), c.con) # Result(c)
    <3> SUFFICES ASSUME NEW w \in Flips(c), NEW offs \in SUBSET Offsets, c.ins \subseteq offs
                 PROVE  /\ Mutate(w, offs) \in Inputs
                        /\ Intact(c) => Val(c, Mutate(w, offs), c.con) # Result(c)
      BY Zenon
    <3>1. w \in Inputs /\ Val(c, w, Data(c)) # Result(c)
      BY Zenon DEF Flips
    <3>2. Mutate(w, offs) \in Inputs /\ \A o \in c.ins : Mutate(w, offs)[o] = w[o]
      BY <1>4, <3>1, MutateFacts, Zenon
    <3>3. Val(c, Mutate(w, offs), Data(c)) = Val(c, w, Data(c))
      BY <1>6, <3>1, <3>2, InsAssumption, Zenon
    <3> QED BY <1>6, <3>1, <3>2, <3>3, Zenon
  <2>3. out'.opt \in Inputs /\ (Intact(c) => Val(c, out'.opt, c.con) # Result(c))
    BY <1>1, <2>1, <2>2, Zenon
  <2>4. out'.nest # None => out'.nest \in Inputs /\ (Intact(c) => Val(c, out'.nest, c.con) # Result(c))
    BY <1>2, <1>5, <2>1, <2>2, Zenon
  <2>5. Result(c)' = Result(c) /\ \A p \in Conds : Result(p)' = Result(p)
    BY Zenon DEF Result
  <2>6. SolutionFlips'
    BY <2>1, <2>3, <2>4, Zenon DEF SolutionFlips, Result
  <2>7. NestedFollowsPath'
    <3> SUFFICES ASSUME out'.nest # None, NEW p \in path' \ {c}, Intact(p)
                 PROVE  Val(p, out'.nest, p.con) = Result(p)
      BY <2>1, Zenon DEF NestedFollowsPath, Result
    <3>1. PICK w \in Flips(c) : /\ \A k \in Dependencies(g, v0) : Meets(w, k)
                                /\ out'.nest = Mutate(w, g[v0])
      BY <2>1, Zenon
    <3>2. w \in Inputs
      BY Zenon DEF Flips
    <3>3. PICK o \in Offsets : \E k \in deps[o] : k.cond = p
      BY Zenon DEF IInv, PathKept
    <3>4. PICK k \in deps[o] : k.cond = p
      BY <3>3, Zenon
    <3> QED BY <1>2, <1>3, <1>4, <3>1, <3>2, <3>4, NestedMeets
  <2>8. NestedStaysLocal'
    <3> SUFFICES ASSUME out'.nest # None, NEW S \in Separate', c.ins \subseteq S, c.ins # {},
                        NEW o \in Offsets \ S
                 PROVE  out'.nest[o] = seed[o]
      BY <2>1, Zenon DEF NestedStaysLocal
    <3>1. PICK w \in Flips(c) : out'.nest = Mutate(w, g[v0])
      BY <2>1, Zenon
    <3>2. w \in Inputs
      BY Zenon DEF Flips
    <3>3. v0 \in S
      BY Zenon DEF V0
    <3>4. g[v0] \subseteq S
      BY <1>2, <3>3, MinimalStep, Zenon DEF Minimal
    <3>5. o \notin g[v0]
      BY <3>4, Zenon
    <3> QED BY <1>4, <1>5, <3>1, <3>2, <3>5, MutateFacts
  <2> QED BY <2>1, <2>3, <2>4, <2>6, <2>7, <2>8, Zenon DEF OutSafe
<1> QED BY <1>7, <1>8, Zenon DEF NoSol

-----------------------------------------------------------------------------
(* Whether the condition is preserved or not, constraints stay in their    *)
(* groups, which only grow.                                                *)
LEMMA UniteStep ==
  ASSUME IInv, NEW c \in Conds, Unite(c), UNCHANGED seed, NoKeep
  PROVE  Partition(group)' /\ KeptIn(group, deps)' /\ PathKept' /\ group' \in [Offsets -> SUBSET Offsets]
<1>1. c.ins \in SUBSET Offsets
  BY CondAssumption, Zenon DEF CondRec
<1>2. Partition(group') /\ \A o \in Offsets : group[o] \subseteq group'[o]
  BY <1>1, UnionFacts, Zenon DEF IInv, Unite
<1>3. \A k : Sound(k) => Sound(k)'
  BY Zenon DEF Sound, Result
<1>4. KeptIn(group, deps)'
  BY <1>2, <1>3, Zenon DEF IInv, KeptIn, NoKeep
<1>5. PathKept'
  BY Zenon DEF IInv, PathKept, NoKeep
<1> QED BY <1>2, <1>4, <1>5, Zenon DEF Partition

LEMMA KeepStep ==
  ASSUME IInv, NEW c \in Conds, Serializes(c), Unite(c), UNCHANGED seed,
         NEW v0 \in V0(c.ins), NEW v, v = Result(c), Keep(c, v, v0)
  PROVE  /\ Partition(group)' /\ KeptIn(group, deps)' /\ PathKept'
         /\ group' \in [Offsets -> SUBSET Offsets]
         /\ deps' \in [Offsets -> SUBSET Constraint] /\ path' \subseteq Conds
<1> DEFINE k0 == [cond |-> c, data |-> Data(c), val |-> v]
<1>1. c.ins \in SUBSET Offsets
  BY CondAssumption, Zenon DEF CondRec
<1>2. /\ Partition(group') /\ \A o \in Offsets : group[o] \subseteq group'[o]
      /\ v0 \in Offsets /\ c.ins \subseteq group'[v0]
  BY <1>1, UnionFacts, Zenon DEF IInv, Unite
<1>3. \A k : Sound(k) => Sound(k)'
  BY Zenon DEF Sound, Result
<1>4. Data(c) \in Contents \cup {None} /\ (Intact(c) => Data(c) = c.con)
  BY DataFacts, Zenon
<1>5. Sound(k0) /\ k0.cond = c
  BY <1>4, Zenon DEF Sound
<1>6. k0 \in Constraint
  BY <1>4 DEF Constraint, Result, IInv, TypeOK
<1>7. /\ deps' = [deps EXCEPT ![v0] = @ \cup {k0}] /\ path' = path \cup {c}
      /\ deps \in [Offsets -> SUBSET Constraint]
  BY Zenon DEF Keep, Preserve, IInv, TypeOK
<1> HIDE DEF k0
<1>8. \A o \in Offsets : deps[o] \subseteq deps'[o]
  BY <1>7, Zenon
<1>9. \A o \in Offsets : \A k \in deps'[o] : k \in deps[o] \/ (k = k0 /\ o = v0)
  BY <1>7, Zenon
<1>10. k0 \in deps'[v0]
  BY <1>2, <1>7, Zenon
<1>11. KeptIn(group, deps)'
  <2> SUFFICES ASSUME NEW o \in Offsets, NEW k \in deps'[o]
               PROVE  Sound(k)' /\ k.cond.ins \subseteq group'[o]
    BY Zenon DEF KeptIn
  <2>1. CASE k \in deps[o]
    BY <1>2, <1>3, <2>1, Zenon DEF IInv, KeptIn
  <2>2. CASE k = k0 /\ o = v0
    BY <1>2, <1>3, <1>5, <2>2, Zenon
  <2> QED BY <1>9, <2>1, <2>2, Zenon
<1>12. PathKept'
  <2> SUFFICES ASSUME NEW p \in path' PROVE \E o \in Offsets : \E k \in deps'[o] : k.cond = p
    BY Zenon DEF PathKept
  <2>1. CASE p \in path
    BY <1>8, <2>1, Zenon DEF IInv, PathKept
  <2>2. CASE p = c
    BY <1>2, <1>5, <1>10, <2>2, Zenon
  <2> QED BY <1>7, <2>1, <2>2, Zenon
<1>13. deps' \in [Offsets -> SUBSET Constraint]
  BY <1>6, <1>7, Zenon
<1> QED BY <1>2, <1>7, <1>11, <1>12, <1>13, Zenon DEF Partition, IInv, TypeOK

(* The part of the types that a message of a condition concerns. *)
LEMMA MessageTypes ==
  ASSUME IInv, NEW c \in Conds, Message(c)
  PROVE  /\ seed' = seed /\ seed' \in Inputs /\ sent' \subseteq Conds /\ made' \subseteq Conds
         /\ local' \in [Sites -> Nat] /\ data' \in [Labels -> Contents \cup {None}] /\ DataSent'
<1>1. c.site \in Sites
  BY CondAssumption, Zenon DEF CondRec
<1>2. local' \in [Sites -> Nat]
  BY <1>1 DEF Message, IInv, TypeOK
<1> QED BY <1>2, Zenon DEF Message, IInv, TypeOK, DataSent

LEMMA NoSolSafe ==
  ASSUME out' = NoSol
  PROVE  OutSafe' /\ out' \in [cond : Conds \cup {None}, opt : Inputs \cup {None}, nest : Inputs \cup {None}]
BY Zenon DEF OutSafe, SolutionFlips, NestedFollowsPath, NestedStaysLocal, NoSol

(* A step that gives no solution and leaves the groups as they are. *)
LEMMA QuietStep ==
  ASSUME IInv, out' = NoSol, UNCHANGED <<seed, group, deps, path, joined>>,
         at' \in {"run", "end"}, sent' \subseteq Conds, made' \subseteq Conds,
         local' \in [Sites -> Nat], data' \in [Labels -> Contents \cup {None}], DataSent'
  PROVE  IInv'
<1>1. OutSafe' /\ out' \in [cond : Conds \cup {None}, opt : Inputs \cup {None}, nest : Inputs \cup {None}]
  BY NoSolSafe, Zenon
<1>2. TypeOK'
  BY <1>1, Zenon DEF IInv, TypeOK
<1>3. Partition(group)' /\ PathKept' /\ Minimal'
  BY Zenon DEF IInv, Partition, PathKept, Minimal, Separate
<1>4. KeptIn(group, deps)'
  BY Zenon DEF IInv, KeptIn, Sound, Result
<1> QED BY <1>1, <1>2, <1>3, <1>4, Zenon DEF IInv

(* A step that unites the inputs of a serialized condition. *)
LEMMA UnitedStep ==
  ASSUME IInv, NEW c \in Conds, Serializes(c), Message(c), Unite(c), TimeUp,
         OutSafe', out' \in [cond : Conds \cup {None}, opt : Inputs \cup {None}, nest : Inputs \cup {None}],
         NoKeep \/ \E v0 \in V0(c.ins) : \E v \in {Result(c)} : Keep(c, v, v0)
  PROVE  IInv'
<1>1. /\ seed' = seed /\ seed' \in Inputs /\ sent' \subseteq Conds /\ made' \subseteq Conds
      /\ local' \in [Sites -> Nat] /\ data' \in [Labels -> Contents \cup {None}] /\ DataSent'
  BY MessageTypes, Zenon
<1>2. Minimal'
  BY MinimalStep, Zenon
<1>3. /\ Partition(group)' /\ KeptIn(group, deps)' /\ PathKept'
      /\ group' \in [Offsets -> SUBSET Offsets]
      /\ deps' \in [Offsets -> SUBSET Constraint] /\ path' \subseteq Conds
  <2>1. CASE NoKeep
    BY <1>1, <2>1, UniteStep, Zenon DEF NoKeep, IInv, TypeOK
  <2>2. CASE \E v0 \in V0(c.ins) : \E v \in {Result(c)} : Keep(c, v, v0)
    BY <1>1, <2>2, KeepStep, Zenon
  <2> QED BY <2>1, <2>2, Zenon
<1>4. joined' \subseteq SUBSET Offsets
  BY CondAssumption DEF Unite, IInv, TypeOK, CondRec
<1>5. TypeOK'
  BY <1>1, <1>3, <1>4, Zenon DEF TypeOK, TimeUp
<1> QED BY <1>1, <1>2, <1>3, <1>5, Zenon DEF IInv

(* A condition that is not serialized, or ignored. *)
LEMMA IdleStep ==
  ASSUME IInv, NEW c \in Conds, Message(c), out' = NoSol, at' \in {"run", "end"},
         UNCHANGED <<group, deps, path, joined>>
  PROVE  IInv'
<1>1. /\ seed' = seed /\ sent' \subseteq Conds /\ made' \subseteq Conds
      /\ local' \in [Sites -> Nat] /\ data' \in [Labels -> Contents \cup {None}] /\ DataSent'
  BY MessageTypes, Zenon
<1> QED BY <1>1, QuietStep, Zenon

-----------------------------------------------------------------------------
LEMMA SolveCondKeeps == ASSUME IInv, NEW c \in Conds, SolveCond(c) PROVE IInv'
<1>1. Message(c) /\ TimeUp
  BY Zenon DEF SolveCond
<1>2. CASE Unserialized(c)
  BY <1>1, <1>2, IdleStep, Zenon DEF Unserialized, TimeUp
<1>3. CASE ~Unserialized(c)
  <2>1. PICK v0 \in V0(c.ins) : /\ Serializes(c) /\ Unite(c) /\ out' \in Solutions(c, group', v0)
                                /\ Keep(c, Result(c), v0)
    BY <1>3, Zenon DEF SolveCond
  <2>2. seed' = seed /\ path' \subseteq path \cup {c}
    BY <1>1, <2>1, Zenon DEF Message, Keep
  <2>3. OutSafe' /\ out' \in [cond : Conds \cup {None}, opt : Inputs \cup {None}, nest : Inputs \cup {None}]
    BY <2>1, <2>2, SolvedStep, Zenon
  <2> QED BY <1>1, <2>1, <2>3, UnitedStep, Zenon
<1> QED BY <1>2, <1>3, Zenon

LEMMA SolveGepKeeps == ASSUME IInv, NEW c \in Conds, SolveGep(c) PROVE IInv'
<1>1. Message(c) /\ TimeUp
  BY Zenon DEF SolveGep
<1>2. CASE Unserialized(c)
  BY <1>1, <1>2, IdleStep, Zenon DEF Unserialized, TimeUp
<1>3. CASE ~Unserialized(c)
  <2>1. PICK v0 \in V0(c.ins) : /\ Serializes(c) /\ Unite(c)
                                /\ out' = NoSol \/ out' \in Solutions(c, group', v0)
                                /\ NoKeep \/ Keep(c, Result(c), v0)
    BY <1>3, Zenon DEF SolveGep
  <2>2. seed' = seed /\ path' \subseteq path \cup {c}
    BY <1>1, <2>1, Zenon DEF Message, Keep, NoKeep
  <2>3. OutSafe' /\ out' \in [cond : Conds \cup {None}, opt : Inputs \cup {None}, nest : Inputs \cup {None}]
    BY <2>1, <2>2, SolvedStep, NoSolSafe, Zenon
  <2> QED BY <1>1, <2>1, <2>3, UnitedStep, Zenon
<1> QED BY <1>2, <1>3, Zenon

LEMMA AddConsKeeps == ASSUME IInv, NEW c \in Conds, AddCons(c) PROVE IInv'
<1>1. Message(c) /\ TimeUp /\ out' = NoSol /\ Result(c) = 1
  BY Zenon DEF AddCons
<1>2. CASE Unserialized(c)
  BY <1>1, <1>2, IdleStep, Zenon DEF Unserialized, TimeUp
<1>3. CASE ~Unserialized(c)
  <2>1. PICK v0 \in V0(c.ins) : /\ Serializes(c) /\ Unite(c)
                                /\ NoKeep \/ Keep(c, Result(c), v0)
    BY <1>1, <1>3, Zenon DEF AddCons
  <2>2. OutSafe' /\ out' \in [cond : Conds \cup {None}, opt : Inputs \cup {None}, nest : Inputs \cup {None}]
    BY <1>1, NoSolSafe, Zenon
  <2> QED BY <1>1, <2>1, <2>2, UnitedStep, Zenon
<1> QED BY <1>2, <1>3, Zenon

LEMMA MemcmpDataKeeps == ASSUME IInv, NEW c \in Conds, MemcmpData(c) PROVE IInv'
<1>1. /\ out' = NoSol /\ at' \in {"run", "end"} /\ made' \subseteq Conds
      /\ UNCHANGED <<seed, sent, local, group, deps, path, joined>>
      /\ c.lab # None /\ (data' = [data EXCEPT ![c.lab] = c.con] \/ data' = data)
  BY Zenon DEF MemcmpData, TimeUp, IInv, TypeOK
<1>2. c.lab \in Labels /\ c.con \in Contents \cup {None}
  BY <1>1, CondAssumption, Zenon DEF CondRec
<1>3. data' \in [Labels -> Contents \cup {None}]
  BY <1>1, <1>2, Zenon DEF IInv, TypeOK
<1>4. DataSent'
  <2> SUFFICES ASSUME NEW l \in Labels, data'[l] # None
               PROVE  \E d \in Conds : d.lab = l /\ data'[l] = d.con
    BY Zenon DEF DataSent
  <2>1. data'[l] = data[l] \/ (l = c.lab /\ data'[l] = c.con)
    BY <1>1, <1>2, Zenon DEF IInv, TypeOK
  <2> QED BY <2>1 DEF IInv, DataSent
<1>5. sent' \subseteq Conds /\ local' \in [Sites -> Nat]
  BY <1>1, Zenon DEF IInv, TypeOK
<1> QED BY <1>1, <1>3, <1>4, <1>5, QuietStep, Zenon

(* The invariant holds in every state: for every input length, all         *)
(* conditions and every order in which the target reports them.            *)
THEOREM Invariance == Spec => []IInv
<1>1. Init => IInv
  <2> SUFFICES ASSUME Init PROVE IInv
    BY Zenon
  <2>1. TypeOK
    BY Zenon DEF Init, TypeOK, NoSol
  <2>2. Partition(group) /\ KeptIn(group, deps) /\ PathKept /\ DataSent
    BY Zenon DEF Init, Partition, KeptIn, PathKept, DataSent
  <2>3. Minimal
    BY Zenon DEF Init, Minimal, Separate
  <2>4. OutSafe
    BY Zenon DEF Init, OutSafe, SolutionFlips, NestedFollowsPath, NestedStaysLocal, NoSol
  <2> QED BY <2>1, <2>2, <2>3, <2>4, Zenon DEF IInv
<1>2. IInv /\ [Next]_vars => IInv'
  <2> SUFFICES ASSUME IInv, [Next]_vars PROVE IInv'
    BY Zenon
  <2>1. CASE \E c \in Conds : SolveCond(c) \/ SolveGep(c) \/ AddCons(c) \/ MemcmpData(c)
    BY <2>1, SolveCondKeeps, SolveGepKeeps, AddConsKeeps, MemcmpDataKeeps, Zenon
  <2>2. CASE \E c \in Conds : Ignore(c) \/ Size(c)
    <3>1. PICK c \in Conds : Ignore(c) \/ Size(c)
      BY <2>2, Zenon
    <3>2. /\ Message(c) /\ out' = NoSol /\ UNCHANGED <<group, deps, path, joined>>
          /\ at' \in {"run", "end"}
      BY <3>1, Zenon DEF Ignore, Size, TimeUp, Message
    <3> QED BY <3>2, IdleStep, Zenon
  <2>3. CASE Eof
    <3>1. /\ out' = NoSol /\ at' \in {"run", "end"}
          /\ UNCHANGED <<seed, sent, made, local, data, group, deps, path, joined>>
      BY <2>3, Zenon DEF Eof
    <3>2. /\ sent' \subseteq Conds /\ made' \subseteq Conds /\ local' \in [Sites -> Nat]
          /\ data' \in [Labels -> Contents \cup {None}] /\ DataSent'
      BY <3>1, Zenon DEF IInv, TypeOK, DataSent
    <3> QED BY <3>1, <3>2, QuietStep, Zenon
  <2>4. CASE UNCHANGED vars
    <3>1. TypeOK' /\ Partition(group)' /\ PathKept' /\ DataSent' /\ Minimal'
      BY <2>4 DEF IInv, vars, TypeOK, Partition, PathKept, DataSent, Minimal, Separate
    <3>2. KeptIn(group, deps)'
      BY <2>4, Zenon DEF IInv, vars, KeptIn, Sound, Result
    <3>3. OutSafe'
      BY <2>4, Zenon DEF IInv, vars, OutSafe, SolutionFlips, NestedFollowsPath, NestedStaysLocal, Result, Separate
    <3> QED BY <3>1, <3>2, <3>3, Zenon DEF IInv
  <2> QED BY <2>1, <2>2, <2>3, <2>4, Zenon DEF Next
<1> QED BY <1>1, <1>2, PTL DEF Spec

(* The solver's maps, groups and solutions keep their types. *)
THEOREM TypeCorrect == Spec => []TypeOK
BY Invariance, PTL DEF IInv

(* Every solution changes the value of the condition it was solved for. *)
THEOREM SolutionFlipsHolds == Spec => []SolutionFlips
BY Invariance, PTL DEF IInv, OutSafe

(* On a nested solution every condition preserved before has the seed's    *)
(* value, whatever HashSet order chose the offset it was kept at.          *)
THEOREM NestedFollowsPathHolds == Spec => []NestedFollowsPath
BY Invariance, PTL DEF IInv, OutSafe

(* A nested solution changes only bytes that conditions connect with the   *)
(* solved one.                                                             *)
THEOREM NestedStaysLocalHolds == Spec => []NestedStaysLocal
BY Invariance, PTL DEF IInv, OutSafe

-----------------------------------------------------------------------------
(* The threads and processes around the solver. *)

Occupied(j) == loop[j].at \in {"track", "spawn", "close", "solve", "reap"}
Holding(j) == loop[j].at \in {"spawn", "close"}
OpenWrites == fz \cap WriteEnds

(* Every input that is being tracked was handed out, to one fuzz_loop      *)
(* only, and its tracking is not over.                                     *)
Tracking ==
  /\ \A j \in Jobs : Occupied(j) => loop[j].id < next /\ loop[j].id \in Ids /\ loop[j].id \notin done
  /\ \A j, k \in Jobs : Occupied(j) /\ Occupied(k) /\ loop[j].id = loop[k].id => j = k
  /\ \A i \in done : i < next

(* The lock protects the write end. *)
Locked ==
  /\ \A j \in Jobs : Holding(j) => lock = "held" /\ OpenWrites = {W(loop[j].id)}
  /\ lock = "free" => OpenWrites = {}

(* No process has an end that is not its own. *)
OwnEnds ==
  /\ inherited = {}
  /\ \A i \in Ids : target[i].held = IF target[i].at = "none" THEN {} ELSE {W(i)}

(* What is closed, and who may be left, when a fuzz_loop gets that far. *)
Closed ==
  /\ \A j \in Jobs : loop[j].at \in {"solve", "reap"} => W(loop[j].id) \notin fz
  /\ \A j \in Jobs : loop[j].at = "reap" =>
       R(loop[j].id) \notin fz /\ (Alive(loop[j].id) => loop[j].id \in left)
  /\ EndsClosed
  /\ StraysWereLeft

PipelineInv == PipelineTypeOK /\ Tracking /\ Locked /\ OwnEnds /\ Closed

-----------------------------------------------------------------------------
(* The ends of different pipes differ, and no read end is a write end. *)
LEMMA EndFacts ==
  /\ WriteEnds \subseteq Ends
  /\ \A i \in Ids : W(i) \in WriteEnds /\ R(i) \in Ends /\ R(i) \notin WriteEnds
  /\ \A i, k \in Ids : W(i) = W(k) => i = k
  /\ \A i, k \in Ids : R(i) = R(k) => i = k
  /\ \A i, k \in Ids : W(i) # R(k)
BY Zenon DEF WriteEnds, Ends, W, R

(* A step that neither moves a fuzz_loop nor opens or closes anything      *)
(* keeps everything but the types.                                         *)
LEMMA QuietKeeps ==
  ASSUME Tracking, Locked, OwnEnds, Closed,
         UNCHANGED <<next, loop, lock, fz, target, inherited, done, left>>
  PROVE  Tracking' /\ Locked' /\ OwnEnds' /\ Closed'
BY Zenon DEF Tracking, Locked, OwnEnds, Closed, Occupied, Holding, OpenWrites, EndsClosed, StraysWereLeft, Alive

(* Starting a fork server, or failing to: nothing is inherited, because    *)
(* no write end is open while the lock is free.                            *)
LEMMA ServerStep ==
  ASSUME PipelineInv, StartServer \/ PanicInLock, UNCHANGED <<next, fz, target, done, left>>,
         NEW j \in Jobs, NEW a \in {"poll", "dead"}, ~Occupied(j),
         loop' = loop \/ loop' = [loop EXCEPT ![j].at = a]
  PROVE  Tracking' /\ Locked' /\ OwnEnds' /\ Closed' /\ lock' \in {"free", "poisoned"}
<1> USE DEF PipelineInv
<1>1. /\ lock' \in {"free", "poisoned"}
      /\ lock' = "free" => lock = "free"
      /\ lock # "held"
  BY Zenon DEF StartServer, PanicInLock
<1>2. inherited' = {}
  BY Zenon DEF StartServer, PanicInLock, OwnEnds, Locked, OpenWrites
<1>3. \A k \in Jobs : /\ Occupied(k)' => Occupied(k) /\ loop'[k] = loop[k]
                      /\ ~Holding(k)'
  BY <1>1 DEF Occupied, Holding, Locked, PipelineTypeOK, LoopRec
<1>4. \A k \in Jobs : loop'[k].at \in {"solve", "reap"} => loop'[k] = loop[k]
  BY <1>3, Zenon DEF Occupied
<1>5. Tracking'
  BY <1>3, Zenon DEF Tracking
<1>6. Locked'
  BY <1>1, <1>3, Zenon DEF Locked, OpenWrites
<1>7. OwnEnds'
  BY <1>2, Zenon DEF OwnEnds
<1>8. Closed'
  BY <1>4, Zenon DEF Closed, EndsClosed, StraysWereLeft, Alive
<1> QED BY <1>1, <1>5, <1>6, <1>7, <1>8, Zenon

-----------------------------------------------------------------------------
LEMMA LoopNewKeeps == ASSUME PipelineInv, NEW j \in Jobs, LoopNew(j) PROVE PipelineInv'
<1>1. ~Occupied(j)
  BY Zenon DEF LoopNew, Occupied
<1>2. \E a \in {"poll", "dead"} : loop' = [loop EXCEPT ![j].at = a]
  BY Zenon DEF LoopNew
<1>3. /\ StartServer \/ PanicInLock
      /\ UNCHANGED <<next, fz, target, done, left>>
  BY Zenon DEF LoopNew, threadVars
<1>4. Tracking' /\ Locked' /\ OwnEnds' /\ Closed' /\ lock' \in {"free", "poisoned"}
  BY <1>1, <1>2, <1>3, ServerStep, Zenon
<1>5. PipelineTypeOK'
  <2>1. loop' \in [Jobs -> LoopRec]
    BY <1>2 DEF PipelineInv, PipelineTypeOK, LoopRec
  <2>2. inherited' \subseteq WriteEnds
    BY <1>4, Zenon DEF OwnEnds
  <2> QED BY <1>4, <2>1, <2>2, Zenon DEF PipelineInv, PipelineTypeOK, LoopNew, threadVars
<1> QED BY <1>4, <1>5, Zenon DEF PipelineInv

LEMMA GraderServerKeeps == ASSUME PipelineInv, NEW j \in Jobs, GraderServer(j) PROVE PipelineInv'
<1>1. /\ StartServer \/ PanicInLock
      /\ UNCHANGED <<next, fz, target, done, left>> /\ loop' = loop
  BY Zenon DEF GraderServer
<1>2. Tracking' /\ Locked' /\ OwnEnds' /\ Closed' /\ lock' \in {"free", "poisoned"}
  <2>1. inherited' = {}
    BY <1>1, Zenon DEF StartServer, PanicInLock, PipelineInv, OwnEnds, Locked, OpenWrites
  <2>2. lock' \in {"free", "poisoned"} /\ lock # "held" /\ (lock' = "free" => lock = "free")
    BY <1>1, Zenon DEF StartServer, PanicInLock
  <2>3. \A k \in Jobs : ~Holding(k)
    BY <2>2, Zenon DEF PipelineInv, Locked
  <2>4. Locked'
    BY <1>1, <2>2, <2>3, Zenon DEF PipelineInv, Locked, Holding, OpenWrites
  <2>5. Tracking' /\ OwnEnds' /\ Closed'
    BY <1>1, <2>1, Zenon DEF PipelineInv, Tracking, OwnEnds, Closed, Occupied, EndsClosed, StraysWereLeft, Alive
  <2> QED BY <2>2, <2>4, <2>5, Zenon
<1>3. PipelineTypeOK'
  <2>1. inherited' \subseteq WriteEnds
    BY <1>2, Zenon DEF OwnEnds
  <2>2. grader' \in [Jobs -> {"new", "pop", "grade", "rebind", "end", "dead"}]
    BY Zenon DEF PipelineInv, PipelineTypeOK, GraderServer, Again
  <2> QED BY <1>1, <1>2, <2>1, <2>2, Zenon DEF PipelineInv, PipelineTypeOK, GraderServer
<1> QED BY <1>2, <1>3, Zenon DEF PipelineInv

LEMMA LoopPollKeeps == ASSUME PipelineInv, NEW j \in Jobs, LoopPoll(j) PROVE PipelineInv'
<1> USE DEF PipelineInv
<1>1. /\ loop' = [loop EXCEPT ![j] = [at |-> "track", id |-> next]]
      /\ next' = next + 1 /\ next < saved /\ ~Occupied(j)
      /\ UNCHANGED <<lock, fz, target, guarded, pipe, inherited, done, left, running, main, saved, grader, queue>>
  BY Zenon DEF LoopPoll, procVars, Occupied
<1>2. next \in Ids /\ next \in Nat
  BY <1>1, BoundAssumption DEF PipelineTypeOK, Ids
<1>3. PipelineTypeOK'
  <2>1. loop' \in [Jobs -> LoopRec]
    BY <1>1, <1>2, Zenon DEF PipelineTypeOK, LoopRec
  <2>2. next' \in 0 .. saved
    BY <1>1, BoundAssumption DEF PipelineTypeOK
  <2> QED BY <1>1, <2>1, <2>2, Zenon DEF PipelineTypeOK
<1>4. \A k \in Jobs : k # j => loop'[k] = loop[k]
  BY <1>1, Zenon DEF PipelineTypeOK
<1>5. loop'[j] = [at |-> "track", id |-> next]
  BY <1>1, Zenon DEF PipelineTypeOK
<1>6. Tracking'
  <2>1. \A i \in done : i < next' /\ i # next
    BY <1>1, <1>2 DEF Tracking, PipelineTypeOK, Ids
  <2>2. \A k \in Jobs : k # j /\ Occupied(k)' => loop'[k].id < next /\ loop'[k].id \in Ids /\ loop'[k].id \notin done
    BY <1>4, Zenon DEF Tracking, Occupied
  <2>3. \A k \in Jobs : k # j /\ Occupied(k)' => loop'[k].id < next' /\ loop'[k].id # next
    BY <1>1, <1>2, <2>2 DEF Ids
  <2>4. \A k \in Jobs : Occupied(k)' => loop'[k].id < next' /\ loop'[k].id \in Ids /\ loop'[k].id \notin done
    BY <1>1, <1>2, <1>5, <2>1, <2>2, <2>3
  <2>5. \A k, m \in Jobs : Occupied(k)' /\ Occupied(m)' /\ loop'[k].id = loop'[m].id => k = m
    BY <1>4, <1>5, <2>3 DEF Tracking, Occupied
  <2> QED BY <1>1, <2>1, <2>4, <2>5, Zenon DEF Tracking
<1>7. Locked'
  BY <1>1, <1>4, <1>5 DEF Locked, Holding, OpenWrites
<1>8. OwnEnds'
  BY <1>1, Zenon DEF OwnEnds
<1>9. Closed'
  BY <1>1, <1>4, <1>5 DEF Closed, EndsClosed, StraysWereLeft, Alive
<1> QED BY <1>3, <1>6, <1>7, <1>8, <1>9, Zenon

LEMMA LoopEndKeeps == ASSUME PipelineInv, NEW j \in Jobs, LoopEnd(j) PROVE PipelineInv'
<1> USE DEF PipelineInv
<1>1. /\ loop' = [loop EXCEPT ![j].at = "end"] /\ ~Occupied(j)
      /\ UNCHANGED <<threadVars, lock, fz, target, guarded, pipe, inherited, done, left>>
  BY Zenon DEF LoopEnd, procVars, Occupied
<1>2. \A k \in Jobs : k # j => loop'[k] = loop[k]
  BY <1>1, Zenon DEF PipelineTypeOK
<1>3. loop'[j].at = "end"
  BY <1>1 DEF PipelineTypeOK
<1>4. PipelineTypeOK'
  BY <1>1 DEF PipelineTypeOK, LoopRec, threadVars
<1>5. Tracking'
  BY <1>1, <1>2, <1>3 DEF Tracking, Occupied, threadVars
<1>6. Locked' /\ OwnEnds'
  BY <1>1, <1>2, <1>3, Zenon DEF Locked, OwnEnds, Holding, OpenWrites
<1>7. Closed'
  BY <1>1, <1>2, <1>3 DEF Closed, EndsClosed, StraysWereLeft, Alive
<1> QED BY <1>4, <1>5, <1>6, <1>7, Zenon

-----------------------------------------------------------------------------
LEMMA TrackPipeKeeps == ASSUME PipelineInv, NEW j \in Jobs, TrackPipe(j) PROVE PipelineInv'
<1> USE DEF PipelineInv
<1> DEFINE i == loop[j].id
<1>1. /\ loop' = [loop EXCEPT ![j].at = "spawn"] /\ loop[j].at = "track"
      /\ lock = "free" /\ lock' = "held" /\ fz' = fz \cup {R(i), W(i)}
      /\ UNCHANGED <<threadVars, target, guarded, pipe, inherited, done, left>>
  BY Zenon DEF TrackPipe, procVars
<1>2. \A k \in Jobs : k # j => loop'[k] = loop[k]
  BY <1>1, Zenon DEF PipelineTypeOK
<1>3. loop'[j].at = "spawn" /\ loop'[j].id = i
  BY <1>1, Zenon DEF PipelineTypeOK, LoopRec
<1>4. i \in Ids /\ i < next /\ i \notin done
  BY <1>1, Zenon DEF Tracking, Occupied
<1>5. PipelineTypeOK'
  <2>1. fz' \subseteq Ends
    BY <1>1, <1>4, EndFacts DEF PipelineTypeOK
  <2> QED BY <1>1, <2>1 DEF PipelineTypeOK, LoopRec, threadVars
<1>6. Tracking'
  BY <1>1, <1>2, <1>3 DEF Tracking, Occupied, threadVars
<1>7. Locked'
  <2>1. OpenWrites' = {W(i)}
    BY <1>1, <1>4, EndFacts DEF Locked, OpenWrites
  <2>2. \A k \in Jobs : k # j => ~Holding(k)'
    BY <1>1, <1>2, Zenon DEF Locked, Holding
  <2> QED BY <1>1, <1>3, <2>1, <2>2, Zenon DEF Locked
<1>8. OwnEnds'
  BY <1>1, Zenon DEF OwnEnds
<1>9. Closed'
  <2>1. \A k \in Jobs : loop'[k].at \in {"solve", "reap"} =>
          loop'[k] = loop[k] /\ loop[k].id \in Ids /\ loop[k].id # i
    BY <1>1, <1>2, <1>3 DEF Tracking, Occupied
  <2>2. \A k \in Jobs : loop'[k].at \in {"solve", "reap"} => W(loop'[k].id) \notin fz'
    BY <1>1, <1>4, <2>1, EndFacts DEF Closed
  <2>3. \A k \in Jobs : loop'[k].at = "reap" =>
          R(loop'[k].id) \notin fz' /\ (Alive(loop'[k].id) => loop'[k].id \in left)
    BY <1>1, <1>4, <2>1, EndFacts DEF Closed
  <2>4. EndsClosed'
    BY <1>1, <1>4, EndFacts DEF Closed, EndsClosed, PipelineTypeOK
  <2> QED BY <1>1, <2>2, <2>3, <2>4, Zenon DEF Closed, StraysWereLeft, Alive
<1> QED BY <1>5, <1>6, <1>7, <1>8, <1>9, Zenon

LEMMA TrackPanicKeeps == ASSUME PipelineInv, NEW j \in Jobs, TrackPanic(j) PROVE PipelineInv'
<1> USE DEF PipelineInv
<1>1. /\ loop' = [loop EXCEPT ![j].at = "dead"]
      /\ lock # "held" /\ lock' = "poisoned"
      /\ UNCHANGED <<threadVars, fz, target, guarded, pipe, inherited, done, left>>
  BY Zenon DEF TrackPanic, PanicInLock
<1>2. \A k \in Jobs : k # j => loop'[k] = loop[k]
  BY <1>1, Zenon DEF PipelineTypeOK
<1>3. loop'[j].at = "dead"
  BY <1>1 DEF PipelineTypeOK
<1>4. PipelineTypeOK'
  BY <1>1 DEF PipelineTypeOK, LoopRec, threadVars
<1>5. Tracking'
  BY <1>1, <1>2, <1>3 DEF Tracking, Occupied, threadVars
<1>6. Locked' /\ OwnEnds'
  BY <1>1, <1>2, <1>3, Zenon DEF Locked, OwnEnds, Holding
<1>7. Closed'
  BY <1>1, <1>2, <1>3 DEF Closed, EndsClosed, StraysWereLeft, Alive
<1> QED BY <1>4, <1>5, <1>6, <1>7, Zenon

LEMMA TrackSpawnKeeps == ASSUME PipelineInv, NEW j \in Jobs, TrackSpawn(j) PROVE PipelineInv'
<1> USE DEF PipelineInv
<1> DEFINE i == loop[j].id
<1>1. /\ loop' = [loop EXCEPT ![j].at = "close"] /\ loop[j].at = "spawn"
      /\ target' = [target EXCEPT ![i] = [at |-> "run", held |-> OpenWrites]]
      /\ guarded' = guarded \cup {i}
      /\ UNCHANGED <<threadVars, lock, fz, pipe, inherited, done, left>>
  BY Zenon DEF TrackSpawn, OpenWrites
<1>2. \A k \in Jobs : k # j => loop'[k] = loop[k]
  BY <1>1, Zenon DEF PipelineTypeOK
<1>3. loop'[j].at = "close" /\ loop'[j].id = i
  BY <1>1, Zenon DEF PipelineTypeOK, LoopRec
<1>4. i \in Ids /\ i < next /\ i \notin done /\ OpenWrites = {W(i)}
  BY <1>1, Zenon DEF Tracking, Occupied, Locked, Holding
<1>5. PipelineTypeOK'
  <2>1. target' \in [Ids -> [at : {"none", "run", "gone"}, held : SUBSET WriteEnds]]
    BY <1>1, <1>4, EndFacts DEF PipelineTypeOK
  <2> QED BY <1>1, <1>4, <2>1 DEF PipelineTypeOK, LoopRec, threadVars
<1>6. Tracking'
  BY <1>1, <1>2, <1>3 DEF Tracking, Occupied, threadVars
<1>7. Locked'
  BY <1>1, <1>2, <1>3, Zenon DEF Locked, Holding, OpenWrites
<1>8. OwnEnds'
  BY <1>1, <1>4, Zenon DEF OwnEnds, PipelineTypeOK
<1>9. Closed'
  <2>1. \A k \in Jobs : loop'[k].at \in {"solve", "reap"} =>
          loop'[k] = loop[k] /\ loop[k].id \in Ids /\ loop[k].id # i
    BY <1>1, <1>2, <1>3 DEF Tracking, Occupied
  <2>2. \A t \in Ids : t # i => target'[t] = target[t]
    BY <1>1, Zenon DEF PipelineTypeOK
  <2> QED BY <1>1, <1>4, <2>1, <2>2 DEF Closed, EndsClosed, StraysWereLeft, Alive, PipelineTypeOK
<1> QED BY <1>5, <1>6, <1>7, <1>8, <1>9, Zenon

LEMMA TrackSpawnPanicKeeps == ASSUME PipelineInv, NEW j \in Jobs, TrackSpawnPanic(j) PROVE PipelineInv'
<1> USE DEF PipelineInv
<1>1. /\ loop' = [loop EXCEPT ![j].at = "dead"] /\ loop[j].at = "spawn"
      /\ lock' = "poisoned"
      /\ UNCHANGED <<threadVars, fz, target, guarded, pipe, inherited, done, left>>
  BY Zenon DEF TrackSpawnPanic, procVars
<1>2. \A k \in Jobs : k # j => loop'[k] = loop[k]
  BY <1>1, Zenon DEF PipelineTypeOK
<1>3. loop'[j].at = "dead"
  BY <1>1 DEF PipelineTypeOK
<1>4. PipelineTypeOK'
  BY <1>1 DEF PipelineTypeOK, LoopRec, threadVars
<1>5. Tracking'
  BY <1>1, <1>2, <1>3 DEF Tracking, Occupied, threadVars
<1>6. Locked' /\ OwnEnds'
  <2>1. \A k \in Jobs : k # j => ~Holding(k)
    <3> SUFFICES ASSUME NEW k \in Jobs, k # j, Holding(k) PROVE FALSE
      BY Zenon
    <3>1. OpenWrites = {W(loop[j].id)} /\ OpenWrites = {W(loop[k].id)}
      BY <1>1, Zenon DEF Locked, Holding
    <3>2. loop[j].id \in Ids /\ loop[k].id \in Ids /\ loop[j].id # loop[k].id
      BY <1>1, Zenon DEF Tracking, Occupied, Holding
    <3> QED BY <3>1, <3>2, EndFacts, Zenon
  <2> QED BY <1>1, <1>2, <1>3, <2>1, Zenon DEF Locked, OwnEnds, Holding
<1>7. Closed'
  BY <1>1, <1>2, <1>3 DEF Closed, EndsClosed, StraysWereLeft, Alive
<1> QED BY <1>4, <1>5, <1>6, <1>7, Zenon

LEMMA TrackCloseKeeps == ASSUME PipelineInv, NEW j \in Jobs, TrackClose(j) PROVE PipelineInv'
<1> USE DEF PipelineInv
<1> DEFINE i == loop[j].id
<1>1. /\ loop' = [loop EXCEPT ![j].at = "solve"] /\ loop[j].at = "close"
      /\ lock' = "free" /\ fz' = fz \ {W(i)}
      /\ UNCHANGED <<threadVars, target, guarded, pipe, inherited, done, left>>
  BY Zenon DEF TrackClose, procVars
<1>2. \A k \in Jobs : k # j => loop'[k] = loop[k]
  BY <1>1, Zenon DEF PipelineTypeOK
<1>3. loop'[j].at = "solve" /\ loop'[j].id = i
  BY <1>1, Zenon DEF PipelineTypeOK, LoopRec
<1>4. PipelineTypeOK'
  BY <1>1 DEF PipelineTypeOK, LoopRec, threadVars
<1>5. Tracking'
  BY <1>1, <1>2, <1>3 DEF Tracking, Occupied, threadVars
<1>6. Locked'
  <2>1. OpenWrites' = {}
    BY <1>1, Zenon DEF Locked, Holding, OpenWrites
  <2>2. \A k \in Jobs : k # j => ~Holding(k)
    <3> SUFFICES ASSUME NEW k \in Jobs, k # j, Holding(k) PROVE FALSE
      BY Zenon
    <3>1. OpenWrites = {W(i)} /\ OpenWrites = {W(loop[k].id)}
      BY <1>1, Zenon DEF Locked, Holding
    <3>2. i \in Ids /\ loop[k].id \in Ids /\ i # loop[k].id
      BY <1>1, Zenon DEF Tracking, Occupied, Holding
    <3> QED BY <3>1, <3>2, EndFacts, Zenon
  <2> QED BY <1>2, <1>3, <2>1, <2>2, Zenon DEF Locked, Holding
<1>7. OwnEnds'
  BY <1>1, Zenon DEF OwnEnds
<1>8. Closed'
  BY <1>1, <1>2, <1>3 DEF Closed, EndsClosed, StraysWereLeft, Alive
<1> QED BY <1>4, <1>5, <1>6, <1>7, <1>8, Zenon

-----------------------------------------------------------------------------
(* The solver reads a message: the step before what it does to the loop. *)
LEMMA ReadMsgFacts ==
  ASSUME PipelineInv, NEW j \in Jobs, ReadMsg(j)
  PROVE  /\ loop[j].at = "solve" /\ loop[j].id \in Ids
         /\ pipe' \in [Ids -> 0 .. PipeCap]
         /\ queue' \in [Jobs -> 0 .. MaxQueue]
         /\ UNCHANGED <<running, main, saved, next, grader, lock, target, guarded, inherited, done>>
<1>1. loop[j].at = "solve" /\ loop[j].id \in Ids
  BY Zenon DEF ReadMsg, PipelineInv, Tracking, Occupied
<1>2. pipe[loop[j].id] - 1 \in 0 .. PipeCap
  BY <1>1, BoundAssumption DEF ReadMsg, PipelineInv, PipelineTypeOK
<1>3. pipe' \in [Ids -> 0 .. PipeCap]
  BY <1>1, <1>2, Zenon DEF ReadMsg, PipelineInv, PipelineTypeOK
<1>4. queue' \in [Jobs -> 0 .. MaxQueue]
  BY BoundAssumption DEF ReadMsg, Push, PipelineInv, PipelineTypeOK
<1> QED BY <1>1, <1>3, <1>4, Zenon DEF ReadMsg

LEMMA SolverMsgKeeps == ASSUME PipelineInv, NEW j \in Jobs, SolverMsg(j) PROVE PipelineInv'
<1>1. ReadMsg(j) /\ UNCHANGED <<loop, fz, left>>
  BY Zenon DEF SolverMsg
<1>2. /\ pipe' \in [Ids -> 0 .. PipeCap] /\ queue' \in [Jobs -> 0 .. MaxQueue]
      /\ UNCHANGED <<running, main, saved, next, grader, lock, target, guarded, inherited, done>>
  BY <1>1, ReadMsgFacts, Zenon
<1>3. PipelineTypeOK'
  BY <1>1, <1>2, Zenon DEF PipelineInv, PipelineTypeOK
<1>4. Tracking' /\ Locked' /\ OwnEnds' /\ Closed'
  BY <1>1, <1>2, QuietKeeps, Zenon DEF PipelineInv
<1> QED BY <1>3, <1>4, Zenon DEF PipelineInv

(* The solver ends, closing the read end, before the end of the pipe or at *)
(* it, when nobody can write any more.                                     *)
LEMMA SolverEndKeeps ==
  ASSUME PipelineInv, NEW j \in Jobs, loop[j].at = "solve",
         fz' = fz \ {R(loop[j].id)},
         loop' = [loop EXCEPT ![j].at = "reap"],
         UNCHANGED <<next, lock, target, inherited, done>>,
         \/ left' = left \cup {loop[j].id}
         \/ left' = left /\ ~CanWrite(loop[j].id)
  PROVE  /\ Tracking' /\ Locked' /\ OwnEnds' /\ Closed'
         /\ loop' \in [Jobs -> LoopRec] /\ fz' \subseteq Ends /\ left' \subseteq Ids
<1> USE DEF PipelineInv
<1> DEFINE i == loop[j].id
<1>1. \A k \in Jobs : k # j => loop'[k] = loop[k]
  BY Zenon DEF PipelineTypeOK
<1>2. loop'[j].at = "reap" /\ loop'[j].id = i
  BY Zenon DEF PipelineTypeOK, LoopRec
<1>3. i \in Ids /\ W(i) \notin fz
  BY Zenon DEF Tracking, Occupied, Closed
<1>4. Alive(i) => i \in left'
  <2>1. Alive(i) => CanWrite(i)
    BY <1>3, Zenon DEF CanWrite, Alive, OwnEnds
  <2> QED BY <2>1, Zenon
<1>5. left \subseteq left' /\ left' \subseteq Ids
  BY <1>3, Zenon DEF PipelineTypeOK
<1>6. Tracking'
  BY <1>1, <1>2 DEF Tracking, Occupied
<1>7. Locked'
  <2>1. OpenWrites' = OpenWrites
    BY <1>3, EndFacts, Zenon DEF OpenWrites
  <2> QED BY <1>1, <1>2, <2>1, Zenon DEF Locked, Holding
<1>8. OwnEnds'
  BY Zenon DEF OwnEnds
<1>9. Closed'
  <2>1. \A k \in Jobs : loop'[k].at \in {"solve", "reap"} => W(loop'[k].id) \notin fz'
    BY <1>1, <1>2, <1>3 DEF Closed
  <2>2. \A k \in Jobs : loop'[k].at = "reap" =>
          R(loop'[k].id) \notin fz' /\ (target'[loop'[k].id].at = "run" => loop'[k].id \in left')
    BY <1>1, <1>2, <1>4, <1>5 DEF Closed, Alive
  <2>3. EndsClosed' /\ StraysWereLeft'
    BY <1>5, Zenon DEF Closed, EndsClosed, StraysWereLeft, Alive
  <2> QED BY <2>1, <2>2, <2>3, Zenon DEF Closed, Alive
<1>10. loop' \in [Jobs -> LoopRec] /\ fz' \subseteq Ends
  BY DEF PipelineTypeOK, LoopRec
<1> QED BY <1>5, <1>6, <1>7, <1>8, <1>9, <1>10, Zenon

LEMMA SolverBreakKeeps == ASSUME PipelineInv, NEW j \in Jobs, SolverBreak(j) PROVE PipelineInv'
<1>1. /\ ReadMsg(j) /\ fz' = fz \ {R(loop[j].id)} /\ left' = left \cup {loop[j].id}
      /\ loop' = [loop EXCEPT ![j].at = "reap"]
  BY Zenon DEF SolverBreak
<1>2. /\ loop[j].at = "solve"
      /\ pipe' \in [Ids -> 0 .. PipeCap] /\ queue' \in [Jobs -> 0 .. MaxQueue]
      /\ UNCHANGED <<running, main, saved, next, grader, lock, target, guarded, inherited, done>>
  BY <1>1, ReadMsgFacts, Zenon
<1>3. /\ Tracking' /\ Locked' /\ OwnEnds' /\ Closed'
      /\ loop' \in [Jobs -> LoopRec] /\ fz' \subseteq Ends /\ left' \subseteq Ids
  BY <1>1, <1>2, SolverEndKeeps, Zenon
<1> QED BY <1>2, <1>3, Zenon DEF PipelineInv, PipelineTypeOK

LEMMA SolverEofKeeps == ASSUME PipelineInv, NEW j \in Jobs, SolverEof(j) PROVE PipelineInv'
<1>1. /\ loop[j].at = "solve" /\ fz' = fz \ {R(loop[j].id)}
      /\ loop' = [loop EXCEPT ![j].at = "reap"]
      /\ left' = left /\ ~CanWrite(loop[j].id)
      /\ UNCHANGED <<threadVars, lock, target, guarded, pipe, inherited, done>>
  BY Zenon DEF SolverEof, procVars
<1>2. UNCHANGED <<next, lock, target, inherited, done>>
  BY <1>1, Zenon DEF threadVars
<1>3. /\ Tracking' /\ Locked' /\ OwnEnds' /\ Closed'
      /\ loop' \in [Jobs -> LoopRec] /\ fz' \subseteq Ends /\ left' \subseteq Ids
  BY <1>1, <1>2, SolverEndKeeps, Zenon
<1> QED BY <1>1, <1>3, Zenon DEF PipelineInv, PipelineTypeOK, threadVars

LEMMA LoopReapKeeps == ASSUME PipelineInv, NEW j \in Jobs, LoopReap(j) PROVE PipelineInv'
<1> USE DEF PipelineInv
<1> DEFINE i == loop[j].id
<1>1. /\ loop' = [loop EXCEPT ![j].at = "poll"] /\ loop[j].at = "reap"
      /\ guarded' = guarded \ {i} /\ done' = done \cup {i}
      /\ UNCHANGED <<threadVars, lock, fz, target, pipe, inherited, left>>
  BY Zenon DEF LoopReap
<1>2. \A k \in Jobs : k # j => loop'[k] = loop[k]
  BY <1>1, Zenon DEF PipelineTypeOK
<1>3. loop'[j].at = "poll"
  BY <1>1 DEF PipelineTypeOK
<1>4. i \in Ids /\ i < next
  BY <1>1, Zenon DEF Tracking, Occupied
<1>5. PipelineTypeOK'
  BY <1>1, <1>4 DEF PipelineTypeOK, LoopRec, threadVars
<1>6. Tracking'
  BY <1>1, <1>2, <1>3, <1>4 DEF Tracking, Occupied, threadVars
<1>7. Locked' /\ OwnEnds'
  BY <1>1, <1>2, <1>3, Zenon DEF Locked, OwnEnds, Holding, OpenWrites
<1>8. Closed'
  BY <1>1, <1>2, <1>3, <1>4 DEF Closed, EndsClosed, StraysWereLeft, Alive
<1> QED BY <1>5, <1>6, <1>7, <1>8, Zenon

LEMMA TargetEndKeeps == ASSUME PipelineInv, NEW t \in Ids, TargetEnd(t) PROVE PipelineInv'
<1> USE DEF PipelineInv
<1>1. /\ target' = [target EXCEPT ![t].at = "gone"] /\ target[t].at = "run"
      /\ UNCHANGED <<threadVars, loop, lock, fz, guarded, pipe, inherited, done, left>>
  BY Zenon DEF TargetEnd, Alive
<1>2. PipelineTypeOK'
  BY <1>1, Zenon DEF PipelineTypeOK, threadVars
<1>3. Tracking' /\ Locked'
  BY <1>1, Zenon DEF Tracking, Locked, Occupied, Holding, OpenWrites, threadVars
<1>4. OwnEnds'
  BY <1>1, Zenon DEF OwnEnds, PipelineTypeOK
<1>5. \A i \in Ids : Alive(i)' => Alive(i)
  BY <1>1, Zenon DEF Alive, PipelineTypeOK
<1>6. \A j \in Jobs : loop[j].at = "reap" => loop[j].id \in Ids
  BY Zenon DEF Tracking, Occupied
<1>7. Closed'
  BY <1>1, <1>5, <1>6, Zenon DEF Closed, EndsClosed, StraysWereLeft, PipelineTypeOK
<1> QED BY <1>2, <1>3, <1>4, <1>7, Zenon

(* Steps that touch only counters of the depot, queues and pipes. *)
LEMMA OtherKeeps ==
  ASSUME PipelineInv,
         \/ \E j \in Jobs : GraderPop(j) \/ GraderGrade(j)
         \/ MainSync \/ MainJoin \/ Sigint
         \/ \E i \in Ids : TargetWrite(i)
         \/ UNCHANGED pipelineVars
  PROVE  PipelineInv'
<1>1. UNCHANGED <<next, loop, lock, fz, target, inherited, done, left>>
  BY Zenon DEF GraderPop, GraderGrade, MainSync, MainJoin, Sigint, TargetWrite, pipelineVars, threadVars, procVars
<1>2. Tracking' /\ Locked' /\ OwnEnds' /\ Closed'
  BY <1>1, QuietKeeps, Zenon DEF PipelineInv
<1>3. PipelineTypeOK'
  <2>1. CASE \E j \in Jobs : GraderPop(j) \/ GraderGrade(j)
    BY <2>1, BoundAssumption DEF PipelineInv, PipelineTypeOK, GraderPop, GraderGrade, Save, Again, procVars
  <2>2. CASE MainSync \/ MainJoin \/ Sigint
    <3>1. UNCHANGED <<next, grader, queue, loop, lock, fz, target, guarded, pipe, inherited, done, left>>
      BY <2>2, Zenon DEF MainSync, MainJoin, Sigint, procVars
    <3>2. saved' \in 0 .. MaxInputs /\ next \in 0 .. saved'
      BY <2>2, BoundAssumption DEF PipelineInv, PipelineTypeOK, MainSync, MainJoin, Sigint
    <3>3. running' \in BOOLEAN /\ main' \in {"sync", "end"}
      BY <2>2, Zenon DEF PipelineInv, PipelineTypeOK, MainSync, MainJoin, Sigint
    <3> QED BY <3>1, <3>2, <3>3, Zenon DEF PipelineInv, PipelineTypeOK
  <2>3. CASE \E i \in Ids : TargetWrite(i)
    BY <2>3, BoundAssumption DEF PipelineInv, PipelineTypeOK, TargetWrite, threadVars
  <2>4. CASE UNCHANGED pipelineVars
    BY <2>4, Zenon DEF PipelineInv, PipelineTypeOK, pipelineVars, threadVars, procVars
  <2> QED BY <2>1, <2>2, <2>3, <2>4, Zenon
<1> QED BY <1>2, <1>3, Zenon DEF PipelineInv

-----------------------------------------------------------------------------
(* The invariant holds in every state, for any number of jobs and inputs   *)
(* and any interleaving of fuzz_loops, solvers, graders and targets.       *)
THEOREM PipelineInvariance == PipelineSpec => []PipelineInv
<1>1. PipelineInit => PipelineInv
  <2> SUFFICES ASSUME PipelineInit PROVE PipelineInv
    BY Zenon
  <2>1. PipelineTypeOK
    BY BoundAssumption DEF PipelineInit, PipelineTypeOK, LoopRec, NoTarget
  <2>2. Tracking /\ Locked /\ OwnEnds /\ Closed
    BY Zenon DEF PipelineInit, Tracking, Locked, OwnEnds, Closed, Occupied, Holding, OpenWrites, EndsClosed,
           StraysWereLeft, Alive, NoTarget
  <2> QED BY <2>1, <2>2, Zenon DEF PipelineInv
<1>2. PipelineInv /\ [PipelineNext]_pipelineVars => PipelineInv'
  <2> SUFFICES ASSUME PipelineInv, [PipelineNext]_pipelineVars PROVE PipelineInv'
    BY Zenon
  <2>1. CASE \E j \in Jobs : Loop(j)
    BY <2>1, LoopNewKeeps, LoopPollKeeps, LoopEndKeeps, TrackPipeKeeps, TrackPanicKeeps,
       TrackSpawnKeeps, TrackSpawnPanicKeeps, TrackCloseKeeps, SolverMsgKeeps,
       SolverBreakKeeps, SolverEofKeeps, LoopReapKeeps, Zenon DEF Loop
  <2>2. CASE \E j \in Jobs : GraderServer(j)
    BY <2>2, GraderServerKeeps, Zenon
  <2>3. CASE \E i \in Ids : TargetEnd(i)
    BY <2>3, TargetEndKeeps, Zenon
  <2>4. CASE \/ \E j \in Jobs : GraderPop(j) \/ GraderGrade(j)
             \/ MainSync \/ MainJoin \/ Sigint
             \/ \E i \in Ids : TargetWrite(i)
             \/ UNCHANGED pipelineVars
    BY <2>4, OtherKeeps, Zenon
  <2> QED BY <2>1, <2>2, <2>3, <2>4, Zenon DEF PipelineNext, Grader
<1> QED BY <1>1, <1>2, PTL DEF PipelineSpec

(* The threads, the lock, the pipes and the processes keep their types. *)
THEOREM PipelineTypeCorrect == PipelineSpec => []PipelineTypeOK
BY PipelineInvariance, PTL DEF PipelineInv

(* forklock works: while a solver waits for the end of its pipe, no other  *)
(* process and not the fuzzer can keep the pipe open.                      *)
THEOREM WriteEndOwnHolds == PipelineSpec => []WriteEndOwn
<1>1. PipelineInv => WriteEndOwn
  <2> SUFFICES ASSUME PipelineInv, NEW j \in Jobs, loop[j].at = "solve"
               PROVE  /\ W(loop[j].id) \notin fz \cup inherited
                      /\ \A i \in Ids : W(loop[j].id) \in target[i].held => i = loop[j].id
    BY Zenon DEF WriteEndOwn
  <2>1. loop[j].id \in Ids /\ W(loop[j].id) \notin fz /\ inherited = {}
    BY Zenon DEF PipelineInv, Tracking, Occupied, Closed, OwnEnds
  <2>2. \A i \in Ids : target[i].held \subseteq {W(i)}
    BY Zenon DEF PipelineInv, OwnEnds
  <2> QED BY <2>1, <2>2, EndFacts
<1> QED BY <1>1, PipelineInvariance, PTL

(* A target is still running after its tracking only if its solver gave    *)
(* up: reading the pipe to its end means that the target is gone.          *)
THEOREM StraysWereLeftHolds == PipelineSpec => []StraysWereLeft
<1>1. PipelineInv => StraysWereLeft
  BY Zenon DEF PipelineInv, Closed
<1> QED BY <1>1, PipelineInvariance, PTL

(* Neither end of a pipe stays open in the fuzzer after its input. *)
THEOREM EndsClosedHolds == PipelineSpec => []EndsClosed
<1>1. PipelineInv => EndsClosed
  BY Zenon DEF PipelineInv, Closed
<1> QED BY <1>1, PipelineInvariance, PTL
=============================================================================
