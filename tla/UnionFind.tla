----------------------------- MODULE UnionFind ------------------------------
(***************************************************************************)
(* The union-find of fuzzer/src/union_find.rs, in which the solver keeps   *)
(* the input offsets that its constraints connect.  Parents form a forest  *)
(* with union by rank, and find halves the paths it walks; in addition     *)
(* links joins the elements of a set into a ring, which get_set walks.     *)
(*                                                                         *)
(* The loops of find, get_set and force are stepped one iteration at a     *)
(* time, so each intermediate shape of the forest is a state.  cls is a    *)
(* history variable: the sets that the unions so far have joined.          *)
(*                                                                         *)
(* Faulty variants of the operations follow the word "Bug"; no behaviour   *)
(* of Spec uses them.                                                      *)
(***************************************************************************)
EXTENDS Integers, Sequences, FiniteSets

CONSTANTS
  Size,       \* the size given to UnionFind::new
  MaxAlloc,   \* bound: elements added by alloc
  MaxRank     \* u8::MAX, where ranks saturate

ASSUME SizeAssumption == Size \in Nat /\ MaxAlloc \in Nat /\ MaxRank \in Nat
(* No vector has 2^255 elements. *)
ASSUME RankAssumption == Size < 2^MaxRank
(* The law of powers that the rank argument needs. *)
ASSUME PowAssumption == 2^0 = 1 /\ \A n \in 0 .. MaxRank - 1 : 2^(n + 1) = 2^n + 2^n

VARIABLES
  elements,   \* the parent of each element
  links,      \* the next element of its ring
  ranks,      \* the rank of each element
  op,         \* the operation under way
  cls         \* history: the set of each element

vars == <<elements, links, ranks, op, cls>>

Elem == DOMAIN elements
Len_ == Cardinality(Elem)
Ops == {"none", "find", "equiv", "union", "force", "get_set"}

(* x and y are the arguments, a and b the roots that find returned. *)
NoOp == [name |-> "none", at |-> "done", x |-> 0, y |-> 0, a |-> 0, b |-> 0,
         element |-> 0, parent |-> 0, ret |-> <<>>]

Init ==
  /\ elements = [e \in 0 .. Size - 1 |-> e]
  /\ links = [e \in 0 .. Size - 1 |-> e]
  /\ ranks = [e \in 0 .. Size - 1 |-> 0]
  /\ op = NoOp
  /\ cls = [e \in 0 .. Size - 1 |-> {e}]

IsRoot(e) == elements[e] = e

-----------------------------------------------------------------------------
(* alloc pushes to elements and ranks, not to links. *)
Alloc ==
  /\ op.at = "done" /\ Len_ < Size + MaxAlloc
  /\ elements' = [e \in 0 .. Len_ |-> IF e = Len_ THEN e ELSE elements[e]]
  /\ ranks' = [e \in 0 .. Len_ |-> IF e = Len_ THEN 0 ELSE ranks[e]]
  /\ cls' = [e \in 0 .. Len_ |-> IF e = Len_ THEN {e} ELSE cls[e]]
  /\ UNCHANGED <<links, op>>

(* The first line of find, find_a and find_b telling its two uses apart. *)
Find(o, at, e) == [o EXCEPT !.at = at, !.element = e, !.parent = elements[e]]

Call(name, x, y) ==
  /\ op.at = "done"
  /\ op' = Find([NoOp EXCEPT !.name = name, !.x = x, !.y = y], "find_a", x)
  /\ UNCHANGED <<elements, links, ranks, cls>>

BugStayInFind ==
  /\ op.at \in {"find_a", "find_b"} /\ op.element # op.parent
  /\ elements' = [elements EXCEPT ![op.element] = elements[op.parent]]
  /\ op' = [op EXCEPT !.parent = elements[op.parent]]
  /\ UNCHANGED <<links, ranks, cls>>

(* One iteration of the loop of find: halve the path. *)
FindStep ==
  /\ op.at \in {"find_a", "find_b"} /\ op.element # op.parent
  /\ elements' = [elements EXCEPT ![op.element] = elements[op.parent]]
  /\ op' = [op EXCEPT !.element = op.parent, !.parent = elements[op.parent]]
  /\ UNCHANGED <<links, ranks, cls>>

(* find returns to union or equiv, which call it again for y; or to force. *)
FindDone ==
  /\ op.at \in {"find_a", "find_b"} /\ op.element = op.parent /\ op.name # "force"
  /\ op' = IF op.at = "find_b" THEN [op EXCEPT !.b = op.element, !.at = IF op.name = "union" THEN "join" ELSE "done"]
           ELSE IF op.name = "find" THEN [op EXCEPT !.a = op.element, !.at = "done"]
           ELSE Find([op EXCEPT !.a = op.element], "find_b", op.y)
  /\ UNCHANGED <<elements, links, ranks, cls>>

(* force: set the parent of element x and go on with the next. *)
ForceStep ==
  /\ op.name = "force" /\ op.at = "find_a" /\ op.element = op.parent
  /\ elements' = [elements EXCEPT ![op.x] = op.element]
  /\ op' = IF op.x + 1 = Len_ THEN [op EXCEPT !.at = "done"]
           ELSE [op EXCEPT !.x = op.x + 1, !.element = op.x + 1, !.parent = elements'[op.x + 1]]
  /\ UNCHANGED <<links, ranks, cls>>

-----------------------------------------------------------------------------
Merge(a, b) == [e \in Elem |-> IF e \in cls[a] \cup cls[b] THEN cls[a] \cup cls[b] ELSE cls[e]]
SaturatingAdd(r) == IF r < MaxRank THEN r + 1 ELSE MaxRank

(* The rest of union once the roots are known; link panics on an element   *)
(* that alloc made, before anything is written.                            *)
UnionSame ==
  /\ op.at = "join" /\ op.a = op.b
  /\ op' = [op EXCEPT !.at = "done"]
  /\ UNCHANGED <<elements, links, ranks, cls>>

UnionPanic ==
  /\ op.at = "join" /\ op.a # op.b /\ ~({op.a, op.b} \subseteq DOMAIN links)
  /\ op' = [op EXCEPT !.at = "panic"]
  /\ UNCHANGED <<elements, links, ranks, cls>>

BugNoTemp(a, b) == [links EXCEPT ![b] = links[a], ![a] = links[a]]
Swapped(a, b) == [links EXCEPT ![b] = links[a], ![a] = links[b]]

BugHigherBelow(a, b) == IF ranks[a] > ranks[b] THEN [elements EXCEPT ![a] = b] ELSE [elements EXCEPT ![b] = a]
Hung(a, b) == IF ranks[a] > ranks[b] THEN [elements EXCEPT ![b] = a] ELSE [elements EXCEPT ![a] = b]

UnionJoin ==
  /\ op.at = "join" /\ op.a # op.b /\ {op.a, op.b} \subseteq DOMAIN links
  /\ links' = Swapped(op.a, op.b)
  /\ elements' = Hung(op.a, op.b)
  /\ ranks' = IF ranks[op.a] = ranks[op.b] THEN [ranks EXCEPT ![op.b] = SaturatingAdd(@)] ELSE ranks
  /\ cls' = Merge(op.a, op.b)
  /\ op' = [op EXCEPT !.at = "done"]

(* get_set: from a around the ring. *)
GetSet(x) ==
  /\ op.at = "done"
  /\ op' = [NoOp EXCEPT !.name = "get_set", !.at = IF x \in DOMAIN links THEN "walk" ELSE "panic",
                        !.x = x, !.element = x, !.ret = <<x>>]
  /\ UNCHANGED <<elements, links, ranks, cls>>

GetSetStep ==
  /\ op.at = "walk"
  /\ op' = IF links[op.element] = op.x THEN [op EXCEPT !.at = "done"]
           ELSE [op EXCEPT !.element = links[op.element], !.ret = Append(@, links[op.element])]
  /\ UNCHANGED <<elements, links, ranks, cls>>

Step == FindStep \/ FindDone \/ ForceStep \/ UnionSame \/ UnionPanic \/ UnionJoin \/ GetSetStep

Next ==
  \/ Alloc
  \/ \E x, y \in Elem : \E name \in {"equiv", "union"} : Call(name, x, y)
  \/ \E x \in Elem : Call("find", x, x) \/ GetSet(x)
  \/ 0 \in Elem /\ Call("force", 0, 0)
  \/ Step

Spec == Init /\ [][Next]_vars

(* A call that was made goes on. *)
FairSpec == Spec /\ WF_vars(Step)

-----------------------------------------------------------------------------
OpRec == [name : Ops, at : {"done", "find_a", "find_b", "join", "walk", "panic"}, x : Nat, y : Nat,
          a : Nat, b : Nat, element : Nat, parent : Nat, ret : Seq(Nat)]

(* Type correctness; in particular elements and ranks have the same length *)
(* (the invariant that union_find.rs states) and ranks fit their type.     *)
TypeOK ==
  /\ \E n \in Size .. Size + MaxAlloc :
       /\ elements \in [0 .. n - 1 -> 0 .. n - 1]
       /\ ranks \in [0 .. n - 1 -> 0 .. MaxRank]
       /\ cls \in [0 .. n - 1 -> SUBSET (0 .. n - 1)]
  /\ links \in [0 .. Size - 1 -> 0 .. Size - 1]
  /\ op \in OpRec

(* Ranks increase strictly along parents, after any number of unions and   *)
(* halved paths: so there is no cycle and find comes to an end.            *)
RankOrder == \A e \in Elem : ~IsRoot(e) => ranks[e] < ranks[elements[e]]

(* union and equiv find the same root for both arguments exactly when      *)
(* earlier unions put the two into one set, although the second find       *)
(* changes the forest after the first has returned.                        *)
FoundRight ==
  op.at = "join" \/ (op.name = "equiv" /\ op.at = "done") =>
    (op.a = op.b <=> cls[op.x] = cls[op.y])

(* get_set returns every element of the set, each of them once. *)
GetSetRight ==
  op.name = "get_set" /\ op.at = "done" =>
    /\ {op.ret[i] : i \in 1 .. Len(op.ret)} = cls[op.x]
    /\ \A i, j \in 1 .. Len(op.ret) : op.ret[i] = op.ret[j] => i = j

(* After force every element points at its representative. *)
ForceFlat == op.name = "force" /\ op.at = "done" => \A e \in Elem : IsRoot(elements[e])

(* Every call returns, or panics. *)
CallReturns == op.at # "done" ~> op.at \in {"done", "panic"}

(* What the callers see of an operation. *)
Ended(name) == op.name = name /\ op.at = "done"
Visible ==
  [name |-> op.name, at |-> IF op.at \in {"done", "panic"} THEN op.at ELSE "busy",
   x |-> IF op.name = "force" THEN 0 ELSE op.x, y |-> op.y,
   root |-> IF Ended("find") THEN op.a ELSE 0,
   same |-> IF Ended("equiv") /\ op.a = op.b THEN 1 ELSE 0,
   ret |-> IF Ended("get_set") THEN op.ret ELSE <<>>]

Roots == {e \in Elem : IsRoot(e)}

Sets == INSTANCE Partition WITH class <- cls, reps <- Roots, call <- Visible

(* The forest and the rings implement a partition: whatever unions, finds  *)
(* and halved paths came before, every call answers as if it looked at the *)
(* joined sets at one moment, and representatives change only in union.    *)
ImplementsPartition == Sets!Spec
=============================================================================
