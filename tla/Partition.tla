----------------------------- MODULE Partition ------------------------------
(***************************************************************************)
(* What the solver's union-find promises to its callers: a partition of    *)
(* the elements in which every set has one representative.  A call answers *)
(* in one step, from the partition as it is at that moment.                *)
(***************************************************************************)
EXTENDS Integers, Sequences

CONSTANTS
  Size,       \* elements at first
  MaxAlloc    \* bound: elements added later, which cannot be joined

VARIABLES
  class,      \* the set that each element is in
  reps,       \* the representatives
  call        \* the last call, and its answer when it has one

vars == <<class, reps, call>>

Elements == DOMAIN class
Called(name, at, x, y) == [name |-> name, at |-> at, x |-> x, y |-> y, root |-> 0, same |-> 0, ret |-> <<>>]

Init ==
  /\ class = [e \in 0 .. Size - 1 |-> {e}]
  /\ reps = 0 .. Size - 1
  /\ call = Called("none", "done", 0, 0)

Grow ==
  /\ call.at = "done"
  /\ \E n \in Size .. Size + MaxAlloc - 1 :
       /\ Elements = 0 .. n - 1
       /\ class' = [e \in 0 .. n |-> IF e = n THEN {e} ELSE class[e]]
       /\ reps' = reps \cup {n}
  /\ UNCHANGED call

(* A call may panic at once only where get_set has no ring to walk. *)
Begin(name, x, y) ==
  /\ call.at = "done"
  /\ \/ call' = Called(name, "busy", x, y)
     \/ name = "get_set" /\ x >= Size /\ call' = Called(name, "panic", x, y)
  /\ UNCHANGED <<class, reps>>

Busy(name) == call.at = "busy" /\ call.name = name
Done == [call EXCEPT !.at = "done"]

AnswerFind ==
  /\ Busy("find")
  /\ \E r \in reps \cap class[call.x] : call' = [Done EXCEPT !.root = r]
  /\ UNCHANGED <<class, reps>>

AnswerEquiv ==
  /\ Busy("equiv")
  /\ call' = [Done EXCEPT !.same = IF class[call.x] = class[call.y] THEN 1 ELSE 0]
  /\ UNCHANGED <<class, reps>>

AnswerForce == Busy("force") /\ call' = Done /\ UNCHANGED <<class, reps>>

AnswerGetSet ==
  /\ Busy("get_set")
  /\ LET s == call'.ret
     IN  /\ s \in Seq(Elements)
         /\ {s[i] : i \in 1 .. Len(s)} = class[call.x]
         /\ \A i, j \in 1 .. Len(s) : s[i] = s[j] => i = j
         /\ call' = [Done EXCEPT !.ret = s]
  /\ UNCHANGED <<class, reps>>

UnionNothing ==
  /\ Busy("union") /\ class[call.x] = class[call.y]
  /\ call' = Done
  /\ UNCHANGED <<class, reps>>

UnionRefused ==
  /\ Busy("union") /\ class[call.x] # class[call.y]
  /\ call.x >= Size \/ call.y >= Size
  /\ call' = [call EXCEPT !.at = "panic"]
  /\ UNCHANGED <<class, reps>>

Union ==
  /\ Busy("union") /\ class[call.x] # class[call.y] /\ call.x < Size /\ call.y < Size
  /\ LET both == class[call.x] \cup class[call.y]
     IN  /\ class' = [e \in Elements |-> IF e \in both THEN both ELSE class[e]]
         /\ \E r \in reps \cap both : reps' = reps \ {r}
  /\ call' = Done

Next ==
  \/ Grow
  \/ \E x, y \in Elements : \E name \in {"find", "equiv", "union", "force", "get_set"} : Begin(name, x, y)
  \/ AnswerFind \/ AnswerEquiv \/ AnswerForce \/ AnswerGetSet
  \/ UnionNothing \/ UnionRefused \/ Union

Spec == Init /\ [][Next]_vars
=============================================================================
