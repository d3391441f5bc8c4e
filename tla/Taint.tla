------------------------------- MODULE Taint -------------------------------
(***************************************************************************)
(* The label table and the shadow memory of a tracked target               *)
(* (llvm_mode/dfsan_rt/dfsan/dfsan.cc), under any straight-line program of *)
(* reads of the input, loads, stores and arithmetic on a register.         *)
(*                                                                         *)
(* A byte has Base values, sizes and bit offsets are counted in bytes.     *)
(* The program's memory and register hold their value as a function of     *)
(* the input; the target itself runs on the seed, and what it passes to    *)
(* the runtime as the concrete value of an operand is its value there.     *)
(* val is what serialize (fuzzer/src/z3solver.rs) makes of a label: an     *)
(* entry of the table never changes, so it is recorded when the entry is   *)
(* made.  One thread; the table does not fill up (dfsan_check_label).      *)
(***************************************************************************)
EXTENDS Integers, Sequences

CONSTANTS
  N,          \* length of the input
  Seeds,      \* the inputs it may be tracked on
  Consts,     \* constants the program stores
  Base,       \* values of a byte
  Cells,      \* bytes of memory, 1 .. Cells
  Sizes,      \* sizes of loads, in bytes
  MaxSteps    \* bound: length of the program

Offs == 0 .. N - 1
Addrs == 1 .. Cells
Inputs == [Offs -> 0 .. Base - 1]

ASSUME SizeAssumption ==
  /\ N \in Nat \ {0} /\ Base \in Nat \ {0, 1} /\ Cells \in Nat \ {0} /\ MaxSteps \in Nat
  /\ Sizes \subseteq 1 .. Cells /\ Consts \subseteq 0 .. Base - 1 /\ Seeds \subseteq Inputs

(* What the proofs need to know of powers, which the provers leave open. *)
ASSUME PowAssumption ==
  Base^0 = 1 /\ \A k \in 0 .. Cells - 1 : Base^k \in Nat \ {0} /\ Base^(k + 1) = Base * Base^k

Ops == {"Add", "Sub"}
is_commutative(op) == op = "Add"

VARIABLES
  seed,       \* the tracked input
  table,      \* __dfsan_label_info from label 1 on, and val
  mem,        \* memory
  shadow,     \* shadow memory
  reg,        \* the register: label, value, size
  steps,      \* instructions executed
  odd         \* history: an operation lost track of a value, see below

vars == <<seed, table, mem, shadow, reg, steps, odd>>

Raw(off) == [op |-> "Read", l1 |-> 0, l2 |-> 0, size |-> 1, op1 |-> off, op2 |-> 0]
ConstInfo == Raw(0)
InfoIn(t, l) == IF l = 0 THEN ConstInfo ELSE t.info[l]
Info(l) == InfoIn(table, l)
is_raw(l) == l # 0 /\ Info(l).op = "Read"

-----------------------------------------------------------------------------
(* serialize, for the operations of this model: the value on input x of an *)
(* entry e, whose operands are in the table t.                             *)
Number(d, n) == LET f[i \in 0 .. n] == IF i = 0 THEN 0 ELSE f[i - 1] + d[i] * Base^(i - 1) IN f[n]
Bytes(x, off, n) == Number([i \in 1 .. n |-> x[off + i - 1]], n)

Left(t, e, x) == IF e.l1 = 0 THEN e.op1 ELSE t.val[e.l1][x]
Right(t, e, x) == IF e.l2 = 0 THEN e.op2 ELSE t.val[e.l2][x]
LeftSize(t, e) == IF e.l1 = 0 THEN e.size - t.info[e.l2].size ELSE t.info[e.l1].size

Value(t, e, x) ==
  CASE e.op = "Read" -> x[e.op1]
    [] e.op = "Load" -> Bytes(x, InfoIn(t, e.l1).op1, e.l2)
    [] e.op = "Extract" -> (t.val[e.l1][x] \div Base^e.op2) % Base
    [] e.op = "Concat" -> Left(t, e, x) + Right(t, e, x) * Base^LeftSize(t, e)
    [] e.op = "Add" -> (Left(t, e, x) + Right(t, e, x)) % Base^e.size
    [] e.op = "Sub" -> (Left(t, e, x) - Right(t, e, x)) % Base^e.size

(* The end of __taint_union: a new label. *)
Make(t, e) == [t |-> [info |-> Append(t.info, e), val |-> Append(t.val, [x \in Inputs |-> Value(t, e, x)])],
               l |-> Len(t.info) + 1]

(* __taint_union: exchange the operands of a commutative operation, drop   *)
(* the concrete value of an operand that has a label, look the entry up.   *)
Entry(l1, l2, op, size, op1, op2) ==
  [op |-> op, l1 |-> l1, l2 |-> l2, size |-> size,
   op1 |-> IF l1 > 0 THEN 0 ELSE op1, op2 |-> IF l2 > 0 THEN 0 ELSE op2]

BugNoSwap(l1, l2, op, size, op1, op2) == Entry(l1, l2, op, size, op1, op2)
BugSwapLabels(l1, l2, op, size, op1, op2) ==
  IF l1 > l2 /\ is_commutative(op) THEN Entry(l2, l1, op, size, op1, op2)
                                   ELSE Entry(l1, l2, op, size, op1, op2)
Normal(l1, l2, op, size, op1, op2) ==
  IF l1 > l2 /\ is_commutative(op) THEN Entry(l2, l1, op, size, op2, op1)
                                   ELSE Entry(l1, l2, op, size, op1, op2)

Lookup(t, e) == {l \in 1 .. Len(t.info) : t.info[l] = e}

Union(t, l1, l2, op, size, op1, op2) ==
  LET e == Normal(l1, l2, op, size, op1, op2)
  IN  IF l1 = 0 /\ l2 = 0 THEN [t |-> t, l |-> 0]
      ELSE IF Lookup(t, e) # {} THEN [t |-> t, l |-> CHOOSE l \in Lookup(t, e) : TRUE]
      ELSE Make(t, e)

-----------------------------------------------------------------------------
(* __taint_union_load of the labels ls of n bytes, whose concrete values   *)
(* are cs.  shape: the first label is a raw byte (label 0 passes for one,  *)
(* at offset 0), and op1 of the others has the offsets that follow.        *)
Shape(t, ls, n) ==
  /\ InfoIn(t, ls[1]).op = "Read"
  /\ \A i \in 2 .. n : InfoIn(t, ls[i]).op1 = InfoIn(t, ls[1]).op1 + i - 1

(* Fast path 2: all the bytes, in order, of one label. *)
Part(t, l, p, k) == InfoIn(t, l).op = "Extract" /\ InfoIn(t, l).op2 = k /\ InfoIn(t, l).l1 = p
Parent(t, ls) == InfoIn(t, ls[1]).l1
BugPartsFirst(t, ls, n) ==
  (\A i \in 1 .. n : Part(t, ls[i], Parent(t, ls), 0)) /\ InfoIn(t, Parent(t, ls)).size = n
Parts(t, ls, n) ==
  (\A i \in 1 .. n : Part(t, ls[i], Parent(t, ls), i - 1)) /\ InfoIn(t, Parent(t, ls)).size = n

(* The slow path; every label in shadow memory has the size of a byte. *)
SlowStep(u, ls, cs, i) == Union(u.t, u.l, ls[i], "Concat", i, 0, IF ls[i] = 0 THEN cs[i] ELSE 0)
Slow(t, ls, cs, n) ==
  LET f[i \in 1 .. n] == IF i = 1 THEN [t |-> t, l |-> ls[1]] ELSE SlowStep(f[i - 1], ls, cs, i)
  IN  f[n]

UnionLoad(t, ls, cs, n) ==
  IF \A i \in 1 .. n : ls[i] = 0 THEN [t |-> t, l |-> 0]
  ELSE IF Shape(t, ls, n) THEN (IF n = 1 THEN [t |-> t, l |-> ls[1]] ELSE Union(t, ls[1], n, "Load", n, 0, 0))
  ELSE IF Parts(t, ls, n) THEN [t |-> t, l |-> Parent(t, ls)]
  ELSE Slow(t, ls, cs, n)

(* __taint_union_store of label l, which has n bytes. *)
ExtractStep(u, l, i) ==
  LET w == Union(u.t, l, 0, "Extract", 1, 0, i - 1) IN [t |-> w.t, ls |-> Append(u.ls, w.l)]
Extracts(t, l, n) ==
  LET f[i \in 0 .. n] == IF i = 0 THEN [t |-> t, ls |-> <<>>] ELSE ExtractStep(f[i - 1], l, i)
  IN  f[n]

BugStoreWhole(t, l, n) == [t |-> t, ls |-> [i \in 1 .. n |-> l]]
UnionStore(t, l, n) ==
  CASE l = 0 -> [t |-> t, ls |-> [i \in 1 .. n |-> 0]]
    [] l # 0 /\ n = 1 -> [t |-> t, ls |-> <<l>>]
    [] l # 0 /\ n > 1 /\ t.info[l].op = "Load" -> [t |-> t, ls |-> [i \in 1 .. n |-> t.info[l].l1 + i - 1]]
    [] l # 0 /\ n > 1 /\ t.info[l].op # "Load" -> Extracts(t, l, n)

-----------------------------------------------------------------------------
Const(c) == [x \in Inputs |-> c]
FileTable == [info |-> [l \in 1 .. N |-> Raw(l - 1)], val |-> [l \in 1 .. N |-> [x \in Inputs |-> x[l - 1]]]]

(* dfsan_init: InitializeTaintFile makes the labels of the file's bytes. *)
Init ==
  /\ seed \in Seeds /\ table = FileTable
  /\ mem = [a \in Addrs |-> Const(0)] /\ shadow = [a \in Addrs |-> 0]
  /\ reg = [l |-> 0, v |-> Const(0), n |-> 1]
  /\ steps = 0 /\ odd = FALSE

(* The program is followed up to the first operation that loses track.     *)
Step == ~odd /\ steps < MaxSteps /\ steps' = steps + 1

(* The wrapper of read: get_label_for and dfsan_set_label. *)
Read(a, off) ==
  /\ Step
  /\ mem' = [mem EXCEPT ![a] = [x \in Inputs |-> x[off]]]
  /\ shadow' = [shadow EXCEPT ![a] = off + 1]
  /\ UNCHANGED <<seed, table, reg, odd>>

(* The program stores a constant. *)
StoreConst(a, c) ==
  /\ Step
  /\ mem' = [mem EXCEPT ![a] = Const(c)]
  /\ shadow' = [shadow EXCEPT ![a] = 0]
  /\ UNCHANGED <<seed, table, reg, odd>>

LabelsAt(a, n) == [i \in 1 .. n |-> shadow[a + i - 1]]
SumAt(a, n, x) == Number([i \in 1 .. n |-> mem[a + i - 1][x]], n)

(* A load that begins with a concrete byte, or that takes labels for raw   *)
(* bytes which are not, loses track of the value.                          *)
OddLoad(ls, n) ==
  \/ ls[1] = 0 /\ \E i \in 2 .. n : ls[i] # 0
  \/ ls[1] # 0 /\ Shape(table, ls, n) /\ \E i \in 2 .. n : ~is_raw(ls[i])

LoadAt(a, n) == UnionLoad(table, LabelsAt(a, n), [i \in 1 .. n |-> mem[a + i - 1][seed]], n)
ValueAt(a, n) == [x \in Inputs |-> SumAt(a, n, x)]

Load(a, n) ==
  /\ Step
  /\ a + n - 1 \in Addrs
  /\ table' = LoadAt(a, n).t
  /\ reg' = [l |-> LoadAt(a, n).l, v |-> ValueAt(a, n), n |-> n]
  /\ odd' = (odd \/ OddLoad(LabelsAt(a, n), n))
  /\ UNCHANGED <<seed, mem, shadow>>

Result(op, v, w, n) ==
  [x \in Inputs |-> (IF op = "Add" THEN v[x] + w[x] ELSE v[x] - w[x]) % Base^n]

(* An instruction on the register and an operand that is loaded from       *)
(* memory, in either order.                                                *)
Binary(op, a, left) ==
  LET n == reg.n
      o == [l |-> LoadAt(a, n).l, v |-> ValueAt(a, n)]
      p == IF left THEN reg ELSE o
      q == IF left THEN o ELSE reg
      u == Union(LoadAt(a, n).t, p.l, q.l, op, n, p.v[seed], q.v[seed])
  IN  /\ Step /\ a + n - 1 \in Addrs
      /\ table' = u.t
      /\ reg' = [l |-> u.l, v |-> Result(op, p.v, q.v, n), n |-> n]
      /\ odd' = (odd \/ OddLoad(LabelsAt(a, n), n))
      /\ UNCHANGED <<seed, mem, shadow>>

(* The program stores the register. *)
Store(a) ==
  LET n == reg.n
      u == UnionStore(table, reg.l, n)
      In(b) == b \in a .. a + n - 1
  IN  /\ Step /\ a + n - 1 \in Addrs
      /\ table' = u.t
      /\ shadow' = [b \in Addrs |-> IF In(b) THEN u.ls[b - a + 1] ELSE shadow[b]]
      /\ mem' = [b \in Addrs |-> IF In(b) THEN [x \in Inputs |-> (reg.v[x] \div Base^(b - a)) % Base] ELSE mem[b]]
      /\ UNCHANGED <<seed, reg, odd>>

Next ==
  \/ \E a \in Addrs, off \in Offs : Read(a, off)
  \/ \E a \in Addrs, c \in Consts : StoreConst(a, c)
  \/ \E a \in Addrs, n \in Sizes : Load(a, n)
  \/ \E op \in Ops, a \in Addrs, left \in BOOLEAN : Binary(op, a, left)
  \/ \E a \in Addrs : Store(a)

Spec == Init /\ [][Next]_vars

-----------------------------------------------------------------------------
InfoRec == [op : {"Read", "Load", "Extract", "Concat"} \cup Ops, l1 : Nat, l2 : Nat, size : 1 .. Cells, op1 : Nat, op2 : Nat]
Labels == 0 .. Len(table.info)

(* Type correctness; a label in shadow memory has the size of a byte. *)
TypeOK ==
  /\ seed \in Inputs
  /\ table.info \in Seq(InfoRec) /\ Len(table.val) = Len(table.info)
  /\ mem \in [Addrs -> [Inputs -> 0 .. Base - 1]]
  /\ steps \in 0 .. MaxSteps
  /\ shadow \in [Addrs -> Labels] /\ \A a \in Addrs : Info(shadow[a]).size = 1
  /\ reg.n \in 1 .. Cells /\ reg.v \in [Inputs -> 0 .. Base^reg.n - 1]
  /\ reg.l \in Labels /\ (reg.l # 0 => Info(reg.l).size = reg.n)

(* Equal expressions share a label, also if the operands of a commutative  *)
(* operation come in the other order.                                      *)
Interned ==
  \A k, l \in Labels \ {0} : k # l =>
    LET d == Info(k)
        e == Info(l)
    IN  /\ d.op # "Read" => d # e
        /\ is_commutative(d.op) => d # [e EXCEPT !.l1 = e.l2, !.l2 = e.l1, !.op1 = e.op2, !.op2 = e.op1]

Describes(l, v) == \A x \in Inputs : v[x] = IF l = 0 THEN v[seed] ELSE table.val[l][x]

(* Labels are right: what serialize makes of the label of a register or a  *)
(* byte is its value, on every input; what has no label is the same on     *)
(* every input.                                                            *)
LabelsRight ==
  ~odd => /\ Describes(reg.l, reg.v)
          /\ \A a \in Addrs : Describes(shadow[a], mem[a])

(* A value that is stored and loaded again has its label again, and no     *)
(* label is made for it.                                                   *)
RoundTrip ==
  [][\A a \in Addrs : Store(a) => LoadAt(a, reg.n)' = [t |-> table', l |-> reg.l]]_vars
=============================================================================
