---------------------------- MODULE TaintProofs -----------------------------
(***************************************************************************)
(* Proofs about Taint: the labels that the runtime keeps for a program's   *)
(* values stand for these values, for every size of input, memory and      *)
(* byte, every seed and every program.                                     *)
(***************************************************************************)
EXTENDS TaintLemmas

(* More time than the provers take by default. *)
USE SMTT(30), ZenonT(30)

-----------------------------------------------------------------------------
(* The slow path of __taint_union_store: one Extract per byte. *)

(* f is the function of the loop that breaks a label up. *)
IsExtracts(f, t, l, n) ==
  f = [i \in 0 .. n |-> IF i = 0 THEN [t |-> t, ls |-> <<>>] ELSE ExtractStep(f[i - 1], l, i)]

(* There is such a function, and Extracts is its last value. *)
LEMMA ExtractsFunction ==
  ASSUME NEW t, NEW l, NEW n \in Nat
  PROVE  \E f : IsExtracts(f, t, l, n) /\ Extracts(t, l, n) = f[n]
<1> DEFINE T == {k \in Nat : \E f : IsExtracts(f, t, l, k)}
<1>1. 0 \in T
  <2> DEFINE g == [i \in 0 .. 0 |-> [t |-> t, ls |-> <<>>]]
  <2>1. g = [i \in 0 .. 0 |-> IF i = 0 THEN [t |-> t, ls |-> <<>>] ELSE ExtractStep(g[i - 1], l, i)]
    OBVIOUS
  <2>2. IsExtracts(g, t, l, 0)
    BY <2>1, Zenon DEF IsExtracts
  <2> QED
    BY <2>2, Zenon
<1>2. ASSUME NEW k \in 0 .. n - 1, k \in T PROVE k + 1 \in T
  <2>1. PICK f : IsExtracts(f, t, l, k)
    BY <1>2, Zenon
  <2> DEFINE g == [i \in 0 .. k + 1 |-> IF i = k + 1 THEN ExtractStep(f[k], l, k + 1) ELSE f[i]]
  <2>2. \A i \in 0 .. k : f[i] = IF i = 0 THEN [t |-> t, ls |-> <<>>] ELSE ExtractStep(f[i - 1], l, i)
    BY <2>1, Zenon DEF IsExtracts
  <2>3. \A i \in 0 .. k : g[i] = f[i]
    OBVIOUS
  <2>4. g[k + 1] = ExtractStep(f[k], l, k + 1) /\ k + 1 - 1 = k /\ k + 1 # 0 /\ k \in 0 .. k
    OBVIOUS
  <2>5. ASSUME NEW i \in 0 .. k + 1
        PROVE  g[i] = IF i = 0 THEN [t |-> t, ls |-> <<>>] ELSE ExtractStep(g[i - 1], l, i)
    <3> HIDE DEF g
    <3>1. CASE i = k + 1
      BY <3>1, <2>3, <2>4
    <3>2. CASE i # k + 1
      <4>1. i \in 0 .. k /\ (i # 0 => i - 1 \in 0 .. k)
        BY <3>2
      <4> QED
        BY <4>1, <2>2, <2>3, Zenon
    <3> QED
      BY <3>1, <3>2, Zenon
  <2>6. g = [i \in 0 .. k + 1 |-> g[i]]
    BY Zenon
  <2>7. IsExtracts(g, t, l, k + 1)
    <3> HIDE DEF g
    <3> QED
      BY <2>5, <2>6, Zenon DEF IsExtracts
  <2> QED
    BY <2>7
<1>3. n \in T
  <2> HIDE DEF T
  <2>1. \A k \in 0 .. n : k \in T
    BY <1>1, <1>2, UpTo, Zenon
  <2> QED
    BY <2>1
<1>4. Extracts(t, l, n) = (CHOOSE f : IsExtracts(f, t, l, n))[n]
  BY Zenon DEF Extracts, IsExtracts
<1>5. \E f : IsExtracts(f, t, l, n)
  BY <1>3, Zenon
<1> QED
  BY <1>4, <1>5, Zenon

(* The first i bytes of the label l have their labels in u. *)
Broken(t, u, l, i) ==
  /\ Wf(u.t) /\ Typed(u.t) /\ Grows(t, u.t)
  /\ u.ls = [j \in 1 .. i |-> u.ls[j]]
  /\ \A j \in 1 .. i : u.ls[j] \in 1 .. Len(u.t.info) /\ Part(u.t, u.ls[j], l, j - 1)
  /\ \A j \in 1 .. i : u.t.info[u.ls[j]].size = 1

(* The value of an Extract is a byte. *)
LEMMA ExtractTyped ==
  ASSUME NEW t, Wf(t), Typed(t), NEW l \in 1 .. Len(t.info), t.info[l].size \in 2 .. Cells, NEW k \in 0 .. Cells - 1
  PROVE  TypedEntry(t, Normal(l, 0, "Extract", 1, 0, k))
<1> DEFINE e == Normal(l, 0, "Extract", 1, 0, k)
           m == t.info[l].size
<1>1. e.op = "Extract" /\ e.l1 = l /\ e.op2 = k /\ e.size = 1
  BY ExtractEntry
<1>2. Base^1 = Base /\ Base \in Nat \ {0} /\ Base^k \in Nat \ {0} /\ Base^m \in Nat
  <2>1. 1 \in 1 .. Cells /\ k \in 0 .. Cells /\ m \in 0 .. Cells
    BY SizeAssumption
  <2>2. Base^1 = Base * Base^(1 - 1) /\ Base^k \in Nat \ {0} /\ Base^0 = 1 /\ Base^m \in Nat
    BY <2>1, Pow, Zenon
  <2> QED
    BY <2>2, SizeAssumption
<1>3. t.val[l] \in [Inputs -> 0 .. Base^m - 1]
  BY Zenon DEF Typed
<1> HIDE DEF e, m
<1>4. ASSUME NEW x \in Inputs PROVE Value(t, e, x) \in 0 .. Base^1 - 1
  <2>1. t.val[l][x] \in Int
    BY <1>2, <1>3
  <2>2. t.val[l][x] \div Base^k \in Int
    BY <1>2, <2>1, DivMod, Zenon
  <2>3. (t.val[l][x] \div Base^k) % Base \in 0 .. Base - 1
    BY <1>2, <2>2, DivMod, Zenon
  <2>4. Value(t, e, x) = (t.val[l][x] \div Base^k) % Base
    BY <1>1, Zenon DEF Value
  <2> QED
    BY <1>2, <2>3, <2>4, Zenon
<1>5. TypedEntry(t, e)
  BY <1>1, <1>4, Zenon DEF TypedEntry
<1> QED
  BY <1>5, Zenon DEF e

(* One turn of the loop makes the label of one byte more. *)
LEMMA ExtractStepMade ==
  ASSUME NEW t, Wf(t), NEW l \in 1 .. Len(t.info), NEW n \in 2 .. Cells, t.info[l].size = n,
         NEW i \in 1 .. n, NEW u, Broken(t, u, l, i - 1)
  PROVE  Broken(t, ExtractStep(u, l, i), l, i)
<1> DEFINE w == Union(u.t, l, 0, "Extract", 1, 0, i - 1)
           e == Normal(l, 0, "Extract", 1, 0, i - 1)
           z == ExtractStep(u, l, i)
<1>0. Wf(u.t) /\ Typed(u.t) /\ Grows(t, u.t) /\ Len(t.info) \in Nat /\ Len(u.t.info) \in Nat
  BY WfLen, Zenon DEF Broken
<1>1. l \in 1 .. Len(u.t.info) /\ u.t.info[l] = t.info[l]
  BY <1>0 DEF Grows
<1>2. u.t.info[l].size > 1 /\ u.t.info[l].size \in 2 .. Cells /\ i - 1 \in 0 .. Cells - 1 /\ i - 1 \in Nat
  BY <1>1, SizeAssumption
<1>3. /\ e = [op |-> "Extract", l1 |-> l, l2 |-> 0, size |-> 1, op1 |-> 0, op2 |-> i - 1]
      /\ Fits(u.t, e, Len(u.t.info) + 1)
  BY <1>0, <1>1, <1>2, ExtractEntry, Zenon
<1>4. TypedEntry(u.t, e)
  BY <1>0, <1>1, <1>2, ExtractTyped, Zenon
<1>5. l # 0
  OBVIOUS
<1>6. Made(u.t, w, e) /\ Typed(w.t)
  BY <1>0, <1>3, <1>4, <1>5, UnionMade, UnionTyped, Zenon
<1>7. z = [t |-> w.t, ls |-> Append(u.ls, w.l)]
  BY Zenon DEF ExtractStep
<1> HIDE DEF w, z
<1>8. Wf(w.t) /\ Grows(u.t, w.t) /\ w.l \in 1 .. Len(w.t.info) /\ w.t.info[w.l] = e /\ Len(w.t.info) \in Nat
  <2>1. Wf(w.t) /\ Grows(u.t, w.t) /\ w.l \in 1 .. Len(w.t.info) /\ w.t.info[w.l] = e
    BY <1>6, Zenon DEF Made
  <2> QED
    BY <2>1, WfLen, Zenon
<1>9. Grows(t, w.t)
  BY <1>0, <1>8, GrowsTwice, Zenon
<1>10. Append(u.ls, w.l) = [j \in 1 .. i |-> IF j = i THEN w.l ELSE u.ls[j]]
  <2> DEFINE q == u.ls
             m == i - 1
  <2>1. q = [j \in 1 .. m |-> q[j]]
    BY Zenon DEF Broken
  <2>2. m \in Nat /\ m + 1 = i
    OBVIOUS
  <2> HIDE DEF q, m
  <2>3. Append(q, w.l) = [j \in 1 .. m + 1 |-> IF j = m + 1 THEN w.l ELSE q[j]]
    BY <2>1, <2>2, AppendAny
  <2> QED
    BY <2>2, <2>3, Zenon DEF q
<1>11. z.t = w.t /\ z.ls = [j \in 1 .. i |-> IF j = i THEN w.l ELSE u.ls[j]]
  BY <1>7, <1>10, Zenon
<1>12. z.ls = [j \in 1 .. i |-> z.ls[j]]
  BY <1>11, Zenon
<1>13. ASSUME NEW j \in 1 .. i
       PROVE  z.ls[j] \in 1 .. Len(w.t.info) /\ Part(w.t, z.ls[j], l, j - 1) /\ w.t.info[z.ls[j]].size = 1
  <2>1. CASE j = i
    <3>1. z.ls[j] = w.l
      BY <1>11, <2>1, Zenon
    <3> QED
      BY <1>3, <1>8, <2>1, <3>1 DEF Part, InfoIn
  <2>2. CASE j # i
    <3>1. z.ls[j] = u.ls[j] /\ j \in 1 .. i - 1
      BY <1>11, <2>2
    <3>2. u.ls[j] \in 1 .. Len(u.t.info) /\ Part(u.t, u.ls[j], l, j - 1) /\ u.t.info[u.ls[j]].size = 1
      BY <3>1, Zenon DEF Broken
    <3>3. w.t.info[u.ls[j]] = u.t.info[u.ls[j]] /\ u.ls[j] \in 1 .. Len(w.t.info)
      <4> DEFINE m == u.ls[j]
      <4>1. m \in 1 .. Len(u.t.info)
        BY <3>2, Zenon
      <4> HIDE DEF m
      <4>2. w.t.info[m] = u.t.info[m] /\ m \in 1 .. Len(w.t.info)
        <5>1. Len(u.t.info) <= Len(w.t.info) /\ w.t.info[m] = u.t.info[m]
          BY <1>8, <4>1, Zenon DEF Grows
        <5> QED
          BY <1>0, <4>1, <5>1
      <4> QED
        BY <4>2, Zenon DEF m
    <3> QED
      BY <3>1, <3>2, <3>3, Zenon DEF Part, InfoIn
  <2> QED
    BY <2>1, <2>2, Zenon
<1>14. Broken(t, z, l, i)
  BY <1>6, <1>8, <1>9, <1>11, <1>12, <1>13, Zenon DEF Broken
<1> QED
  BY <1>14, Zenon DEF z

(* The loop makes the labels of all the bytes. *)
LEMMA ExtractsMade ==
  ASSUME NEW t, Wf(t), Typed(t), NEW l \in 1 .. Len(t.info), NEW n \in 2 .. Cells, t.info[l].size = n
  PROVE  Broken(t, Extracts(t, l, n), l, n)
<1>1. PICK f : IsExtracts(f, t, l, n) /\ Extracts(t, l, n) = f[n]
  BY ExtractsFunction
<1> DEFINE T == {i \in 0 .. n : Broken(t, f[i], l, i)}
<1>2. \A i \in 0 .. n : f[i] = IF i = 0 THEN [t |-> t, ls |-> <<>>] ELSE ExtractStep(f[i - 1], l, i)
  BY <1>1, Zenon DEF IsExtracts
<1>3. 0 \in T
  <2>1. f[0] = [t |-> t, ls |-> <<>>] /\ 0 \in 0 .. n
    BY <1>2
  <2>2. << >> = [j \in 1 .. 0 |-> << >>[j]]
    OBVIOUS
  <2>3. Grows(t, t)
    BY WfLen, Zenon
  <2>4. Broken(t, f[0], l, 0)
    BY <2>1, <2>2, <2>3 DEF Broken
  <2> QED
    BY <2>1, <2>4, Zenon
<1>4. ASSUME NEW k \in 0 .. n - 1, k \in T PROVE k + 1 \in T
  <2>1. k + 1 \in 1 .. n /\ k + 1 \in 0 .. n /\ k + 1 - 1 = k /\ k + 1 # 0
    OBVIOUS
  <2>2. f[k + 1] = ExtractStep(f[k], l, k + 1)
    BY <1>2, <2>1
  <2>3. Broken(t, f[k], l, k + 1 - 1)
    BY <1>4, <2>1, Zenon
  <2>4. Broken(t, ExtractStep(f[k], l, k + 1), l, k + 1)
    BY <2>1, <2>3, ExtractStepMade
  <2> QED
    BY <2>1, <2>2, <2>4, Zenon
<1> HIDE DEF T
<1>5. \A k \in 0 .. n : k \in T
  <2>1. n \in Nat /\ 0 \in Nat
    OBVIOUS
  <2> QED
    BY <1>3, <1>4, <2>1, UpTo, Zenon
<1>6. n \in T
  BY <1>5
<1> QED
  BY <1>1, <1>6, Zenon DEF T

-----------------------------------------------------------------------------
(* __taint_union_store: the labels stand for the bytes, and loading them   *)
(* returns the stored label.                                               *)

(* The digit i of a value. *)
Digit(v, i) == [x \in Inputs |-> (v[x] \div Base^(i - 1)) % Base]

(* What __taint_union_store does: labels ls of the n bytes of v. *)
StoredAs(t, u, v, n, s) ==
  /\ Wf(u.t) /\ Typed(u.t) /\ Grows(t, u.t)
  /\ \A i \in 1 .. n : /\ u.ls[i] \in 0 .. Len(u.t.info) /\ InfoIn(u.t, u.ls[i]).size = 1
                       /\ Means(u.t, u.ls[i], Digit(v, i), s)

(* The same labels are loaded. *)
LoadsBack(u, l, n) ==
  \A ls, cs : (\A i \in 1 .. n : ls[i] = u.ls[i]) => UnionLoad(u.t, ls, cs, n) = [t |-> u.t, l |-> l]

(* A digit is a byte. *)
LEMMA DigitRange ==
  ASSUME NEW v, NEW n \in 1 .. Cells, v \in [Inputs -> 0 .. Base^n - 1], NEW i \in 1 .. n
  PROVE  Digit(v, i) \in [Inputs -> 0 .. Base - 1]
<1>1. i \in 1 .. Cells /\ Base^n \in Nat
  BY NextPow, SizeAssumption
<1>2. Base^(i - 1) \in Nat \ {0} /\ Base \in Nat \ {0}
  BY <1>1, NextPow, Zenon
<1>3. ASSUME NEW x \in Inputs PROVE (v[x] \div Base^(i - 1)) % Base \in 0 .. Base - 1
  <2>1. v[x] \in Int
    BY <1>1
  <2>2. v[x] \div Base^(i - 1) \in Int
    BY <1>2, <2>1, DivMod, Zenon
  <2> QED
    BY <1>2, <2>2, DivMod, Zenon
<1> QED
  BY <1>3, Zenon DEF Digit

(* A value without a label. *)
LEMMA StoreConcrete ==
  ASSUME NEW t, Wf(t), Typed(t), NEW n \in 1 .. Cells, NEW v, NEW s \in Inputs, Means(t, 0, v, s)
  PROVE  StoredAs(t, UnionStore(t, 0, n), v, n, s) /\ LoadsBack(UnionStore(t, 0, n), 0, n)
<1> DEFINE u == UnionStore(t, 0, n)
<1>1. u = [t |-> t, ls |-> [i \in 1 .. n |-> 0]]
  BY Zenon DEF UnionStore
<1> HIDE DEF u
<1>2. u.t = t /\ \A i \in 1 .. n : u.ls[i] = 0
  BY <1>1, Zenon
<1>3. Grows(t, t) /\ Len(t.info) \in Nat
  BY WfLen, Zenon
<1>4. InfoIn(t, 0).size = 1
  BY Zenon DEF InfoIn, ConstInfo, Raw
<1>5. ASSUME NEW i \in 1 .. n PROVE Means(t, 0, Digit(v, i), s)
  BY Zenon DEF Means, Digit
<1>6. StoredAs(t, u, v, n, s)
  BY <1>2, <1>3, <1>4, <1>5 DEF StoredAs
<1>7. LoadsBack(u, 0, n)
  BY <1>2, Zenon DEF LoadsBack, UnionLoad
<1> QED
  BY <1>6, <1>7, Zenon DEF u

(* A value of one byte. *)
LEMMA StoreByte ==
  ASSUME NEW t, Wf(t), Typed(t), NEW l \in 1 .. Len(t.info), t.info[l].size = 1,
         NEW v, v \in [Inputs -> 0 .. Base^1 - 1], NEW s \in Inputs, Means(t, l, v, s)
  PROVE  StoredAs(t, UnionStore(t, l, 1), v, 1, s) /\ LoadsBack(UnionStore(t, l, 1), l, 1)
<1> DEFINE u == UnionStore(t, l, 1)
<1>0. l # 0 /\ l \in 0 .. Len(t.info) /\ Grows(t, t) /\ InfoIn(t, l) = t.info[l] /\ \A i \in 1 .. 1 : i = 1
  BY WfLen DEF InfoIn
<1>1. u = [t |-> t, ls |-> <<l>>]
  BY <1>0 DEF UnionStore
<1> HIDE DEF u
<1>2. u.t = t /\ u.ls[1] = l
  BY <1>1, Zenon
<1>3. Means(t, l, Digit(v, 1), s)
  <2>1. Base^(1 - 1) = 1 /\ Base^1 = Base /\ Base \in Nat \ {0}
    <3>1. 1 \in 1 .. Cells /\ 1 - 1 = 0
      BY SizeAssumption
    <3>2. Base^1 = Base * Base^(1 - 1) /\ Base^0 = 1
      BY <3>1, Pow, Zenon
    <3> QED
      BY <3>1, <3>2, SizeAssumption
  <2>2. ASSUME NEW x \in Inputs PROVE Digit(v, 1)[x] = v[x]
    <3>1. v[x] \in 0 .. Base - 1
      BY <2>1, Zenon
    <3>2. v[x] \div 1 = v[x] /\ v[x] % Base = v[x]
      <4> DEFINE y == v[x]
      <4>1. y \in 0 .. Base - 1
        BY <3>1, Zenon
      <4> HIDE DEF y
      <4>2. y \div 1 = y
        BY <4>1
      <4>3. y % Base = y
        BY <2>1, <4>1
      <4> QED
        BY <4>2, <4>3, Zenon DEF y
    <3> QED
      BY <2>1, <3>2, Zenon DEF Digit
  <2> QED
    BY <1>0, <2>2, Zenon DEF Means
<1>4. StoredAs(t, u, v, 1, s)
  BY <1>0, <1>2, <1>3, Zenon DEF StoredAs
<1>5. ASSUME NEW ls, NEW cs, \A i \in 1 .. 1 : ls[i] = u.ls[i]
      PROVE  UnionLoad(u.t, ls, cs, 1) = [t |-> u.t, l |-> l]
  <2>1. ls[1] = l /\ 1 \in 1 .. 1
    BY <1>2, <1>5
  <2>2. ~ \A i \in 1 .. 1 : ls[i] = 0
    BY <1>0, <2>1, Zenon
  <2>3. ~ Parts(t, ls, 1)
    <3> SUFFICES ASSUME Parts(t, ls, 1) PROVE FALSE
      BY Zenon
    <3>1. Part(t, l, Parent(t, ls), 1 - 1) /\ InfoIn(t, Parent(t, ls)).size = 1
      BY <2>1, Zenon DEF Parts
    <3>2. Parent(t, ls) \in 1 .. Len(t.info) /\ t.info[Parent(t, ls)].size > 1
      BY <1>0, <3>1, PartLabel, Zenon
    <3> QED
      BY <3>1, <3>2 DEF InfoIn
  <2>4. Slow(t, ls, cs, 1) = [t |-> t, l |-> l]
    <3>1. PICK f : IsSlow(f, t, ls, cs, 1) /\ Slow(t, ls, cs, 1) = f[1]
      BY SlowFunction
    <3>2. \A i \in 1 .. 1 : f[i] = IF i = 1 THEN [t |-> t, l |-> ls[1]] ELSE SlowStep(f[i - 1], ls, cs, i)
      BY <3>1, Zenon DEF IsSlow
    <3>3. f[1] = [t |-> t, l |-> ls[1]]
      BY <2>1, <3>2, Zenon
    <3> QED
      BY <2>1, <3>1, <3>3, Zenon
  <2> QED
    BY <1>2, <2>1, <2>2, <2>3, <2>4, Zenon DEF UnionLoad
<1>6. LoadsBack(u, l, 1)
  BY <1>5, Zenon DEF LoadsBack
<1> QED
  BY <1>4, <1>6, Zenon DEF u

(* A label of a Load: the labels of the file's bytes are used again. *)
LEMMA StoreLoad ==
  ASSUME NEW t, Wf(t), Typed(t), NEW n \in 2 .. Cells, NEW l \in 1 .. Len(t.info), t.info[l].size = n,
         t.info[l].op = "Load", NEW v, v \in [Inputs -> 0 .. Base^n - 1], NEW s \in Inputs, Means(t, l, v, s)
  PROVE  StoredAs(t, UnionStore(t, l, n), v, n, s) /\ LoadsBack(UnionStore(t, l, n), l, n)
<1> DEFINE u == UnionStore(t, l, n)
           e == t.info[l]
           p == e.l1
<1>0. /\ l # 0 /\ n > 1 /\ n # 1 /\ n \in 1 .. Cells /\ n \in 1 .. n /\ 1 \in 1 .. n
      /\ Grows(t, t) /\ Len(t.info) \in Nat /\ Len(t.info) >= N /\ N \in Nat
  BY WfLen
<1>1. u = [t |-> t, ls |-> [i \in 1 .. n |-> p + i - 1]]
  BY <1>0, Zenon DEF UnionStore
<1>2. l \in N + 1 .. Len(t.info) /\ Fits(t, e, l)
  BY OtherLabel, Zenon
<1>3. e.l2 = n /\ e.size = n /\ p \in Nat /\ e \in InfoRec
  BY <1>2, Zenon DEF Fits, InfoRec
<1>4. p # 0 /\ p + n - 1 <= N
  BY <1>3, Zenon DEF Typed
<1>5. e.op1 = 0 /\ e.op2 = 0 /\ e.l1 = p /\ e.op = "Load"
  BY <1>0, <1>2, <1>3, <1>4 DEF Fits
<1> HIDE DEF u, p
<1>6. u.t = t /\ \A i \in 1 .. n : u.ls[i] = p + i - 1
  BY <1>1, Zenon
<1>7. ASSUME NEW i \in 1 .. n
      PROVE  /\ u.ls[i] = p + i - 1 /\ u.ls[i] \in 1 .. N
             /\ u.ls[i] \in 1 .. Len(t.info) /\ u.ls[i] \in 0 .. Len(t.info) /\ u.ls[i] # 0
             /\ t.info[u.ls[i]].op = "Read" /\ InfoIn(t, u.ls[i]).op = "Read"
             /\ InfoIn(t, u.ls[i]).op1 = p + i - 1 - 1 /\ InfoIn(t, u.ls[i]).size = 1
  <2>1. u.ls[i] = p + i - 1
    BY <1>6, Zenon
  <2>2. u.ls[i] \in 1 .. N
    BY <1>0, <1>3, <1>4, <2>1
  <2>3. u.ls[i] \in 1 .. Len(t.info) /\ u.ls[i] \in 0 .. Len(t.info) /\ u.ls[i] # 0
    BY <1>0, <2>2
  <2>4. t.info[u.ls[i]] = Raw(u.ls[i] - 1)
    BY <2>2, Zenon DEF Wf
  <2>5. InfoIn(t, u.ls[i]) = Raw(u.ls[i] - 1)
    BY <2>3, <2>4, Zenon DEF InfoIn
  <2>6. \A o : Raw(o).op = "Read" /\ Raw(o).op1 = o /\ Raw(o).size = 1
    BY Zenon DEF Raw
  <2>7. u.ls[i] - 1 = p + i - 1 - 1
    BY <1>3, <2>1
  <2> QED
    BY <2>1, <2>2, <2>3, <2>4, <2>5, <2>6, <2>7, Zenon
<1>8. ASSUME NEW i \in 1 .. n PROVE Means(t, u.ls[i], Digit(v, i), s)
  <2>2. \A x \in Inputs : t.val[u.ls[i]][x] = x[u.ls[i] - 1]
    <3> DEFINE q == u.ls[i]
    <3>1. q \in 1 .. Len(t.info) /\ t.info[q].op = "Read"
      BY <1>7, Zenon
    <3> HIDE DEF q
    <3>2. \A x \in Inputs : t.val[q][x] = x[q - 1]
      BY <3>1, RawLabel, Zenon
    <3> QED
      BY <3>2, Zenon DEF q
  <2>3. InfoIn(t, p).op1 = p - 1
    <3>1. u.ls[1] = p + 1 - 1 /\ InfoIn(t, u.ls[1]).op1 = p + 1 - 1 - 1
      BY <1>0, <1>7, Zenon
    <3>2. p + 1 - 1 = p /\ p + 1 - 1 - 1 = p - 1
      BY <1>3
    <3> QED
      BY <3>1, <3>2, Zenon
  <2>4. ASSUME NEW x \in Inputs PROVE Digit(v, i)[x] = x[u.ls[i] - 1]
    <3> DEFINE d == [j \in 1 .. n |-> x[p - 1 + j - 1]]
    <3>1. v[x] = t.val[l][x]
      BY <1>0, Zenon DEF Means
    <3>2. t.val[l][x] = Value(t, e, x)
      BY ValueOf, Zenon
    <3>3. Value(t, e, x) = Bytes(x, InfoIn(t, p).op1, n)
      <4> HIDE DEF e
      <4> QED
        BY <1>3, <1>5, Zenon DEF Value
    <3>4. v[x] = Number(d, n)
      BY <2>3, <3>1, <3>2, <3>3, Zenon DEF Bytes
    <3>5. ASSUME NEW j \in 1 .. n PROVE d[j] \in 0 .. Base - 1
      <4>1. p - 1 + j - 1 \in 0 .. N - 1
        BY <1>0, <1>3, <1>4
      <4>2. x[p - 1 + j - 1] \in 0 .. Base - 1
        BY <4>1, Zenon DEF Inputs, Offs
      <4> QED
        BY <4>2, Zenon
    <3>6. d[i] = x[u.ls[i] - 1]
      <4>1. p - 1 + i - 1 = u.ls[i] - 1
        BY <1>3, <1>7
      <4> QED
        BY <4>1, Zenon
    <3> HIDE DEF d
    <3>7. (Number(d, n) \div Base^(i - 1)) % Base = d[i]
      BY <1>0, <3>5, NumberDigit, Zenon
    <3> QED
      BY <3>4, <3>6, <3>7 DEF Digit
  <2> QED
    BY <1>7, <2>2, <2>4, Zenon DEF Means
<1>9. StoredAs(t, u, v, n, s)
  BY <1>0, <1>6, <1>7, <1>8, Zenon DEF StoredAs
<1>10. ASSUME NEW ls, NEW cs, \A i \in 1 .. n : ls[i] = u.ls[i]
       PROVE  UnionLoad(u.t, ls, cs, n) = [t |-> u.t, l |-> l]
  <2>1. ls[1] = p /\ ls[1] # 0 /\ ls[1] \in 0 .. Len(t.info)
    <3>1. ls[1] = u.ls[1] /\ u.ls[1] = p + 1 - 1 /\ u.ls[1] \in 0 .. Len(t.info) /\ u.ls[1] # 0
      BY <1>0, <1>7, <1>10
    <3> QED
      BY <1>3, <3>1
  <2>2. ~ \A i \in 1 .. n : ls[i] = 0
    BY <1>0, <2>1, Zenon
  <2>3. ASSUME NEW i \in 1 .. n PROVE InfoIn(t, ls[i]).op = "Read" /\ InfoIn(t, ls[i]).op1 = p + i - 1 - 1
    BY <1>7, <1>10, Zenon
  <2>4. Shape(t, ls, n)
    <3>1. InfoIn(t, ls[1]).op = "Read" /\ InfoIn(t, ls[1]).op1 = p - 1
      BY <1>0, <1>3, <2>3
    <3>2. \A i \in 2 .. n : InfoIn(t, ls[i]).op1 = p - 1 + i - 1
      BY <1>3, <2>3
    <3> QED
      BY <3>1, <3>2, Zenon DEF Shape
  <2>5. Normal(ls[1], n, "Load", n, 0, 0) = [op |-> "Load", l1 |-> ls[1], l2 |-> n, size |-> n, op1 |-> 0, op2 |-> 0]
    BY <2>1, LoadEntry, Zenon
  <2>6. e = [op |-> e.op, l1 |-> e.l1, l2 |-> e.l2, size |-> e.size, op1 |-> e.op1, op2 |-> e.op2]
    BY <1>3, Zenon DEF InfoRec
  <2>7. Normal(ls[1], n, "Load", n, 0, 0) = e
    BY <1>3, <1>5, <2>1, <2>5, <2>6, Zenon
  <2>8. Lookup(t, e) = {l}
    <3>1. \A k \in 1 .. Len(t.info) : t.info[k] = e => k = l
      <4> SUFFICES ASSUME NEW k \in 1 .. Len(t.info), t.info[k] = e PROVE k = l
        BY Zenon
      <4>1. k \in N + 1 .. Len(t.info)
        BY OtherLabel, Zenon
      <4> QED
        BY <1>2, <4>1, Zenon DEF Wf
    <3> QED
      BY <3>1, Zenon DEF Lookup
  <2>9. Union(t, ls[1], n, "Load", n, 0, 0) = [t |-> t, l |-> l]
    <3> HIDE DEF e
    <3>1. (CHOOSE k \in {l} : TRUE) = l
      BY Zenon
    <3> QED
      BY <2>1, <2>7, <2>8, <3>1, Zenon DEF Union
  <2> QED
    BY <1>0, <1>6, <2>2, <2>4, <2>9, Zenon DEF UnionLoad
<1>11. LoadsBack(u, l, n)
  BY <1>10, Zenon DEF LoadsBack
<1> QED
  BY <1>9, <1>11, Zenon DEF u

(* Any other label is broken up. *)
LEMMA StoreParts ==
  ASSUME NEW t, Wf(t), Typed(t), NEW n \in 2 .. Cells, NEW l \in 1 .. Len(t.info), t.info[l].size = n,
         t.info[l].op # "Load", NEW v, v \in [Inputs -> 0 .. Base^n - 1], NEW s \in Inputs, Means(t, l, v, s)
  PROVE  StoredAs(t, UnionStore(t, l, n), v, n, s) /\ LoadsBack(UnionStore(t, l, n), l, n)
<1> DEFINE u == UnionStore(t, l, n)
<1>0. l # 0 /\ n > 1 /\ n # 1 /\ 1 \in 1 .. n /\ Len(t.info) \in Nat
  BY WfLen
<1>1. u = Extracts(t, l, n)
  BY <1>0, Zenon DEF UnionStore
<1>2. Broken(t, u, l, n)
  BY <1>1, ExtractsMade, Zenon
<1> HIDE DEF u
<1>3. Wf(u.t) /\ Typed(u.t) /\ Grows(t, u.t) /\ Len(u.t.info) \in Nat
  BY <1>2, WfLen, Zenon DEF Broken
<1>4. \A i \in 1 .. n : /\ u.ls[i] \in 1 .. Len(u.t.info) /\ u.ls[i] # 0 /\ u.ls[i] \in 0 .. Len(u.t.info)
                        /\ Part(u.t, u.ls[i], l, i - 1) /\ InfoIn(u.t, u.ls[i]).size = 1
  <2> SUFFICES ASSUME NEW i \in 1 .. n
               PROVE  /\ u.ls[i] \in 1 .. Len(u.t.info) /\ u.ls[i] # 0 /\ u.ls[i] \in 0 .. Len(u.t.info)
                      /\ Part(u.t, u.ls[i], l, i - 1) /\ InfoIn(u.t, u.ls[i]).size = 1
    BY Zenon
  <2> DEFINE m == u.ls[i]
  <2>1. m \in 1 .. Len(u.t.info) /\ Part(u.t, m, l, i - 1) /\ u.t.info[m].size = 1
    BY <1>2, Zenon DEF Broken
  <2> HIDE DEF m
  <2>2. m # 0 /\ m \in 0 .. Len(u.t.info) /\ InfoIn(u.t, m).size = 1
    BY <1>3, <2>1 DEF InfoIn
  <2> QED
    BY <2>1, <2>2, Zenon DEF m
<1>5. ASSUME NEW i \in 1 .. n PROVE Means(u.t, u.ls[i], Digit(v, i), s)
  <2>1. \A x \in Inputs : u.t.val[u.ls[i]][x] = (u.t.val[l][x] \div Base^(i - 1)) % Base
    <3> DEFINE k == i - 1
               m == u.ls[i]
    <3>1. m \in 0 .. Len(u.t.info) /\ Part(u.t, m, l, k)
      BY <1>4, Zenon
    <3> HIDE DEF k, m
    <3>2. \A x \in Inputs : u.t.val[m][x] = (u.t.val[l][x] \div Base^k) % Base
      <4>1. Wf(u.t)
        BY <1>3, Zenon
      <4> QED
        BY <3>1, <4>1, PartLabel
    <3> QED
      BY <3>2, Zenon DEF k, m
  <2>2. u.t.val[l] = t.val[l]
    BY <1>3, Zenon DEF Grows
  <2>3. \A x \in Inputs : v[x] = t.val[l][x]
    BY <1>0, Zenon DEF Means
  <2>4. \A x \in Inputs : Digit(v, i)[x] = u.t.val[u.ls[i]][x]
    BY <2>1, <2>2, <2>3 DEF Digit
  <2> QED
    BY <1>4, <2>4, Zenon DEF Means
<1>6. StoredAs(t, u, v, n, s)
  BY <1>3, <1>4, <1>5, Zenon DEF StoredAs
<1>7. ASSUME NEW ls, NEW cs, \A i \in 1 .. n : ls[i] = u.ls[i]
      PROVE  UnionLoad(u.t, ls, cs, n) = [t |-> u.t, l |-> l]
  <2>1. \A i \in 1 .. n : Part(u.t, ls[i], l, i - 1) /\ ls[i] # 0
    BY <1>4, <1>7, Zenon
  <2>2. InfoIn(u.t, ls[1]).op = "Extract" /\ Parent(u.t, ls) = l /\ ls[1] # 0
    BY <1>0, <2>1, Zenon DEF Part, Parent
  <2>3. ~ Shape(u.t, ls, n)
    BY <2>2, Zenon DEF Shape
  <2>4. InfoIn(u.t, l).size = n
    BY <1>0, <1>3, Zenon DEF Grows, InfoIn
  <2>5. Parts(u.t, ls, n)
    BY <2>1, <2>2, <2>4, Zenon DEF Parts
  <2>6. ~ \A i \in 1 .. n : ls[i] = 0
    BY <1>0, <2>2, Zenon
  <2> QED
    BY <2>2, <2>3, <2>5, <2>6 DEF UnionLoad
<1>8. LoadsBack(u, l, n)
  BY <1>7, Zenon DEF LoadsBack
<1> QED
  BY <1>6, <1>8, Zenon DEF u

(* __taint_union_store: the labels stand for the bytes that are stored,    *)
(* and __taint_union_load makes the label of them again.                   *)
LEMMA StoreRight ==
  ASSUME NEW t, Wf(t), Typed(t), NEW n \in 1 .. Cells, NEW l \in 0 .. Len(t.info), l # 0 => t.info[l].size = n,
         NEW v, v \in [Inputs -> 0 .. Base^n - 1], NEW s \in Inputs, Means(t, l, v, s)
  PROVE  StoredAs(t, UnionStore(t, l, n), v, n, s) /\ LoadsBack(UnionStore(t, l, n), l, n)
<1>1. CASE l = 0
  BY <1>1, StoreConcrete, Zenon
<1>2. CASE l # 0
  <2>1. l \in 1 .. Len(t.info) /\ t.info[l].size = n
    BY <1>2, WfLen
  <2>2. CASE n = 1
    BY <2>1, <2>2, StoreByte, Zenon
  <2>3. CASE n # 1
    <3>1. n \in 2 .. Cells
      BY <2>3
    <3> QED
      BY <2>1, <3>1, StoreLoad, StoreParts, Zenon
  <2> QED
    BY <2>2, <2>3, Zenon
<1> QED
  BY <1>1, <1>2, Zenon

-----------------------------------------------------------------------------
(* Labels in a table that has grown, and the arithmetic instructions. *)

(* What a label stands for does not change. *)
LEMMA KeepMeaning ==
  ASSUME NEW t, NEW u, Grows(t, u), Len(t.info) \in Nat, NEW l \in 0 .. Len(t.info), NEW v, NEW s, Means(t, l, v, s)
  PROVE  Means(u, l, v, s)
<1>1. l # 0 => u.val[l] = t.val[l]
  BY DEF Grows
<1> QED
  BY <1>1, Zenon DEF Means

(* Nor does its entry. *)
LEMMA KeepSize ==
  ASSUME NEW t, NEW u, Grows(t, u), Len(t.info) \in Nat, Len(u.info) \in Nat, NEW l \in 0 .. Len(t.info)
  PROVE  l \in 0 .. Len(u.info) /\ InfoIn(u, l) = InfoIn(t, l)
BY DEF Grows, InfoIn

(* Each entry has a value. *)
LEMMA ValLen ==
  ASSUME NEW t, Wf(t)
  PROVE  Len(t.val) = Len(t.info)
<1> DEFINE n == Len(t.info)
           q == t.val
           S == {q[k] : k \in 1 .. n}
<1>1. n \in Nat /\ q = [k \in 1 .. n |-> q[k]]
  BY WfLen, Zenon DEF Wf
<1>2. \A k \in 1 .. n : q[k] \in S
  BY Zenon
<1> HIDE DEF n, q, S
<1>3. q \in [1 .. n -> S]
  BY <1>1, <1>2, Zenon
<1>4. Len(q) = n
  BY <1>1, <1>3
<1> QED
  BY <1>4, Zenon DEF n, q

-----------------------------------------------------------------------------
(* The result of an instruction has the size of its operands. *)
LEMMA ResultRange ==
  ASSUME NEW op, NEW n \in 1 .. Cells, NEW v, NEW w, v \in [Inputs -> 0 .. Base^n - 1], w \in [Inputs -> 0 .. Base^n - 1]
  PROVE  Result(op, v, w, n) \in [Inputs -> 0 .. Base^n - 1]
<1>1. Base^n \in Nat \ {0}
  BY NextPow, Zenon
<1>2. ASSUME NEW x \in Inputs
      PROVE  (IF op = "Add" THEN v[x] + w[x] ELSE v[x] - w[x]) % Base^n \in 0 .. Base^n - 1
  <2> DEFINE a == IF op = "Add" THEN v[x] + w[x] ELSE v[x] - w[x]
  <2>1. v[x] \in Int /\ w[x] \in Int
    BY <1>1
  <2>2. a \in Int
    BY <2>1
  <2> HIDE DEF a
  <2>3. a % Base^n \in 0 .. Base^n - 1
    BY <1>1, <2>2, DivMod, Zenon
  <2> QED
    BY <2>3, Zenon DEF a
<1> QED
  BY <1>2, Zenon DEF Result

(* The value of an entry for an instruction on labels or concrete values. *)
LEMMA OpValue ==
  ASSUME NEW t, NEW op \in Ops, NEW l \in Nat, NEW m \in Nat, NEW n, NEW v, NEW w, NEW s,
         Means(t, l, v, s), Means(t, m, w, s), NEW x \in Inputs
  PROVE  Value(t, Entry(l, m, op, n, v[s], w[s]), x) =
           (IF op = "Add" THEN v[x] + w[x] ELSE v[x] - w[x]) % Base^n
<1> DEFINE e == Entry(l, m, op, n, v[s], w[s])
<1>1. /\ e.op = op /\ e.l1 = l /\ e.l2 = m /\ e.size = n
      /\ e.op1 = (IF l > 0 THEN 0 ELSE v[s]) /\ e.op2 = (IF m > 0 THEN 0 ELSE w[s])
  BY Zenon DEF Entry
<1> HIDE DEF e
<1>2. Left(t, e, x) = v[x]
  BY <1>1 DEF Left, Means
<1>3. Right(t, e, x) = w[x]
  BY <1>1 DEF Right, Means
<1>4. op \in {"Add", "Sub"}
  BY Zenon DEF Ops
<1>5. CASE op = "Add"
  BY <1>1, <1>2, <1>3, <1>5 DEF Value, e
<1>6. CASE op = "Sub"
  BY <1>1, <1>2, <1>3, <1>6, Zenon DEF Value, e
<1> QED
  BY <1>4, <1>5, <1>6, Zenon

(* The label of an instruction stands for its result. *)
LEMMA BinaryRight ==
  ASSUME NEW t, Wf(t), NEW l \in 0 .. Len(t.info), NEW m \in 0 .. Len(t.info), NEW op \in Ops, NEW n \in 1 .. Cells,
         NEW s \in Inputs, NEW v, NEW w, v \in [Inputs -> 0 .. Base^n - 1], w \in [Inputs -> 0 .. Base^n - 1]
  PROVE  /\ Sized(t, Union(t, l, m, op, n, v[s], w[s]), n)
         /\ Typed(t) /\ Means(t, l, v, s) /\ Means(t, m, w, s) =>
              /\ Typed(Union(t, l, m, op, n, v[s], w[s]).t)
              /\ Means(Union(t, l, m, op, n, v[s], w[s]).t, Union(t, l, m, op, n, v[s], w[s]).l, Result(op, v, w, n), s)
<1> DEFINE u == Union(t, l, m, op, n, v[s], w[s])
           e == Normal(l, m, op, n, v[s], w[s])
           r == Result(op, v, w, n)
<1>0. /\ l \in Nat /\ m \in Nat /\ Len(t.info) \in Nat /\ Grows(t, t)
      /\ v[s] \in Nat /\ w[s] \in Nat
  <2>1. Base^n \in Nat
    BY NextPow, Zenon
  <2> QED
    BY <2>1, WfLen
<1>1. r \in [Inputs -> 0 .. Base^n - 1]
  BY ResultRange, Zenon
<1>2. CASE l = 0 /\ m = 0
  <2>1. u = [t |-> t, l |-> 0]
    BY <1>2, Zenon DEF Union
  <2>2. ASSUME Means(t, l, v, s), Means(t, m, w, s) PROVE \A x \in Inputs : r[x] = r[s]
    BY <1>2, <2>2, Zenon DEF Means, Result
  <2> HIDE DEF u, r
  <2>3. Sized(t, u, n)
    BY <1>0, <2>1 DEF Sized
  <2>4. ASSUME Means(t, l, v, s), Means(t, m, w, s), Typed(t) PROVE Typed(u.t) /\ Means(u.t, u.l, r, s)
    BY <2>1, <2>2, <2>4, Zenon DEF Means
  <2> QED
    BY <2>3, <2>4, Zenon DEF u, r
<1>3. CASE l # 0 \/ m # 0
  <2>1. /\ e = Entry(l, m, op, n, v[s], w[s]) \/ (e = Entry(m, l, op, n, w[s], v[s]) /\ op = "Add")
        /\ Fits(t, e, Len(t.info) + 1)
    BY <1>0, <1>3, OpEntry, Zenon
  <2>2. e.size = n /\ e.op = op /\ op # "Load"
    BY <2>1 DEF Entry, Ops
  <2>3. Made(t, u, e)
    BY <1>3, <2>1, UnionMade
  <2> HIDE DEF u
  <2>4. /\ Wf(u.t) /\ Grows(t, u.t) /\ u.l \in 1 .. Len(u.t.info) /\ u.t.info[u.l] = e /\ u = [t |-> u.t, l |-> u.l]
        /\ u.t.val[u.l] = [x \in Inputs |-> Value(t, e, x)]
    BY <2>3, Zenon DEF Made
  <2>5. Sized(t, u, n)
    <3> HIDE DEF e
    <3> QED
      BY <2>2, <2>4, WfLen DEF Sized
  <2>6. ASSUME Typed(t), Means(t, l, v, s), Means(t, m, w, s) PROVE Typed(u.t) /\ Means(u.t, u.l, r, s)
    <3>1. ASSUME NEW x \in Inputs PROVE Value(t, e, x) = r[x]
      <4>1. r[x] = (IF op = "Add" THEN v[x] + w[x] ELSE v[x] - w[x]) % Base^n
        BY Zenon DEF Result
      <4>2. CASE e = Entry(l, m, op, n, v[s], w[s])
        BY <1>0, <2>6, <4>1, <4>2, OpValue
      <4>3. CASE e = Entry(m, l, op, n, w[s], v[s]) /\ op = "Add"
        <5>1. Value(t, e, x) = (w[x] + v[x]) % Base^n
          BY <1>0, <2>6, <4>3, OpValue
        <5>2. v[x] \in Int /\ w[x] \in Int
          <6>1. Base^n \in Nat
            BY NextPow, Zenon
          <6> QED
            BY <6>1
        <5>3. w[x] + v[x] = v[x] + w[x]
          BY <5>2
        <5> QED
          BY <4>1, <4>3, <5>1, <5>3, Zenon
      <4> QED
        BY <2>1, <4>2, <4>3, Zenon
    <3> HIDE DEF e, r
    <3>2. \A x \in Inputs : r[x] \in 0 .. Base^n - 1
      BY <1>1, Zenon
    <3>3. TypedEntry(t, e)
      BY <2>2, <3>1, <3>2, Zenon DEF TypedEntry
    <3>4. Typed(u.t)
      BY <1>3, <2>1, <2>6, <3>3, UnionTyped, Zenon DEF u, e
    <3>5. u.l # 0 /\ \A x \in Inputs : r[x] = u.t.val[u.l][x]
      BY <2>4, <3>1
    <3>6. Means(u.t, u.l, r, s)
      BY <3>5, Zenon DEF Means
    <3> QED
      BY <3>4, <3>6, Zenon
  <2> QED
    BY <2>5, <2>6, Zenon DEF u
<1> QED
  BY <1>2, <1>3, Zenon

-----------------------------------------------------------------------------
(* The inductive invariant.  The three invariants follow from it.  Wf is   *)
(* what Interned needs (entries are normal and there once); Typed is what  *)
(* a Concat and the return from Extracts to their parent need (a value has *)
(* no digits beyond its size).                                             *)

(* The parts of the invariant that the actions establish. *)
RegRight == ~odd => Means(table, reg.l, reg.v, seed)
(* The labels of the bytes in memory stand for them. *)
BytesRight == ~odd => \A a \in Addrs : Means(table, shadow[a], mem[a], seed)
(* The register has a size, and a value and a label of this size. *)
RegType ==
  /\ reg.n \in 1 .. Cells /\ reg.v \in [Inputs -> 0 .. Base^reg.n - 1]
  /\ reg.l \in 0 .. Len(table.info) /\ (reg.l # 0 => table.info[reg.l].size = reg.n)
(* Memory has bytes, and labels of bytes. *)
BytesType ==
  /\ mem \in [Addrs -> [Inputs -> 0 .. Base - 1]] /\ shadow \in [Addrs -> 0 .. Len(table.info)]
  /\ \A a \in Addrs : InfoIn(table, shadow[a]).size = 1

(* The inductive invariant. *)
TaintInv ==
  /\ seed \in Inputs /\ steps \in 0 .. MaxSteps /\ odd \in BOOLEAN
  /\ Wf(table) /\ (~odd => Typed(table))
  /\ RegType /\ BytesType /\ RegRight /\ BytesRight

(* It has the types. *)
LEMMA InvTypeOK == TaintInv => TypeOK
<1> SUFFICES ASSUME TaintInv PROVE TypeOK
  BY Zenon
<1>1. table.info \in Seq(InfoRec) /\ Len(table.val) = Len(table.info)
  BY ValLen, Zenon DEF TaintInv, Wf
<1>2. reg.l # 0 => Info(reg.l) = table.info[reg.l]
  BY Zenon DEF Info, InfoIn
<1>3. \A a : Info(shadow[a]) = InfoIn(table, shadow[a])
  BY Zenon DEF Info
<1> QED
  BY <1>1, <1>2, <1>3, Zenon DEF TaintInv, TypeOK, RegType, BytesType, Labels

(* It has the labels right. *)
LEMMA InvLabels == TaintInv => LabelsRight
BY Zenon DEF TaintInv, LabelsRight, RegRight, BytesRight, Describes, Means

(* It has equal expressions share a label. *)
LEMMA InvInterned == TaintInv => Interned
<1> SUFFICES ASSUME TaintInv, NEW k \in Labels \ {0}, NEW l \in Labels \ {0}, k # l
             PROVE  LET d == Info(k)
                        e == Info(l)
                    IN  /\ d.op # "Read" => d # e
                        /\ is_commutative(d.op) =>
                             d # [e EXCEPT !.l1 = e.l2, !.l2 = e.l1, !.op1 = e.op2, !.op2 = e.op1]
  BY Zenon DEF Interned
<1> DEFINE d == Info(k)
           e == Info(l)
<1>0. Wf(table) /\ Len(table.info) \in Nat
  BY WfLen, Zenon DEF TaintInv
<1>1. /\ k \in 1 .. Len(table.info) /\ l \in 1 .. Len(table.info)
      /\ d = table.info[k] /\ e = table.info[l]
  BY <1>0 DEF Labels, Info, InfoIn
<1> SUFFICES /\ d.op # "Read" => d # e
             /\ is_commutative(d.op) => d # [e EXCEPT !.l1 = e.l2, !.l2 = e.l1, !.op1 = e.op2, !.op2 = e.op1]
  BY Zenon
<1> HIDE DEF d, e
<1>2. ASSUME d.op # "Read", e.op # "Read" PROVE d # e
  <2>1. k \in N + 1 .. Len(table.info) /\ l \in N + 1 .. Len(table.info)
    BY <1>0, <1>1, <1>2, OtherLabel, Zenon
  <2> QED
    BY <1>0, <1>1, <2>1, Zenon DEF Wf
<1>3. d.op # "Read" => d # e
  BY <1>2, Zenon
<1>4. ASSUME d.op = "Add", d = [e EXCEPT !.l1 = e.l2, !.l2 = e.l1, !.op1 = e.op2, !.op2 = e.op1] PROVE FALSE
  <2>1. e \in InfoRec
    BY <1>0, <1>1 DEF Wf
  <2>2. d.l1 = e.l2 /\ d.l2 = e.l1 /\ d.op1 = e.op2 /\ d.op2 = e.op1 /\ e.op = "Add"
    BY <1>4, <2>1, Zenon DEF InfoRec
  <2>3. Fits(table, d, k) /\ Fits(table, e, l)
    <3>1. table.info[k].op # "Read" /\ table.info[l].op # "Read"
      BY <1>1, <1>4, <2>2, Zenon
    <3>2. Fits(table, table.info[k], k) /\ Fits(table, table.info[l], l)
      BY <1>0, <1>1, <3>1, OtherLabel, Zenon
    <3> QED
      BY <1>1, <3>2
  <2>4. /\ d.l1 \in Nat /\ d.l2 \in Nat /\ d.l1 <= d.l2 /\ e.l1 <= e.l2 /\ (d.l1 # 0 \/ d.l2 # 0)
        /\ (d.l1 # 0 => d.op1 = 0) /\ (d.l2 # 0 => d.op2 = 0)
    BY <1>4, <2>2, <2>3, Zenon DEF Fits, InfoRec, is_commutative
  <2>5. d.l1 = d.l2 /\ d.op1 = 0 /\ d.op2 = 0
    BY <2>2, <2>4
  <2>6. e = [e EXCEPT !.l1 = e.l2, !.l2 = e.l1, !.op1 = e.op2, !.op2 = e.op1]
    BY <2>1, <2>2, <2>5, Zenon DEF InfoRec
  <2>7. d = e
    BY <1>4, <2>6
  <2>8. d.op # "Read"
    BY <1>4, Zenon
  <2> QED
    BY <1>3, <2>7, <2>8, Zenon
<1> QED
  BY <1>3, <1>4, Zenon DEF is_commutative

(* dfsan_init establishes it. *)
LEMMA InitInv == Init => TaintInv
<1> SUFFICES ASSUME Init PROVE TaintInv
  BY Zenon
<1> DEFINE i0 == [l \in 1 .. N |-> Raw(l - 1)]
           v0 == [l \in 1 .. N |-> [x \in Inputs |-> x[l - 1]]]
<1>0. N \in Nat \ {0} /\ Cells \in Nat \ {0} /\ Base \in Nat \ {0, 1}
  BY SizeAssumption, Zenon
<1>1. table = [info |-> i0, val |-> v0]
  BY Zenon DEF Init, FileTable
<1>2. table.info = i0 /\ table.val = v0 /\ table = [info |-> table.info, val |-> table.val]
  BY <1>1, Zenon
<1>3. \A l \in 1 .. N : Raw(l - 1) \in InfoRec /\ Raw(l - 1).op = "Read" /\ Raw(l - 1).op1 = l - 1 /\ Raw(l - 1).size = 1
  BY <1>0 DEF Raw, InfoRec
<1>4. i0 \in Seq(InfoRec) /\ Len(i0) = N
  BY <1>0, <1>3
<1>5. \A l \in 1 .. N : table.info[l] = Raw(l - 1) /\ table.val[l] = [x \in Inputs |-> x[l - 1]]
  BY <1>2, Zenon
<1>6. table.val = [k \in 1 .. N |-> table.val[k]]
  BY <1>2, Zenon
<1> HIDE DEF i0, v0
<1>7. ASSUME NEW k \in 1 .. N PROVE table.val[k] = [x \in Inputs |-> Value(table, table.info[k], x)]
  <2>1. \A x : Value(table, table.info[k], x) = x[k - 1]
    BY <1>3, <1>5, Zenon DEF Value
  <2> QED
    BY <1>5, <2>1, Zenon
<1>8. Len(table.info) = N /\ N + 1 .. N = {}
  BY <1>0, <1>2, <1>4
<1>9. Wf(table)
  <2>1. \A k \in 1 .. Len(table.info) : table.val[k] = [x \in Inputs |-> Value(table, table.info[k], x)]
    BY <1>7, <1>8, Zenon
  <2>2. table.val = [k \in 1 .. Len(table.info) |-> table.val[k]]
    BY <1>6, <1>8, Zenon
  <2>3. table.info \in Seq(InfoRec) /\ Len(table.info) >= N
    BY <1>0, <1>2, <1>4, <1>8
  <2>4. \A k \in N + 1 .. Len(table.info) : FALSE
    BY <1>8, Zenon
  <2> QED
    BY <1>2, <1>5, <2>1, <2>2, <2>3, <2>4, Zenon DEF Wf
<1>10. Base^1 = Base
  <2>1. 1 \in 1 .. Cells /\ 1 - 1 = 0
    BY <1>0
  <2>2. Base^1 = Base * Base^(1 - 1) /\ Base^0 = 1
    BY <2>1, Pow, Zenon
  <2> QED
    BY <1>0, <2>1, <2>2
<1>11. Typed(table)
  <2> SUFFICES ASSUME NEW k \in 1 .. N
               PROVE  /\ table.val[k] \in [Inputs -> 0 .. Base^(table.info[k].size) - 1]
                      /\ table.info[k].op = "Load" => table.info[k].l1 # 0 /\ table.info[k].l1 + table.info[k].l2 - 1 <= N
    BY <1>8, Zenon DEF Typed
  <2>1. table.info[k].op = "Read" /\ table.info[k].size = 1
    BY <1>3, <1>5, Zenon
  <2>2. \A x \in Inputs : x[k - 1] \in 0 .. Base - 1
    BY <1>0 DEF Inputs, Offs
  <2>3. table.val[k] \in [Inputs -> 0 .. Base - 1]
    BY <1>5, <2>2, Zenon
  <2> QED
    BY <1>10, <2>1, <2>3, Zenon
<1>12. seed \in Inputs /\ steps \in 0 .. MaxSteps /\ odd = FALSE
  BY SizeAssumption DEF Init
<1>13. \A x \in Inputs : Const(0)[x] = 0
  BY Zenon DEF Const
<1>14. Const(0) \in [Inputs -> 0 .. Base - 1]
  BY <1>0 DEF Const
<1>15. RegType
  <2>1. reg.l = 0 /\ reg.v = Const(0) /\ reg.n = 1
    BY Zenon DEF Init
  <2> QED
    BY <1>0, <1>8, <1>10, <1>14, <2>1 DEF RegType
<1>16. BytesType
  <2>1. mem = [a \in Addrs |-> Const(0)] /\ shadow = [a \in Addrs |-> 0]
    BY Zenon DEF Init
  <2>2. InfoIn(table, 0).size = 1
    BY Zenon DEF InfoIn, ConstInfo, Raw
  <2> QED
    BY <1>0, <1>8, <1>14, <2>1, <2>2 DEF BytesType
<1>17. RegRight /\ BytesRight
  <2>1. Means(table, 0, Const(0), seed)
    BY <1>12, <1>13, Zenon DEF Means
  <2>2. reg.l = 0 /\ reg.v = Const(0) /\ mem = [a \in Addrs |-> Const(0)] /\ shadow = [a \in Addrs |-> 0]
    BY Zenon DEF Init
  <2> QED
    BY <2>1, <2>2, Zenon DEF RegRight, BytesRight
<1> QED
  BY <1>9, <1>11, <1>12, <1>15, <1>16, <1>17, Zenon DEF TaintInv

-----------------------------------------------------------------------------
(* The instructions that load. *)

(* Every step counts. *)
LEMMA StepSteps == ASSUME TaintInv, Step PROVE steps' \in 0 .. MaxSteps
  BY SizeAssumption DEF Step, TaintInv

(* What a load from memory returns. *)
LEMMA LoadAtRight ==
  ASSUME TaintInv, ~odd, NEW a \in Addrs, NEW n \in 1 .. Cells, a + n - 1 \in Addrs
  PROVE  /\ Sized(table, LoadAt(a, n), n)
         /\ ValueAt(a, n) \in [Inputs -> 0 .. Base^n - 1]
         /\ ~ OddLoad(LabelsAt(a, n), n) =>
              Typed(LoadAt(a, n).t) /\ Means(LoadAt(a, n).t, LoadAt(a, n).l, ValueAt(a, n), seed)
<1> DEFINE ls == LabelsAt(a, n)
           cs == [i \in 1 .. n |-> mem[a + i - 1][seed]]
           ms == [i \in 1 .. n |-> mem[a + i - 1]]
<1>0. /\ Wf(table) /\ Typed(table) /\ seed \in Inputs /\ Len(table.info) \in Nat
      /\ \A b \in Addrs : mem[b] \in [Inputs -> 0 .. Base - 1] /\ shadow[b] \in 0 .. Len(table.info)
      /\ \A b \in Addrs : InfoIn(table, shadow[b]).size = 1 /\ Means(table, shadow[b], mem[b], seed)
  BY WfLen, Zenon DEF TaintInv, BytesType, BytesRight
<1>1. \A i \in 1 .. n : a + i - 1 \in Addrs
  BY SizeAssumption DEF Addrs
<1>2. \A i \in 1 .. n : ls[i] = shadow[a + i - 1] /\ cs[i] = mem[a + i - 1][seed] /\ ms[i] = mem[a + i - 1]
  BY Zenon DEF LabelsAt
<1>3. ASSUME NEW x \in Inputs PROVE SumAt(a, n, x) = Number(Digits(ms, n, x), n)
  <2>1. [i \in 1 .. n |-> mem[a + i - 1][x]] = [i \in 1 .. n |-> ms[i][x]]
    BY <1>2, Zenon
  <2> QED
    BY <2>1, Zenon DEF SumAt, Digits
<1>4. ValueAt(a, n) = [x \in Inputs |-> Number(Digits(ms, n, x), n)]
  BY <1>3, Zenon DEF ValueAt
<1>5. LoadAt(a, n) = UnionLoad(table, ls, cs, n)
  BY Zenon DEF LoadAt
<1> HIDE DEF ls, cs, ms
<1>6. Bytewise(table, ls, cs, n)
  <2>1. ASSUME NEW i \in 1 .. n PROVE cs[i] \in 0 .. Base - 1
    <3>1. cs[i] = mem[a + i - 1][seed] /\ mem[a + i - 1] \in [Inputs -> 0 .. Base - 1]
      BY <1>0, <1>1, <1>2, Zenon
    <3> QED
      BY <1>0, <3>1, Zenon
  <2> QED
    BY <1>0, <1>1, <1>2, <2>1, Zenon DEF Bytewise
<1>7. Agree(table, ls, cs, ms, n, seed)
  BY <1>0, <1>1, <1>2, Zenon DEF Agree
<1>8. ValueAt(a, n) \in [Inputs -> 0 .. Base^n - 1]
  <2>1. \A x \in Inputs : Number(Digits(ms, n, x), n) \in 0 .. Base^n - 1
    <3>1. n \in 0 .. n
      OBVIOUS
    <3> QED
      BY <1>7, <3>1, DigitsRange, Zenon
  <2> QED
    BY <1>4, <2>1
<1>9. Sized(table, UnionLoad(table, ls, cs, n), n)
  BY <1>0, <1>6, LoadSized, Zenon
<1>10. ASSUME ~ OddLoad(ls, n) PROVE Plain(table, ls, n)
  <2>1. \A i \in 1 .. n : i = 1 \/ i \in 2 .. n
    OBVIOUS
  <2>2. ls[1] = 0 => \A i \in 1 .. n : ls[i] = 0
    BY <1>10, <2>1, Zenon DEF OddLoad
  <2>3. ASSUME ls[1] # 0, Shape(table, ls, n), NEW i \in 1 .. n PROVE ls[i] # 0 /\ InfoIn(table, ls[i]).op = "Read"
    <3>1. \A j \in 2 .. n : ls[j] # 0 /\ InfoIn(table, ls[j]).op = "Read"
      BY <1>10, <2>3, Zenon DEF OddLoad, is_raw, Info
    <3> QED
      BY <2>1, <2>3, <3>1, Zenon DEF Shape
  <2> QED
    BY <2>2, <2>3 DEF Plain
<1>11. ASSUME ~ OddLoad(ls, n)
       PROVE  /\ Typed(UnionLoad(table, ls, cs, n).t)
              /\ Means(UnionLoad(table, ls, cs, n).t, UnionLoad(table, ls, cs, n).l,
                       [x \in Inputs |-> Number(Digits(ms, n, x), n)], seed)
  BY <1>0, <1>6, <1>7, <1>10, <1>11, LoadRight, Zenon
<1> QED
  BY <1>4, <1>5, <1>8, <1>9, <1>11, Zenon DEF ls

(* The shadow memory after the table has grown. *)
LEMMA KeepBytes ==
  ASSUME TaintInv, ~odd, Wf(table'), Grows(table, table'), UNCHANGED <<seed, mem, shadow>>
  PROVE  BytesType' /\ BytesRight'
<1>1. /\ Wf(table) /\ Len(table.info) \in Nat /\ Len(table'.info) \in Nat
      /\ mem \in [Addrs -> [Inputs -> 0 .. Base - 1]] /\ shadow \in [Addrs -> 0 .. Len(table.info)]
      /\ \A a \in Addrs : InfoIn(table, shadow[a]).size = 1
      /\ \A a \in Addrs : Means(table, shadow[a], mem[a], seed)
  BY WfLen, Zenon DEF TaintInv, BytesType, BytesRight
<1>2. ASSUME NEW a \in Addrs
      PROVE  /\ shadow[a] \in 0 .. Len(table'.info) /\ InfoIn(table', shadow[a]).size = 1
             /\ Means(table', shadow[a], mem[a], seed)
  <2>1. shadow[a] \in 0 .. Len(table.info)
    BY <1>1, Zenon
  <2>2. shadow[a] \in 0 .. Len(table'.info) /\ InfoIn(table', shadow[a]) = InfoIn(table, shadow[a])
    BY <1>1, <2>1, KeepSize, Zenon
  <2>3. Means(table', shadow[a], mem[a], seed)
    BY <1>1, <2>1, KeepMeaning, Zenon
  <2> QED
    BY <1>1, <2>2, <2>3
<1>3. shadow' \in [Addrs -> 0 .. Len(table'.info)]
  BY <1>1, <1>2, Zenon
<1>4. BytesType'
  BY <1>1, <1>2, <1>3, Zenon DEF BytesType
<1>5. BytesRight'
  BY <1>2, Zenon DEF BytesRight
<1> QED
  BY <1>4, <1>5, Zenon

(* A load keeps the invariant. *)
LEMMA LoadInv ==
  ASSUME TaintInv, NEW a \in Addrs, NEW n \in Sizes, Load(a, n)
  PROVE  TaintInv'
<1>0. n \in 1 .. Cells /\ ~odd /\ a + n - 1 \in Addrs
  BY SizeAssumption, Zenon DEF Load, Step
<1> DEFINE u == LoadAt(a, n)
<1>1. /\ table' = u.t /\ reg' = [l |-> u.l, v |-> ValueAt(a, n), n |-> n]
      /\ odd' = OddLoad(LabelsAt(a, n), n) /\ UNCHANGED <<seed, mem, shadow>>
      /\ steps' \in 0 .. MaxSteps /\ seed' \in Inputs /\ odd' \in BOOLEAN
  <2>1. odd' = (odd \/ OddLoad(LabelsAt(a, n), n))
    BY Zenon DEF Load
  <2>2. odd' \in BOOLEAN /\ odd' = OddLoad(LabelsAt(a, n), n)
    BY <1>0, <2>1, Zenon DEF OddLoad
  <2>3. steps' \in 0 .. MaxSteps
    BY StepSteps, Zenon DEF Load
  <2> QED
    BY <2>2, <2>3 DEF Load, TaintInv
<1>2. /\ Sized(table, u, n) /\ ValueAt(a, n) \in [Inputs -> 0 .. Base^n - 1]
      /\ ~odd' => Typed(u.t) /\ Means(u.t, u.l, ValueAt(a, n), seed)
  BY <1>0, <1>1, LoadAtRight, Zenon
<1> HIDE DEF u
<1>3. /\ Wf(table') /\ Grows(table, table') /\ u.l \in 0 .. Len(table'.info)
      /\ u.l # 0 => table'.info[u.l].size = n
  BY <1>1, <1>2, Zenon DEF Sized
<1>4. reg'.l = u.l /\ reg'.v = ValueAt(a, n) /\ reg'.n = n
  BY <1>1, Zenon
<1>5. RegType'
  BY <1>0, <1>2, <1>3, <1>4, Zenon DEF RegType
<1>6. RegRight'
  BY <1>1, <1>2, <1>4, Zenon DEF RegRight
<1>7. BytesType' /\ BytesRight'
  BY <1>0, <1>1, <1>3, KeepBytes, Zenon
<1>8. ~odd' => Typed(table')
  BY <1>1, <1>2, Zenon
<1> QED
  BY <1>1, <1>3, <1>5, <1>6, <1>7, <1>8, Zenon DEF TaintInv

(* An instruction with an operand from memory keeps it. *)
LEMMA BinaryInv ==
  ASSUME TaintInv, NEW op \in Ops, NEW a \in Addrs, NEW left \in BOOLEAN, Binary(op, a, left)
  PROVE  TaintInv'
<1> DEFINE n == reg.n
           t == LoadAt(a, n).t
           o == [l |-> LoadAt(a, n).l, v |-> ValueAt(a, n)]
           p == IF left THEN reg ELSE o
           q == IF left THEN o ELSE reg
           u == Union(t, p.l, q.l, op, n, p.v[seed], q.v[seed])
<1>0. n \in 1 .. Cells /\ ~odd /\ a + n - 1 \in Addrs /\ Wf(table) /\ seed \in Inputs
  BY Zenon DEF Binary, Step, TaintInv, RegType
<1>1. /\ table' = u.t /\ reg' = [l |-> u.l, v |-> Result(op, p.v, q.v, n), n |-> n]
      /\ odd' = (odd \/ OddLoad(LabelsAt(a, n), n)) /\ UNCHANGED <<seed, mem, shadow>>
  BY Zenon DEF Binary
<1>2. odd' \in BOOLEAN /\ odd' = OddLoad(LabelsAt(a, n), n)
  BY <1>0, <1>1, Zenon DEF OddLoad
<1>3. steps' \in 0 .. MaxSteps
  BY StepSteps, Zenon DEF Binary
<1>v. o.l = LoadAt(a, n).l /\ o.v = ValueAt(a, n)
  BY Zenon
<1>p. p = IF left THEN reg ELSE o
  BY Zenon
<1>q. q = IF left THEN o ELSE reg
  BY Zenon
<1> HIDE DEF u, p, q, o
<1>4. /\ Sized(table, LoadAt(a, n), n) /\ ValueAt(a, n) \in [Inputs -> 0 .. Base^n - 1]
      /\ ~odd' => Typed(t) /\ Means(t, LoadAt(a, n).l, ValueAt(a, n), seed)
  BY <1>0, <1>2, LoadAtRight
<1>5. Wf(t) /\ Grows(table, t) /\ LoadAt(a, n).l \in 0 .. Len(t.info)
  BY <1>4, Zenon DEF Sized
<1> Len(table.info) \in Nat /\ Len(t.info) \in Nat
  BY <1>0, <1>5, WfLen, Zenon
<1> HIDE DEF t
<1>6. reg.l \in 0 .. Len(table.info) /\ reg.v \in [Inputs -> 0 .. Base^n - 1] /\ Means(table, reg.l, reg.v, seed)
  BY <1>0, Zenon DEF TaintInv, RegType, RegRight
<1>7. reg.l \in 0 .. Len(t.info) /\ Means(t, reg.l, reg.v, seed)
  <2>1. reg.l \in 0 .. Len(t.info)
    BY <1>5, <1>6, KeepSize, Zenon
  <2>2. Means(t, reg.l, reg.v, seed)
    BY <1>5, <1>6, KeepMeaning, Zenon
  <2> QED
    BY <2>1, <2>2, Zenon
<1>8. /\ p.l \in 0 .. Len(t.info) /\ q.l \in 0 .. Len(t.info)
      /\ p.v \in [Inputs -> 0 .. Base^n - 1] /\ q.v \in [Inputs -> 0 .. Base^n - 1]
      /\ ~odd' => Means(t, p.l, p.v, seed) /\ Means(t, q.l, q.v, seed)
  <2>1. /\ o.l \in 0 .. Len(t.info) /\ o.v \in [Inputs -> 0 .. Base^n - 1]
        /\ ~odd' => Means(t, o.l, o.v, seed)
    BY <1>4, <1>5, <1>v, Zenon
  <2>2. CASE left
    BY <1>6, <1>7, <1>p, <1>q, <2>1, <2>2, Zenon
  <2>3. CASE ~ left
    BY <1>6, <1>7, <1>p, <1>q, <2>1, <2>3, Zenon
  <2> QED
    BY <2>2, <2>3, Zenon
<1> HIDE DEF n
<1>9. Sized(t, u, n) /\ (~odd' => Typed(u.t) /\ Means(u.t, u.l, Result(op, p.v, q.v, n), seed))
  BY <1>0, <1>4, <1>5, <1>8, BinaryRight, Zenon DEF u
<1>10. Result(op, p.v, q.v, n) \in [Inputs -> 0 .. Base^n - 1]
  BY <1>0, <1>8, ResultRange, Zenon
<1>11. /\ Wf(table') /\ Grows(t, table') /\ u.l \in 0 .. Len(table'.info)
       /\ u.l # 0 => table'.info[u.l].size = n
  BY <1>1, <1>9, Zenon DEF Sized
<1>12. Grows(table, table')
  <2>1. Len(table'.info) \in Nat
    BY <1>11, WfLen, Zenon
  <2> QED
    BY <1>5, <1>11, <2>1, GrowsTwice, Zenon
<1>13. reg'.l = u.l /\ reg'.v = Result(op, p.v, q.v, n) /\ reg'.n = n
  BY <1>1, Zenon
<1>14. RegType'
  BY <1>0, <1>10, <1>11, <1>13, Zenon DEF RegType
<1>15. RegRight'
  BY <1>1, <1>9, <1>13, Zenon DEF RegRight
<1>16. BytesType' /\ BytesRight'
  BY <1>0, <1>1, <1>11, <1>12, KeepBytes, Zenon
<1>17. (~odd' => Typed(table')) /\ seed' \in Inputs
  BY <1>0, <1>1, <1>9
<1> QED
  BY <1>2, <1>3, <1>11, <1>14, <1>15, <1>16, <1>17, Zenon DEF TaintInv

-----------------------------------------------------------------------------
(* The instructions that write memory, and the theorems. *)

(* One byte of memory and its label are written. *)
LEMMA WriteByte ==
  ASSUME TaintInv, ~odd, NEW a \in Addrs, NEW l \in 0 .. Len(table.info), InfoIn(table, l).size = 1,
         NEW v, v \in [Inputs -> 0 .. Base - 1], Means(table, l, v, seed),
         mem' = [mem EXCEPT ![a] = v], shadow' = [shadow EXCEPT ![a] = l],
         steps' \in 0 .. MaxSteps, UNCHANGED <<seed, table, reg, odd>>
  PROVE  TaintInv'
<1>1. /\ mem \in [Addrs -> [Inputs -> 0 .. Base - 1]] /\ shadow \in [Addrs -> 0 .. Len(table.info)]
      /\ \A b \in Addrs : InfoIn(table, shadow[b]).size = 1
      /\ \A b \in Addrs : Means(table, shadow[b], mem[b], seed)
  BY Zenon DEF TaintInv, BytesType, BytesRight
<1>2. /\ mem' \in [Addrs -> [Inputs -> 0 .. Base - 1]] /\ shadow' \in [Addrs -> 0 .. Len(table.info)]
      /\ \A b \in Addrs : \/ b = a /\ mem'[b] = v /\ shadow'[b] = l
                          \/ mem'[b] = mem[b] /\ shadow'[b] = shadow[b]
  BY <1>1, Zenon
<1>3. \A b \in Addrs : InfoIn(table, shadow'[b]).size = 1 /\ Means(table, shadow'[b], mem'[b], seed)
  BY <1>1, <1>2, Zenon
<1>4. BytesType'
  BY <1>2, <1>3, Zenon DEF BytesType
<1>5. BytesRight'
  BY <1>3, Zenon DEF BytesRight
<1>6. RegType' /\ RegRight'
  BY Zenon DEF TaintInv, RegType, RegRight
<1>7. seed' \in Inputs /\ odd' \in BOOLEAN /\ Wf(table') /\ (~odd' => Typed(table'))
  BY Zenon DEF TaintInv
<1> QED
  BY <1>4, <1>5, <1>6, <1>7, Zenon DEF TaintInv

(* The wrapper of read keeps it. *)
LEMMA ReadInv ==
  ASSUME TaintInv, NEW a \in Addrs, NEW off \in Offs, Read(a, off)
  PROVE  TaintInv'
<1> DEFINE v == [x \in Inputs |-> x[off]]
           l == off + 1
<1>1. Wf(table) /\ seed \in Inputs /\ Len(table.info) \in Nat /\ Len(table.info) >= N /\ N \in Nat
  BY WfLen, Zenon DEF TaintInv
<1>2. l \in 1 .. N /\ l \in 1 .. Len(table.info) /\ l \in 0 .. Len(table.info) /\ l # 0 /\ l - 1 = off
  BY <1>1 DEF Offs
<1>3. mem' = [mem EXCEPT ![a] = v] /\ shadow' = [shadow EXCEPT ![a] = l] /\ UNCHANGED <<seed, table, reg, odd>> /\ ~odd
  BY Zenon DEF Read, Step
<1> HIDE DEF l
<1>4. table.info[l] = Raw(off)
  BY <1>1, <1>2, Zenon DEF Wf
<1>5. table.info[l].op = "Read" /\ table.info[l].size = 1
  BY <1>4 DEF Raw
<1>6. \A x \in Inputs : table.val[l][x] = x[off]
  BY <1>1, <1>2, <1>5, RawLabel, Zenon
<1>7. InfoIn(table, l).size = 1
  BY <1>2, <1>5, Zenon DEF InfoIn
<1>8. Means(table, l, v, seed)
  BY <1>2, <1>6 DEF Means
<1>9. v \in [Inputs -> 0 .. Base - 1]
  BY Zenon DEF Inputs
<1>10. steps' \in 0 .. MaxSteps
  BY StepSteps, Zenon DEF Read
<1> HIDE DEF v
<1> QED
  BY <1>2, <1>3, <1>7, <1>8, <1>9, <1>10, WriteByte, Zenon

(* A store of a constant keeps it. *)
LEMMA StoreConstInv ==
  ASSUME TaintInv, NEW a \in Addrs, NEW c \in Consts, StoreConst(a, c)
  PROVE  TaintInv'
<1>1. Wf(table) /\ seed \in Inputs /\ Len(table.info) \in Nat /\ c \in 0 .. Base - 1
  BY WfLen, SizeAssumption, Zenon DEF TaintInv
<1>2. Const(c) \in [Inputs -> 0 .. Base - 1]
  BY <1>1, Zenon DEF Const
<1>3. Means(table, 0, Const(c), seed)
  BY <1>1, Zenon DEF Means, Const
<1>4. InfoIn(table, 0).size = 1 /\ 0 \in 0 .. Len(table.info)
  BY <1>1 DEF InfoIn, ConstInfo, Raw
<1>5. mem' = [mem EXCEPT ![a] = Const(c)] /\ shadow' = [shadow EXCEPT ![a] = 0] /\ UNCHANGED <<seed, table, reg, odd>> /\ ~odd
  BY Zenon DEF StoreConst, Step
<1>6. steps' \in 0 .. MaxSteps
  BY StepSteps, Zenon DEF StoreConst
<1> QED
  BY <1>2, <1>3, <1>4, <1>5, <1>6, WriteByte, Zenon

(* What a store of the register leaves. *)
LEMMA StoreLabels ==
  ASSUME TaintInv, NEW a \in Addrs, Store(a)
  PROVE  /\ StoredAs(table, UnionStore(table, reg.l, reg.n), reg.v, reg.n, seed)
         /\ LoadsBack(UnionStore(table, reg.l, reg.n), reg.l, reg.n)
<1>1. Wf(table) /\ Typed(table) /\ seed \in Inputs /\ Means(table, reg.l, reg.v, seed)
  BY Zenon DEF Store, Step, TaintInv, RegRight
<1>2. /\ reg.n \in 1 .. Cells /\ reg.v \in [Inputs -> 0 .. Base^reg.n - 1]
      /\ reg.l \in 0 .. Len(table.info) /\ (reg.l # 0 => table.info[reg.l].size = reg.n)
  BY Zenon DEF TaintInv, RegType
<1> QED
  BY <1>1, <1>2, StoreRight, Zenon

(* A store of the register keeps it. *)
LEMMA StoreInv ==
  ASSUME TaintInv, NEW a \in Addrs, Store(a)
  PROVE  TaintInv'
<1> DEFINE n == reg.n
           u == UnionStore(table, reg.l, n)
<1>0. /\ ~odd /\ n \in 1 .. Cells /\ reg.v \in [Inputs -> 0 .. Base^n - 1]
      /\ a + n - 1 \in Addrs /\ seed \in Inputs
  BY Zenon DEF Store, Step, TaintInv, RegType
<1>1. /\ table' = u.t
      /\ shadow' = [b \in Addrs |-> IF b \in a .. a + n - 1 THEN u.ls[b - a + 1] ELSE shadow[b]]
      /\ mem' = [b \in Addrs |-> IF b \in a .. a + n - 1 THEN [x \in Inputs |-> (reg.v[x] \div Base^(b - a)) % Base] ELSE mem[b]]
      /\ UNCHANGED <<seed, reg, odd>>
  BY Zenon DEF Store
<1>2. steps' \in 0 .. MaxSteps
  BY StepSteps, Zenon DEF Store
<1>3. StoredAs(table, u, reg.v, n, seed)
  BY StoreLabels, Zenon
<1> HIDE DEF u, n
<1>4. Wf(table') /\ Typed(table') /\ Grows(table, table')
  BY <1>1, <1>3, Zenon DEF StoredAs
<1>5. /\ Wf(table) /\ Len(table.info) \in Nat /\ Len(table'.info) \in Nat
      /\ mem \in [Addrs -> [Inputs -> 0 .. Base - 1]] /\ shadow \in [Addrs -> 0 .. Len(table.info)]
      /\ \A b \in Addrs : InfoIn(table, shadow[b]).size = 1
      /\ \A b \in Addrs : Means(table, shadow[b], mem[b], seed)
  BY <1>0, <1>4, WfLen, Zenon DEF TaintInv, BytesType, BytesRight
<1>6. ASSUME NEW b \in Addrs
      PROVE  /\ shadow'[b] \in 0 .. Len(table'.info) /\ InfoIn(table', shadow'[b]).size = 1
             /\ mem'[b] \in [Inputs -> 0 .. Base - 1] /\ Means(table', shadow'[b], mem'[b], seed)
  <2>1. CASE b \in a .. a + n - 1
    <3> DEFINE i == b - a + 1
    <3>1. i \in 1 .. n /\ i - 1 = b - a
      BY <1>0, <2>1, SizeAssumption DEF Addrs
    <3>2. shadow'[b] = u.ls[i]
      BY <1>1, <2>1, Zenon
    <3>3. mem'[b] = Digit(reg.v, i)
      BY <1>1, <2>1, <3>1, Zenon DEF Digit
    <3> HIDE DEF i
    <3>4. u.ls[i] \in 0 .. Len(u.t.info) /\ InfoIn(u.t, u.ls[i]).size = 1 /\ Means(u.t, u.ls[i], Digit(reg.v, i), seed)
      BY <1>3, <3>1, Zenon DEF StoredAs
    <3>5. Digit(reg.v, i) \in [Inputs -> 0 .. Base - 1]
      BY <1>0, <3>1, DigitRange, Zenon
    <3> QED
      BY <1>1, <3>2, <3>3, <3>4, <3>5, Zenon
  <2>2. CASE b \notin a .. a + n - 1
    <3>1. shadow'[b] = shadow[b] /\ mem'[b] = mem[b] /\ shadow[b] \in 0 .. Len(table.info) /\ mem[b] \in [Inputs -> 0 .. Base - 1]
      BY <1>1, <1>5, <2>2, Zenon
    <3>2. shadow[b] \in 0 .. Len(table'.info) /\ InfoIn(table', shadow[b]) = InfoIn(table, shadow[b])
      BY <1>4, <1>5, <3>1, KeepSize, Zenon
    <3>3. Means(table', shadow[b], mem[b], seed)
      BY <1>4, <1>5, <3>1, KeepMeaning, Zenon
    <3> QED
      BY <1>5, <3>1, <3>2, <3>3, Zenon
  <2> QED
    BY <2>1, <2>2, Zenon
<1>7. mem' \in [Addrs -> [Inputs -> 0 .. Base - 1]] /\ shadow' \in [Addrs -> 0 .. Len(table'.info)]
  <2>1. mem' = [b \in Addrs |-> mem'[b]] /\ shadow' = [b \in Addrs |-> shadow'[b]]
    BY <1>1, Zenon
  <2> QED
    BY <1>6, <2>1, Zenon
<1>8. BytesType'
  BY <1>6, <1>7, Zenon DEF BytesType
<1>9. BytesRight'
  BY <1>1, <1>6, Zenon DEF BytesRight
<1>10. reg.l \in 0 .. Len(table.info) /\ (reg.l # 0 => table.info[reg.l].size = n) /\ Means(table, reg.l, reg.v, seed)
  BY <1>0, Zenon DEF TaintInv, RegType, RegRight, n
<1>11. reg.l \in 0 .. Len(table'.info) /\ InfoIn(table', reg.l) = InfoIn(table, reg.l) /\ Means(table', reg.l, reg.v, seed)
  BY <1>4, <1>5, <1>10, KeepSize, KeepMeaning, Zenon
<1>12. RegType'
  BY <1>0, <1>1, <1>10, <1>11, Zenon DEF RegType, InfoIn, n
<1>13. RegRight'
  BY <1>1, <1>11, Zenon DEF RegRight
<1>14. seed' \in Inputs /\ odd' \in BOOLEAN
  BY <1>1, Zenon DEF TaintInv
<1> QED
  BY <1>2, <1>4, <1>8, <1>9, <1>12, <1>13, <1>14, Zenon DEF TaintInv

(* Every step keeps it. *)
LEMMA NextInv == TaintInv /\ [Next]_vars => TaintInv'
<1> SUFFICES ASSUME TaintInv, [Next]_vars PROVE TaintInv'
  BY Zenon
<1>1. ASSUME NEW a \in Addrs, NEW off \in Offs, Read(a, off) PROVE TaintInv'
  BY <1>1, ReadInv
<1>2. ASSUME NEW a \in Addrs, NEW c \in Consts, StoreConst(a, c) PROVE TaintInv'
  BY <1>2, StoreConstInv
<1>3. ASSUME NEW a \in Addrs, NEW n \in Sizes, Load(a, n) PROVE TaintInv'
  BY <1>3, LoadInv, Zenon
<1>4. ASSUME NEW op \in Ops, NEW a \in Addrs, NEW left \in BOOLEAN, Binary(op, a, left) PROVE TaintInv'
  BY <1>4, BinaryInv, Zenon
<1>5. ASSUME NEW a \in Addrs, Store(a) PROVE TaintInv'
  BY <1>5, StoreInv, Zenon
<1>6. CASE UNCHANGED vars
  BY <1>6, Zenon DEF vars, TaintInv, RegType, BytesType, RegRight, BytesRight
<1> QED
  BY <1>1, <1>2, <1>3, <1>4, <1>5, <1>6, Zenon DEF Next

(* The inductive invariant holds throughout: the table of __taint_union    *)
(* stays well formed, and labels in the register and in shadow memory      *)
(* stand for values.                                                       *)
THEOREM TaintInvariance == Spec => []TaintInv
BY InitInv, NextInv, PTL DEF Spec

(* The types hold throughout; in particular __taint_union_store leaves     *)
(* labels of the size of a byte in shadow memory, and a register's label   *)
(* has its size.                                                           *)
THEOREM TypeCorrect == Spec => []TypeOK
BY TaintInvariance, InvTypeOK, PTL

(* __taint_union gives equal expressions the same label, commuted ones     *)
(* included, however loads, stores and instructions interleave.            *)
THEOREM InternedHolds == Spec => []Interned
BY TaintInvariance, InvInterned, PTL

(* Labels are right on every input: what serialize makes of the label that *)
(* __taint_union, __taint_union_load and __taint_union_store keep for a    *)
(* value is that value, up to the first load that loses track.             *)
THEOREM LabelsRightHolds == Spec => []LabelsRight
BY TaintInvariance, InvLabels, PTL

(* A load right after a store. *)
LEMMA StoreLoadsBack ==
  ASSUME TaintInv, NEW a \in Addrs, Store(a)
  PROVE  LoadAt(a, reg.n)' = [t |-> table', l |-> reg.l]
<1> DEFINE n == reg.n
           u == UnionStore(table, reg.l, n)
           ls == [i \in 1 .. n |-> shadow'[a + i - 1]]
           cs == [i \in 1 .. n |-> mem'[a + i - 1][seed']]
<1>0. n \in 1 .. Cells /\ a + n - 1 \in Addrs
  BY Zenon DEF Store, TaintInv, RegType
<1>1. /\ table' = u.t /\ reg' = reg
      /\ shadow' = [b \in Addrs |-> IF b \in a .. a + n - 1 THEN u.ls[b - a + 1] ELSE shadow[b]]
  BY Zenon DEF Store
<1>2. LoadAt(a, reg.n)' = UnionLoad(u.t, ls, cs, n)
  BY <1>1, Zenon DEF LoadAt, LabelsAt
<1>3. LoadsBack(u, reg.l, n)
  BY StoreLabels, Zenon
<1> HIDE DEF u, n
<1>4. ASSUME NEW i \in 1 .. n PROVE ls[i] = u.ls[i]
  <2> DEFINE b == a + i - 1
  <2>1. b \in Addrs /\ b \in a .. a + n - 1 /\ b - a + 1 = i
    BY <1>0, SizeAssumption DEF Addrs
  <2>2. ls[i] = shadow'[b]
    BY Zenon
  <2> HIDE DEF b
  <2>3. shadow'[b] = u.ls[b - a + 1]
    BY <1>1, <2>1
  <2> QED
    BY <2>1, <2>2, <2>3, Zenon
<1> HIDE DEF ls, cs
<1> QED
  BY <1>1, <1>2, <1>3, <1>4, Zenon DEF LoadsBack

(* __taint_union_load after __taint_union_store returns the label that was *)
(* stored and leaves the table as it is.                                   *)
THEOREM RoundTripHolds == Spec => RoundTrip
<1>1. TaintInv /\ [Next]_vars =>
        [\A a \in Addrs : Store(a) => LoadAt(a, reg.n)' = [t |-> table', l |-> reg.l]]_vars
  BY StoreLoadsBack, Zenon
<1> QED
  BY <1>1, TaintInvariance, PTL DEF Spec, RoundTrip
=============================================================================
