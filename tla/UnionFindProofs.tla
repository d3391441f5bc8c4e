-------------------------- MODULE UnionFindProofs ---------------------------
(***************************************************************************)
(* Proofs about UnionFind, for any size and any sequence of calls: the     *)
(* types, the rank order, that find tells the joined sets apart, that      *)
(* get_set returns exactly the set, and that force flattens the forest.    *)
(*                                                                         *)
(* The invariant has three parts.  Forest: parents stay within the set,    *)
(* ranks grow along them, a set has one root r, and it has at least        *)
(* 2^rank(r) elements, which is why ranks do not saturate.  Ring: links is *)
(* injective, stays within the set, and no smaller set is closed under it. *)
(* OpInv: what the loops have established so far.                          *)
(***************************************************************************)
EXTENDS UnionFind, FiniteSetTheorems, TLAPS

(* More time than the provers take by default. *)
USE SMTT(30), ZenonT(30)

Types(n, el, rk, cl) ==
  /\ n \in Nat /\ Size <= n /\ n <= Size + MaxAlloc
  /\ el \in [0 .. n - 1 -> 0 .. n - 1]
  /\ rk \in [0 .. n - 1 -> 0 .. MaxRank]
  /\ cl \in [0 .. n - 1 -> SUBSET (0 .. n - 1)]

Classes(n, cl) ==
  /\ \A e \in 0 .. n - 1 : e \in cl[e]
  /\ \A e, f \in 0 .. n - 1 : f \in cl[e] => cl[f] = cl[e]
  /\ \A e \in 0 .. Size - 1 : cl[e] \subseteq 0 .. Size - 1

Forest(n, el, rk, cl) ==
  /\ \A e \in 0 .. n - 1 : el[e] \in cl[e]
  /\ \A e \in 0 .. n - 1 : el[e] # e => rk[e] < rk[el[e]]
  /\ \A e, f \in 0 .. n - 1 : el[e] = e /\ el[f] = f /\ f \in cl[e] => e = f
  /\ \A e \in 0 .. n - 1 : el[e] = e => 2^rk[e] <= Cardinality(cl[e])

Closed(ln, S) == \A e \in S : ln[e] \in S
Ring(ln, cl) ==
  /\ \A e \in 0 .. Size - 1 : ln[e] \in cl[e]
  /\ \A e, f \in 0 .. Size - 1 : ln[e] = ln[f] => e = f
  /\ \A e \in 0 .. Size - 1 : \A S \in SUBSET cl[e] : S # {} /\ Closed(ln, S) => S = cl[e]

FindInv(n, el, rk, cl, o) ==
  /\ o.at \in {"find_a", "find_b"} =>
       /\ o.x \in 0 .. n - 1 /\ o.y \in 0 .. n - 1
       /\ o.element \in 0 .. n - 1 /\ o.parent = el[o.element]
  /\ o.at = "find_a" => /\ o.element \in cl[o.x]
                        /\ o.element = o.x \/ rk[o.x] < rk[o.element]
                        /\ o.name \in {"find", "equiv", "union", "force"}
  /\ o.at = "find_b" => o.element \in cl[o.y] /\ o.name \in {"equiv", "union"}
  /\ o.at = "join" => o.name = "union"
  /\ (o.at \in {"find_b", "join"} \/ (o.name = "equiv" /\ o.at = "done")) =>
       o.x \in 0 .. n - 1 /\ o.a \in 0 .. n - 1 /\ el[o.a] = o.a /\ o.a \in cl[o.x]
  /\ (o.at = "join" \/ (o.name = "equiv" /\ o.at = "done")) =>
       o.y \in 0 .. n - 1 /\ o.b \in 0 .. n - 1 /\ el[o.b] = o.b /\ o.b \in cl[o.y]

ForceInv(n, el, o) ==
  /\ o.name = "force" /\ o.at = "find_a" => \A e \in 0 .. o.x - 1 : el[el[e]] = el[e]
  /\ o.name = "force" /\ o.at = "done" => \A e \in 0 .. n - 1 : el[el[e]] = el[e]

WalkInv(ln, cl, o) ==
  /\ o.at = "walk" =>
       /\ o.name = "get_set" /\ o.x \in 0 .. Size - 1
       /\ Len(o.ret) # 0 /\ o.ret[1] = o.x /\ o.ret[Len(o.ret)] = o.element
       /\ \A i \in 1 .. Len(o.ret) : o.ret[i] \in cl[o.x]
       /\ \A i \in 1 .. Len(o.ret) - 1 : ln[o.ret[i]] = o.ret[i + 1]
       /\ \A i, j \in 1 .. Len(o.ret) : o.ret[i] = o.ret[j] => i = j
  /\ o.name = "get_set" /\ o.at = "done" =>
       /\ o.x \in 0 .. Size - 1
       /\ {o.ret[i] : i \in 1 .. Len(o.ret)} = cl[o.x]
       /\ \A i, j \in 1 .. Len(o.ret) : o.ret[i] = o.ret[j] => i = j

Shape(n) ==
  /\ Types(n, elements, ranks, cls)
  /\ Classes(n, cls)
  /\ Forest(n, elements, ranks, cls)

IInv ==
  /\ \E n \in Nat : Shape(n) /\ FindInv(n, elements, ranks, cls, op) /\ ForceInv(n, elements, op)
  /\ links \in [0 .. Size - 1 -> 0 .. Size - 1]
  /\ Ring(links, cls)
  /\ WalkInv(links, cls, op)
  /\ op \in OpRec

-----------------------------------------------------------------------------
(* What the operations do to the forest and to the rings. *)

LEMMA SameRoots ==
  ASSUME NEW n \in Nat, NEW el, NEW rk, NEW cl, Types(n, el, rk, cl), Forest(n, el, rk, cl),
         NEW e \in 0 .. n - 1, el[e] # e
  PROVE  el[el[e]] # e
<1>1. el[e] \in 0 .. n - 1
  BY DEF Types
<1>2. rk[e] < rk[el[e]]
  BY DEF Forest
<1>3. el[el[e]] # el[e] => rk[el[e]] < rk[el[el[e]]]
  BY <1>1 DEF Forest
<1>4. rk[e] \in Int /\ rk[el[e]] \in Int
  BY <1>1, SizeAssumption DEF Types
<1> QED
  BY <1>2, <1>3, <1>4

HangAt(el, e, r) == [el EXCEPT ![e] = r]
HalveAt(el, e) == HangAt(el, e, el[el[e]])

LEMMA Halve ==
  ASSUME NEW n \in Nat, NEW el, NEW rk, NEW cl, Types(n, el, rk, cl), Classes(n, cl), Forest(n, el, rk, cl),
         NEW e \in 0 .. n - 1, el[e] # e
  PROVE  /\ Types(n, HalveAt(el, e), rk, cl) /\ Forest(n, HalveAt(el, e), rk, cl)
         /\ \A f \in 0 .. n - 1 : HalveAt(el, e)[f] = f <=> el[f] = f
         /\ \A f \in 0 .. n - 1 : el[el[f]] = el[f] => HalveAt(el, e)[HalveAt(el, e)[f]] = HalveAt(el, e)[f]
<1> DEFINE el2 == HalveAt(el, e)
<1>1. /\ el \in [0 .. n - 1 -> 0 .. n - 1]
      /\ el[e] \in 0 .. n - 1 /\ el[el[e]] \in 0 .. n - 1
  BY Zenon DEF Types
<1>2. /\ el2 \in [0 .. n - 1 -> 0 .. n - 1]
      /\ el2[e] = el[el[e]]
      /\ \A f \in 0 .. n - 1 : f # e => el2[f] = el[f]
  BY <1>1 DEF HalveAt, HangAt
<1> HIDE DEF el2
<1>3. el[el[e]] # e
  BY SameRoots
<1>4. \A f \in 0 .. n - 1 : el2[f] = f <=> el[f] = f
  BY <1>2, <1>3, Zenon
<1>5. \A f \in 0 .. n - 1 : el2[f] \in cl[f]
  <2>1. el[e] \in cl[e] /\ el[el[e]] \in cl[el[e]]
    BY <1>1 DEF Forest
  <2>2. cl[el[e]] = cl[e]
    BY <1>1, <2>1 DEF Classes
  <2> QED
    BY <1>2, <2>1, <2>2, Zenon DEF Forest
<1>6. \A f \in 0 .. n - 1 : el2[f] # f => rk[f] < rk[el2[f]]
  <2>1. rk[e] < rk[el[e]] /\ (el[el[e]] # el[e] => rk[el[e]] < rk[el[el[e]]])
    BY <1>1 DEF Forest
  <2>2. rk[e] \in Int /\ rk[el[e]] \in Int /\ rk[el[el[e]]] \in Int
    BY <1>1, SizeAssumption DEF Types
  <2>3. rk[e] < rk[el[el[e]]]
    BY <2>1, <2>2
  <2> QED
    BY <1>2, <2>3, Zenon DEF Forest
<1>7. \A f \in 0 .. n - 1 : el[el[f]] = el[f] => el2[el2[f]] = el2[f]
  <2> SUFFICES ASSUME NEW f \in 0 .. n - 1, el[el[f]] = el[f] PROVE el2[el2[f]] = el2[f]
    OBVIOUS
  <2>1. el[f] \in 0 .. n - 1
    BY <1>1
  <2>2. el2[f] = el[f]
    BY <1>2, Zenon
  <2> QED
    BY <2>1, <2>2, <1>4
<1>8. Types(n, el2, rk, cl)
  BY <1>2, Zenon DEF Types
<1>9. Forest(n, el2, rk, cl)
  BY <1>4, <1>5, <1>6 DEF Forest
<1> QED
  BY <1>4, <1>7, <1>8, <1>9 DEF el2

(* force hangs e below a root of its set that ranks higher. *)
LEMMA Rehang ==
  ASSUME NEW n \in Nat, NEW el, NEW rk, NEW cl, Types(n, el, rk, cl), Classes(n, cl), Forest(n, el, rk, cl),
         NEW e \in 0 .. n - 1, NEW r \in 0 .. n - 1, el[r] = r, r \in cl[e], r = e \/ rk[e] < rk[r]
  PROVE  /\ Types(n, HangAt(el, e, r), rk, cl) /\ Forest(n, HangAt(el, e, r), rk, cl)
         /\ HangAt(el, e, r)[HangAt(el, e, r)[e]] = HangAt(el, e, r)[e]
         /\ \A f \in 0 .. n - 1 : el[el[f]] = el[f] => HangAt(el, e, r)[HangAt(el, e, r)[f]] = HangAt(el, e, r)[f]
<1> DEFINE el2 == HangAt(el, e, r)
<1>1. el \in [0 .. n - 1 -> 0 .. n - 1]
  BY Zenon DEF Types
<1>2. /\ el2 \in [0 .. n - 1 -> 0 .. n - 1]
      /\ el2[e] = r
      /\ \A f \in 0 .. n - 1 : f # e => el2[f] = el[f]
  BY <1>1 DEF HangAt
<1> HIDE DEF el2
<1>3. el[e] = e => e = r
  BY DEF Forest
<1>4. \A f \in 0 .. n - 1 : el2[f] = f <=> el[f] = f
  BY <1>2, <1>3, Zenon
<1>5. \A f \in 0 .. n - 1 : el2[f] \in cl[f]
  BY <1>2, Zenon DEF Forest
<1>6. \A f \in 0 .. n - 1 : el2[f] # f => rk[f] < rk[el2[f]]
  BY <1>2, Zenon DEF Forest
<1>7. \A f \in 0 .. n - 1 : el[el[f]] = el[f] => el2[el2[f]] = el2[f]
  BY <1>1, <1>2, <1>4, Zenon
<1>8. Types(n, el2, rk, cl)
  BY <1>2, Zenon DEF Types
<1>9. Forest(n, el2, rk, cl)
  BY <1>4, <1>5, <1>6 DEF Forest
<1> QED
  BY <1>2, <1>4, <1>7, <1>8, <1>9, Zenon DEF el2

(* Two different sets become one; the others stay. *)
Merged(n, cl, a, b) == [e \in 0 .. n - 1 |-> IF e \in cl[a] \cup cl[b] THEN cl[a] \cup cl[b] ELSE cl[e]]

LEMMA MergeClasses ==
  ASSUME NEW n \in Nat, NEW cl, cl \in [0 .. n - 1 -> SUBSET (0 .. n - 1)], Classes(n, cl), Size <= n,
         NEW a \in 0 .. Size - 1, NEW b \in 0 .. Size - 1,
         NEW cl2, cl2 = Merged(n, cl, a, b)
  PROVE  cl2 \in [0 .. n - 1 -> SUBSET (0 .. n - 1)] /\ Classes(n, cl2)
<1>1. a \in 0 .. n - 1 /\ b \in 0 .. n - 1
  BY SizeAssumption
<1>2. cl2 \in [0 .. n - 1 -> SUBSET (0 .. n - 1)]
  BY <1>1 DEF Merged
<1>3. \A e \in 0 .. n - 1 : cl2[e] = IF e \in cl[a] \cup cl[b] THEN cl[a] \cup cl[b] ELSE cl[e]
  BY DEF Merged
<1>4. \A e \in 0 .. n - 1 : e \in cl2[e]
  BY <1>3, Zenon DEF Classes
<1>5. ASSUME NEW e \in 0 .. n - 1, NEW f \in 0 .. n - 1, f \in cl2[e] PROVE cl2[f] = cl2[e]
  <2>1. CASE e \in cl[a] \cup cl[b]
    BY <2>1, <1>3, <1>5, Zenon
  <2>2. CASE e \notin cl[a] \cup cl[b]
    <3>1. f \in cl[e] /\ cl[f] = cl[e]
      BY <2>2, <1>3, <1>5 DEF Classes
    <3>2. f \notin cl[a] \cup cl[b]
      BY <3>1, <2>2, <1>1 DEF Classes
    <3> QED
      BY <3>1, <3>2, <2>2, <1>3
  <2> QED
    BY <2>1, <2>2
<1>6. \A e \in 0 .. Size - 1 : cl2[e] \subseteq 0 .. Size - 1
  BY <1>3, SizeAssumption DEF Classes
<1> QED
  BY <1>2, <1>4, <1>5, <1>6 DEF Classes

LEMMA FiniteClass ==
  ASSUME NEW n \in Nat, NEW S, S \subseteq 0 .. n - 1
  PROVE  IsFiniteSet(S) /\ Cardinality(S) \in Nat /\ Cardinality(S) <= n
<1>1. IsFiniteSet(0 .. n - 1) /\ Cardinality(0 .. n - 1) = n
  BY FS_Interval
<1> QED
  BY <1>1, FS_Subset, FS_CardinalityType, ZenonT(30)

(* The rank of a root grows only when its set has doubled. *)
LEMMA RankGrows ==
  ASSUME NEW A, NEW B, A \subseteq 0 .. Size - 1, B \subseteq 0 .. Size - 1, A \cap B = {},
         NEW r \in 0 .. MaxRank, 2^r <= Cardinality(A), 2^r <= Cardinality(B)
  PROVE  /\ r < MaxRank /\ SaturatingAdd(r) = r + 1
         /\ 2^(r + 1) <= Cardinality(A \cup B)
<1>1. /\ IsFiniteSet(A) /\ Cardinality(A) \in Nat /\ Cardinality(A) <= Size
      /\ IsFiniteSet(B) /\ Cardinality(B) \in Nat
  BY FiniteClass, SizeAssumption, Zenon
<1>2. Cardinality(A \cup B) = Cardinality(A) + Cardinality(B)
  <2>1. Cardinality(A \cap B) = 0
    BY FS_EmptySet, Zenon
  <2> QED
    BY <1>1, <2>1, FS_Union
<1>3. 2^r \in Int /\ 2^MaxRank \in Int
  BY SizeAssumption
<1>4. r # MaxRank
  BY <1>1, <1>3, RankAssumption, SizeAssumption
<1>5. r < MaxRank /\ r \in 0 .. MaxRank - 1
  BY <1>4, SizeAssumption
<1>6. 2^(r + 1) = 2^r + 2^r
  BY <1>5, PowAssumption
<1>7. 2^(r + 1) <= Cardinality(A \cup B)
  BY <1>1, <1>2, <1>3, <1>6
<1> QED
  BY <1>5, <1>7 DEF SaturatingAdd

LEMMA LessLeq == \A p, q, r \in Int : p < q /\ q <= r => p < r
  OBVIOUS

Raised(n, rk, rk2, lo, hi) ==
  /\ rk2 \in [0 .. n - 1 -> 0 .. MaxRank]
  /\ \A e \in 0 .. n - 1 : e # hi => rk2[e] = rk[e]
  /\ rk[hi] <= rk2[hi] /\ rk[lo] < rk2[hi]
IsMerged(n, cl, lo, hi, cl2) ==
  \A e \in 0 .. n - 1 : cl2[e] = IF e \in cl[lo] \cup cl[hi] THEN cl[lo] \cup cl[hi] ELSE cl[e]

(* union hangs the root lo below the root hi of another set. *)
LEMMA HangBelow ==
  ASSUME NEW n \in Nat, NEW el, NEW rk, NEW cl, Types(n, el, rk, cl), Classes(n, cl), Forest(n, el, rk, cl),
         NEW lo \in 0 .. n - 1, NEW hi \in 0 .. n - 1, el[lo] = lo, el[hi] = hi, lo # hi,
         NEW rk2, Raised(n, rk, rk2, lo, hi), 2^rk2[hi] <= Cardinality(cl[lo] \cup cl[hi]),
         NEW cl2, IsMerged(n, cl, lo, hi, cl2)
  PROVE  HangAt(el, lo, hi) \in [0 .. n - 1 -> 0 .. n - 1] /\ Forest(n, HangAt(el, lo, hi), rk2, cl2)
<1> DEFINE el2 == HangAt(el, lo, hi)
<1> USE DEF Raised, IsMerged
<1>1. el \in [0 .. n - 1 -> 0 .. n - 1]
  BY Zenon DEF Types
<1>2. /\ el2 \in [0 .. n - 1 -> 0 .. n - 1]
      /\ el2[lo] = hi
      /\ \A f \in 0 .. n - 1 : f # lo => el2[f] = el[f]
  BY <1>1, Zenon DEF HangAt
<1> HIDE DEF el2
<1>3. ASSUME NEW f \in 0 .. n - 1 PROVE el2[f] \in cl2[f]
  <2>1. el[f] \in cl[f]
    BY DEF Forest
  <2>2. lo \in cl[lo] /\ hi \in cl[hi]
    BY DEF Classes
  <2>3. f \in cl[lo] => cl[f] = cl[lo]
    BY DEF Classes
  <2>4. f \in cl[hi] => cl[f] = cl[hi]
    BY DEF Classes
  <2> QED
    BY <1>2, <2>1, <2>2, <2>3, <2>4, Zenon
<1>4. ASSUME NEW f \in 0 .. n - 1, el2[f] # f PROVE rk2[f] < rk2[el2[f]]
  <2>1. CASE f = lo
    BY <1>2, <2>1, Zenon
  <2>2. CASE f # lo
    <3>1. el2[f] = el[f] /\ el[f] # f /\ rk[f] < rk[el[f]] /\ f # hi /\ el[f] \in 0 .. n - 1
      BY <1>1, <1>2, <1>4, <2>2 DEF Forest
    <3>2. rk2[f] = rk[f]
      BY <3>1, Zenon
    <3>3. rk[el[f]] <= rk2[el[f]]
      <4>1. CASE el[f] = hi
        BY <4>1
      <4>2. CASE el[f] # hi
        <5>1. rk2[el[f]] = rk[el[f]]
          BY <3>1, <4>2, Zenon
        <5>2. rk[el[f]] \in Int
          BY <3>1, SizeAssumption DEF Types
        <5> QED
          BY <5>1, <5>2
      <4> QED
        BY <4>1, <4>2
    <3>4. rk[f] \in Int /\ rk[el[f]] \in Int /\ rk2[el[f]] \in Int
      BY <3>1, SizeAssumption DEF Types
    <3>5. rk[f] < rk2[el[f]]
      BY <3>1, <3>3, <3>4, LessLeq, Zenon
    <3> QED
      BY <3>1, <3>2, <3>5
  <2> QED
    BY <2>1, <2>2
<1>5. \A f \in 0 .. n - 1 : el2[f] = f => el[f] = f /\ f # lo
  BY <1>2, Zenon
<1>6. ASSUME NEW e \in 0 .. n - 1, NEW f \in 0 .. n - 1, el2[e] = e, el2[f] = f, f \in cl2[e]
      PROVE  e = f
  <2>0. el[e] = e /\ e # lo /\ el[f] = f /\ f # lo
    BY <1>5, <1>6, Zenon
  <2>1. CASE e \in cl[lo] \cup cl[hi]
    <3>1. e \notin cl[lo] /\ f \notin cl[lo]
      BY <2>0, Zenon DEF Forest
    <3>2. e \in cl[hi] /\ f \in cl[hi]
      BY <1>6, <2>1, <3>1, Zenon
    <3> QED
      BY <2>0, <3>2, Zenon DEF Forest
  <2>2. CASE e \notin cl[lo] \cup cl[hi]
    BY <1>6, <2>0, <2>2, Zenon DEF Forest
  <2> QED
    BY <2>1, <2>2
<1>7. ASSUME NEW e \in 0 .. n - 1, el2[e] = e PROVE 2^rk2[e] <= Cardinality(cl2[e])
  <2>0. el[e] = e /\ e # lo
    BY <1>5, <1>7
  <2>1. CASE e = hi
    BY <2>1, Zenon DEF Classes
  <2>2. CASE e # hi
    <3>1. e \notin cl[lo] /\ e \notin cl[hi]
      BY <2>0, <2>2, Zenon DEF Forest
    <3> QED
      BY <2>0, <2>2, <3>1, Zenon DEF Forest
  <2> QED
    BY <2>1, <2>2
<1> QED
  BY <1>2, <1>3, <1>4, <1>6, <1>7, Zenon DEF Forest, el2

(* Exchanging the links of elements of two rings makes them one ring. *)
LEMMA SwapRings ==
  ASSUME NEW n \in Nat, Size <= n, NEW cl, cl \in [0 .. n - 1 -> SUBSET (0 .. n - 1)], Classes(n, cl),
         NEW ln, ln \in [0 .. Size - 1 -> 0 .. Size - 1], Ring(ln, cl),
         NEW a \in 0 .. Size - 1, NEW b \in 0 .. Size - 1, b \notin cl[a],
         NEW ln2, ln2 = [ln EXCEPT ![b] = ln[a], ![a] = ln[b]],
         NEW cl2, cl2 = Merged(n, cl, a, b)
  PROVE  ln2 \in [0 .. Size - 1 -> 0 .. Size - 1] /\ Ring(ln2, cl2)
<1>0. 0 .. Size - 1 \subseteq 0 .. n - 1
  BY SizeAssumption
<1>1. /\ ln2 \in [0 .. Size - 1 -> 0 .. Size - 1]
      /\ ln2[a] = ln[b] /\ ln2[b] = ln[a] /\ a # b
      /\ \A e \in 0 .. Size - 1 : e # a /\ e # b => ln2[e] = ln[e]
  <2>1. a # b
    BY <1>0 DEF Classes
  <2> QED
    BY <2>1
<1>2. \A e \in 0 .. Size - 1 : cl2[e] = IF e \in cl[a] \cup cl[b] THEN cl[a] \cup cl[b] ELSE cl[e]
  BY <1>0 DEF Merged
<1>3. /\ a \in cl[a] /\ b \in cl[b] /\ ln[a] \in cl[a] /\ ln[b] \in cl[b]
      /\ cl[a] \subseteq 0 .. Size - 1 /\ cl[b] \subseteq 0 .. Size - 1
  BY <1>0, Zenon DEF Classes, Ring
<1>4. cl[a] \cap cl[b] = {}
  BY <1>0, <1>3 DEF Classes
<1>5. \A e \in 0 .. Size - 1 : /\ e \in cl[a] => cl[e] = cl[a]
                               /\ e \in cl[b] => cl[e] = cl[b]
                               /\ ln[e] \in cl[e]
  BY <1>0, Zenon DEF Classes, Ring
<1>6. \A e \in 0 .. Size - 1 : ln2[e] \in cl2[e]
  BY <1>1, <1>2, <1>3, <1>5
<1>7. \A e, f \in 0 .. Size - 1 : ln2[e] = ln2[f] => e = f
  <2>1. \A e, f \in 0 .. Size - 1 : ln[e] = ln[f] => e = f
    BY DEF Ring
  <2> QED
    BY <1>1, <2>1
<1>8. ASSUME NEW e \in 0 .. Size - 1, NEW S \in SUBSET cl2[e], S # {}, Closed(ln2, S)
      PROVE  S = cl2[e]
  <2>1. \A T \in SUBSET cl[a] : T # {} /\ Closed(ln, T) => T = cl[a]
    BY DEF Ring
  <2>2. \A T \in SUBSET cl[b] : T # {} /\ Closed(ln, T) => T = cl[b]
    BY DEF Ring
  <2>3. CASE e \in cl[a] \cup cl[b]
    <3>0. S \subseteq cl[a] \cup cl[b] /\ cl2[e] = cl[a] \cup cl[b]
      BY <2>3, <1>2, <1>8
    <3> DEFINE SA == S \cap cl[a]
               SB == S \cap cl[b]
    <3>1. ASSUME a \in S => b \in S PROVE Closed(ln, SA)
      <4> SUFFICES ASSUME NEW x \in SA PROVE ln[x] \in SA
        BY DEF Closed
      <4>1. x \in 0 .. Size - 1 /\ x # b /\ ln[x] \in cl[a]
        BY <1>3, <1>4, <1>5, Zenon
      <4>2. CASE x = a
        <5>1. b \in S /\ ln2[b] \in S
          BY <3>1, <4>2, <1>8 DEF Closed
        <5> QED
          BY <5>1, <4>1, <4>2, <1>1
      <4>3. CASE x # a
        <5>1. ln2[x] \in S /\ ln2[x] = ln[x]
          BY <4>1, <4>3, <1>1, <1>8, Zenon DEF Closed
        <5> QED
          BY <5>1, <4>1
      <4> QED
        BY <4>2, <4>3
    <3>2. ASSUME b \in S => a \in S PROVE Closed(ln, SB)
      <4> SUFFICES ASSUME NEW x \in SB PROVE ln[x] \in SB
        BY DEF Closed
      <4>1. x \in 0 .. Size - 1 /\ x # a /\ ln[x] \in cl[b]
        BY <1>3, <1>4, <1>5
      <4>2. CASE x = b
        <5>1. a \in S /\ ln2[a] \in S
          BY <3>2, <4>2, <1>8 DEF Closed
        <5> QED
          BY <5>1, <4>1, <4>2, <1>1
      <4>3. CASE x # b
        <5>1. ln2[x] \in S /\ ln2[x] = ln[x]
          BY <4>1, <4>3, <1>1, <1>8 DEF Closed
        <5> QED
          BY <5>1, <4>1
      <4> QED
        BY <4>2, <4>3
    <3>3. ASSUME a \notin S PROVE FALSE
      <4>1. SA = {}
        BY <3>1, <3>3, <2>1, <1>3, Zenon
      <4>2. b \in S
        BY <4>1, <3>0, <3>2, <2>2, <1>3, <1>8, Zenon
      <4>3. ln2[b] \in S /\ ln2[b] \in cl[a]
        BY <4>2, <1>1, <1>3, <1>8 DEF Closed
      <4> QED
        BY <4>1, <4>3
    <3>4. ASSUME b \notin S PROVE FALSE
      <4>1. SB = {}
        BY <3>2, <3>4, <2>2, <1>3, Zenon
      <4>2. a \in S
        BY <3>3
      <4>3. ln2[a] \in S /\ ln2[a] \in cl[b]
        BY <4>2, <1>1, <1>3, <1>8, Zenon DEF Closed
      <4> QED
        BY <4>1, <4>3
    <3>5. SA = cl[a]
      BY <3>1, <3>3, <3>4, <2>1, <1>3, Zenon
    <3>6. SB = cl[b]
      BY <3>2, <3>3, <3>4, <2>2, <1>3, Zenon
    <3> QED
      BY <3>0, <3>5, <3>6, Zenon
  <2>4. CASE e \notin cl[a] \cup cl[b]
    <3>1. cl2[e] = cl[e] /\ cl[e] \subseteq 0 .. Size - 1
      BY <2>4, <1>0, <1>2 DEF Classes
    <3>2. a \notin cl[e] /\ b \notin cl[e]
      BY <2>4, <1>0, <1>3, Zenon DEF Classes
    <3>3. ASSUME NEW x \in S PROVE ln[x] \in S
      <4>1. x \in 0 .. Size - 1 /\ x # a /\ x # b
        BY <3>1, <3>2
      <4>2. ln2[x] = ln[x]
        BY <4>1, <1>1
      <4> QED
        BY <4>2, <1>8, Zenon DEF Closed
    <3>4. Closed(ln, S)
      BY <3>3 DEF Closed
    <3> QED
      BY <3>1, <3>4, <1>8, Zenon DEF Ring
  <2> QED
    BY <2>3, <2>4
<1> QED
  BY <1>1, <1>6, <1>7, <1>8, Zenon DEF Ring

-----------------------------------------------------------------------------
(* Every step keeps the invariant. *)

LEMMA InitInv == Init => IInv
<1> SUFFICES ASSUME Init PROVE IInv
  OBVIOUS
<1>0. Size \in Nat /\ MaxRank \in Nat /\ MaxAlloc \in Nat
  BY SizeAssumption
<1>1. Types(Size, elements, ranks, cls) /\ Classes(Size, cls)
  BY <1>0 DEF Init, Types, Classes
<1>2. Forest(Size, elements, ranks, cls)
  <2>1. \A e \in 0 .. Size - 1 : 2^ranks[e] <= Cardinality(cls[e])
    <3> SUFFICES ASSUME NEW e \in 0 .. Size - 1 PROVE 2^ranks[e] <= Cardinality(cls[e])
      OBVIOUS
    <3>1. ranks[e] = 0 /\ cls[e] = {e}
      BY DEF Init
    <3>2. Cardinality({e}) = 1
      BY FS_Singleton
    <3>3. 2^0 = 1
      BY PowAssumption
    <3> QED
      BY <3>1, <3>2, <3>3
  <2> QED
    BY <2>1 DEF Init, Forest
<1>3. Ring(links, cls) /\ links \in [0 .. Size - 1 -> 0 .. Size - 1]
  BY Zenon DEF Init, Ring
<1>4. /\ FindInv(Size, elements, ranks, cls, op) /\ ForceInv(Size, elements, op)
      /\ WalkInv(links, cls, op) /\ op \in OpRec
  BY DEF Init, NoOp, FindInv, ForceInv, WalkInv, OpRec, Ops
<1> QED
  BY <1>0, <1>1, <1>2, <1>3, <1>4 DEF IInv, Shape

LEMMA AllocInv == ASSUME IInv, Alloc PROVE IInv'
<1> PICK n \in Nat : Shape(n) /\ FindInv(n, elements, ranks, cls, op) /\ ForceInv(n, elements, op)
  BY DEF IInv
<1>0. Size \in Nat /\ MaxRank \in Nat /\ MaxAlloc \in Nat
  BY SizeAssumption
<1>1. Len_ = n
  BY FS_Interval DEF Shape, Types, Len_, Elem
<1>2. /\ op.at = "done" /\ n < Size + MaxAlloc
      /\ elements' = [e \in 0 .. n |-> IF e = n THEN e ELSE elements[e]]
      /\ ranks' = [e \in 0 .. n |-> IF e = n THEN 0 ELSE ranks[e]]
      /\ cls' = [e \in 0 .. n |-> IF e = n THEN {e} ELSE cls[e]]
      /\ links' = links /\ op' = op
  BY <1>1 DEF Alloc
<1>3. /\ Size <= n /\ (n + 1) - 1 = n /\ n + 1 \in Nat
      /\ \A e \in 0 .. n : e # n => e \in 0 .. n - 1
      /\ \A e \in 0 .. n - 1 : e \in 0 .. n /\ e # n
      /\ \A e \in 0 .. Size - 1 : e \in 0 .. n - 1
  BY <1>0 DEF Shape, Types
<1>4. /\ elements'[n] = n /\ ranks'[n] = 0 /\ cls'[n] = {n}
      /\ \A e \in 0 .. n - 1 : elements'[e] = elements[e] /\ ranks'[e] = ranks[e] /\ cls'[e] = cls[e]
      /\ \A e \in 0 .. n - 1 : elements[e] \in 0 .. n - 1 /\ cls[e] \subseteq 0 .. n - 1 /\ ranks[e] \in 0 .. MaxRank
  BY <1>2, <1>3 DEF Shape, Types
<1>5. Types(n + 1, elements', ranks', cls')
  BY <1>0, <1>2, <1>3, <1>4 DEF Types
<1>6. Classes(n + 1, cls')
  <2>1. \A e \in 0 .. n : e \in cls'[e]
    BY <1>3, <1>4 DEF Shape, Classes
  <2>2. \A e, f \in 0 .. n : f \in cls'[e] => cls'[f] = cls'[e]
    BY <1>3, <1>4 DEF Shape, Classes
  <2>3. \A e \in 0 .. Size - 1 : cls'[e] \subseteq 0 .. Size - 1
    BY <1>3, <1>4, Zenon DEF Shape, Classes
  <2> QED
    BY <1>3, <2>1, <2>2, <2>3, Zenon DEF Classes
<1>7. Forest(n + 1, elements', ranks', cls')
  <2>1. \A e \in 0 .. n : elements'[e] \in cls'[e]
    BY <1>3, <1>4 DEF Shape, Forest
  <2>2. \A e \in 0 .. n : elements'[e] # e => ranks'[e] < ranks'[elements'[e]]
    BY <1>3, <1>4 DEF Shape, Forest
  <2>3. \A e, f \in 0 .. n : elements'[e] = e /\ elements'[f] = f /\ f \in cls'[e] => e = f
    BY <1>3, <1>4 DEF Shape, Forest
  <2>4. 2^ranks'[n] <= Cardinality(cls'[n])
    <3>1. Cardinality({n}) = 1
      BY FS_Singleton
    <3>2. 2^0 = 1
      BY PowAssumption
    <3> QED
      BY <1>4, <3>1, <3>2
  <2>5. \A e \in 0 .. n : elements'[e] = e => 2^ranks'[e] <= Cardinality(cls'[e])
    BY <1>3, <1>4, <2>4, Zenon DEF Shape, Forest
  <2> QED
    BY <1>3, <2>1, <2>2, <2>3, <2>5, Zenon DEF Forest
<1>8. Ring(links', cls')
  BY <1>2, <1>3, <1>4, Zenon DEF IInv, Ring
<1>9. FindInv(n + 1, elements', ranks', cls', op')
  BY <1>2, <1>3, <1>4, Zenon DEF FindInv
<1>10. ForceInv(n + 1, elements', op')
  BY <1>2, <1>3, <1>4, Zenon DEF ForceInv
<1>11. WalkInv(links', cls', op')
  BY <1>2, <1>3, <1>4 DEF IInv, WalkInv
<1> QED
  BY <1>2, <1>3, <1>5, <1>6, <1>7, <1>8, <1>9, <1>10, <1>11, Zenon DEF IInv, Shape

(* Steps that only change op. *)
LEMMA OpOnly ==
  ASSUME IInv, UNCHANGED <<elements, links, ranks, cls>>, op' \in OpRec,
         WalkInv(links, cls, op'),
         \A n \in Nat : Shape(n) /\ FindInv(n, elements, ranks, cls, op) /\ ForceInv(n, elements, op)
                          => FindInv(n, elements, ranks, cls, op') /\ ForceInv(n, elements, op')
  PROVE  IInv'
<1> PICK n \in Nat : Shape(n) /\ FindInv(n, elements, ranks, cls, op) /\ ForceInv(n, elements, op)
  BY DEF IInv
<1>1. /\ elements' = elements /\ links' = links /\ ranks' = ranks /\ cls' = cls
  OBVIOUS
<1>2. FindInv(n, elements', ranks', cls', op') /\ ForceInv(n, elements', op') /\ WalkInv(links', cls', op')
  BY <1>1
<1>3. Shape(n)' /\ Ring(links', cls') /\ links' \in [0 .. Size - 1 -> 0 .. Size - 1]
  BY <1>1 DEF IInv, Shape
<1> QED
  BY <1>2, <1>3 DEF IInv

LEMMA CallInv ==
  ASSUME IInv, NEW x \in Elem, NEW y \in Elem, NEW name \in {"find", "equiv", "union", "force"}, Call(name, x, y),
         name = "force" => x = 0
  PROVE  IInv'
<1> DEFINE o == op'
<1>1. o = [name |-> name, at |-> "find_a", x |-> x, y |-> y, a |-> 0, b |-> 0,
           element |-> x, parent |-> elements[x], ret |-> <<>>]
  BY Zenon DEF Call, Find, NoOp
<1>2. ASSUME NEW n \in Nat, Shape(n)
      PROVE  /\ FindInv(n, elements, ranks, cls, o) /\ ForceInv(n, elements, o)
             /\ x \in Nat /\ y \in Nat /\ elements[x] \in Nat
  <2>1. x \in 0 .. n - 1 /\ y \in 0 .. n - 1 /\ x \in cls[x] /\ elements[x] \in 0 .. n - 1
    BY <1>2 DEF Shape, Types, Classes, Elem
  <2> QED
    BY <1>1, <2>1 DEF FindInv, ForceInv
<1>3. o \in OpRec /\ WalkInv(links, cls, o)
  <2>1. x \in Nat /\ y \in Nat /\ elements[x] \in Nat
    BY <1>2 DEF IInv
  <2> QED
    BY <1>1, <2>1 DEF OpRec, Ops, WalkInv
<1> QED
  BY <1>2, <1>3, OpOnly DEF Call

LEMMA FindDoneInv == ASSUME IInv, FindDone PROVE IInv'
<1>1. op \in OpRec
  BY DEF IInv
<1> DEFINE r == op.element
<1>2. ASSUME NEW n \in Nat, Shape(n), FindInv(n, elements, ranks, cls, op)
      PROVE  /\ FindInv(n, elements, ranks, cls, op') /\ ForceInv(n, elements, op')
             /\ op' \in OpRec /\ op'.at # "walk" /\ op'.name # "get_set"
  <2>1. /\ op.x \in 0 .. n - 1 /\ op.y \in 0 .. n - 1 /\ r \in 0 .. n - 1 /\ elements[r] = r
    BY <1>2 DEF FindDone, FindInv
  <2>2. op.y \in cls[op.y] /\ elements[op.y] \in 0 .. n - 1
    BY <1>2, <2>1, Zenon DEF Shape, Classes, Types
  <2>3. CASE op.at = "find_b"
    <3>1. op.name \in {"equiv", "union"} /\ r \in cls[op.y] /\ op.at \in {"find_b"}
          /\ op.a \in 0 .. n - 1 /\ elements[op.a] = op.a /\ op.a \in cls[op.x]
      BY <1>2, <2>3 DEF FindInv
    <3>2. op' = [op EXCEPT !.b = r, !.at = IF op.name = "union" THEN "join" ELSE "done"]
      BY <2>3 DEF FindDone
    <3>3. /\ op'.b = r /\ op'.a = op.a /\ op'.x = op.x /\ op'.y = op.y /\ op'.name = op.name
          /\ op'.at = IF op.name = "union" THEN "join" ELSE "done"
          /\ op' \in OpRec
      BY <1>1, <3>2, Zenon DEF OpRec
    <3> QED
      BY <2>1, <3>1, <3>3 DEF FindInv, ForceInv
  <2>4. CASE op.at # "find_b" /\ op.name = "find"
    <3>1. op' = [op EXCEPT !.a = r, !.at = "done"]
      BY <2>4 DEF FindDone
    <3>2. op'.at = "done" /\ op'.name = "find" /\ op' \in OpRec
      BY <1>1, <2>4, <3>1, Zenon DEF OpRec
    <3> QED
      BY <3>2 DEF FindInv, ForceInv
  <2>5. CASE op.at # "find_b" /\ op.name # "find"
    <3>1. op.at = "find_a" /\ op.name \in {"equiv", "union"} /\ r \in cls[op.x]
      BY <1>2, <2>5 DEF FindDone, FindInv
    <3> DEFINE m == [op EXCEPT !.a = r]
    <3>a. m \in OpRec /\ m.a = r /\ m.x = op.x /\ m.y = op.y /\ m.name = op.name
      BY <1>1, <2>1, Zenon DEF OpRec
    <3>2. op' = [m EXCEPT !.at = "find_b", !.element = op.y, !.parent = elements[op.y]]
      BY <2>5 DEF FindDone, Find
    <3>b. op.y \in Nat /\ elements[op.y] \in Nat
      BY <2>1, <2>2
    <3> HIDE DEF m
    <3>3. /\ op'.at = "find_b" /\ op'.name = op.name /\ op'.a = r /\ op'.x = op.x /\ op'.y = op.y
          /\ op'.element = op.y /\ op'.parent = elements[op.y]
          /\ op' \in OpRec
      BY <3>a, <3>b, <3>2, Zenon DEF OpRec
    <3> QED
      BY <2>1, <2>2, <3>1, <3>3 DEF FindInv, ForceInv
  <2> QED
    BY <2>3, <2>4, <2>5
<1>3. op' \in OpRec /\ WalkInv(links, cls, op')
  BY <1>2 DEF IInv, WalkInv
<1> QED
  BY <1>2, <1>3, OpOnly DEF FindDone

LEMMA FindStepInv == ASSUME IInv, FindStep PROVE IInv'
<1> PICK n \in Nat : Shape(n) /\ FindInv(n, elements, ranks, cls, op) /\ ForceInv(n, elements, op)
  BY DEF IInv
<1> DEFINE e == op.element
           p == op.parent
<1>0. op \in OpRec
  BY DEF IInv
<1>1. /\ op.at \in {"find_a", "find_b"} /\ e \in 0 .. n - 1 /\ p = elements[e] /\ elements[e] # e
      /\ p \in 0 .. n - 1 /\ elements[p] \in 0 .. n - 1
      /\ op.x \in 0 .. n - 1 /\ op.y \in 0 .. n - 1
  BY Zenon DEF FindStep, FindInv, Shape, Types
<1>2. /\ elements' = [elements EXCEPT ![e] = elements[elements[e]]]
      /\ links' = links /\ ranks' = ranks /\ cls' = cls
  BY <1>1 DEF FindStep
<1>b. op' = [op EXCEPT !.element = p, !.parent = elements[p]]
  BY DEF FindStep
<1>c. p \in Nat /\ elements[p] \in Nat
  BY <1>1
<1>d. Types(n, elements, ranks, cls) /\ Classes(n, cls) /\ Forest(n, elements, ranks, cls)
  BY DEF Shape
<1> HIDE DEF e, p
<1>3. /\ op' \in OpRec /\ op'.element = p /\ op'.parent = elements[p]
      /\ op'.at = op.at /\ op'.name = op.name /\ op'.x = op.x /\ op'.y = op.y /\ op'.a = op.a
  BY <1>0, <1>b, <1>c, Zenon DEF OpRec
<1>4. /\ Types(n, elements', ranks, cls) /\ Forest(n, elements', ranks, cls)
      /\ \A f \in 0 .. n - 1 : elements'[f] = f <=> elements[f] = f
      /\ \A f \in 0 .. n - 1 : elements[elements[f]] = elements[f] => elements'[elements'[f]] = elements'[f]
  <2>1. elements' = HalveAt(elements, e)
    BY <1>2 DEF HalveAt, HangAt
  <2> QED
    BY <1>1, <1>d, <2>1, Halve
<1>5. Shape(n)'
  BY <1>2, <1>4 DEF Shape
<1>6. elements'[p] = elements[p]
  BY <1>1, <1>2, Zenon DEF Shape, Types
<1>7. p \in cls[e] /\ cls[p] = cls[e] /\ ranks[e] < ranks[p]
  BY <1>1 DEF Shape, Forest, Classes
<1>8. op.at = "find_a" => p \in cls[op.x] /\ ranks[op.x] < ranks[p]
  <2> SUFFICES ASSUME op.at = "find_a" PROVE p \in cls[op.x] /\ ranks[op.x] < ranks[p]
    OBVIOUS
  <2>1. e \in cls[op.x] /\ (e = op.x \/ ranks[op.x] < ranks[e])
    BY DEF FindInv, e
  <2>2. cls[e] = cls[op.x]
    BY <1>1, <2>1 DEF Shape, Classes
  <2>a. ranks \in [0 .. n - 1 -> 0 .. MaxRank] /\ MaxRank \in Nat
    BY SizeAssumption DEF Shape, Types
  <2>3. ranks[e] \in Int /\ ranks[p] \in Int /\ ranks[op.x] \in Int
    BY <1>1, <2>a
  <2> QED
    BY <1>7, <2>1, <2>2, <2>3
<1>9. op.at = "find_b" => p \in cls[op.y]
  BY <1>1, <1>7, Zenon DEF FindInv, Shape, Classes, e
<1>10. FindInv(n, elements', ranks', cls', op')
  <2>1. op.at = "find_a" => op.name \in {"find", "equiv", "union", "force"}
    BY DEF FindInv
  <2>2. op.at = "find_b" => op.name \in {"equiv", "union"} /\ op.a \in 0 .. n - 1 /\ elements[op.a] = op.a /\ op.a \in cls[op.x]
    BY DEF FindInv
  <2>3. op.at = "find_b" => elements'[op.a] = op.a
    BY <1>4, <2>2, Zenon
  <2> QED
    BY <1>1, <1>2, <1>3, <1>6, <1>8, <1>9, <2>1, <2>2, <2>3, Zenon DEF FindInv
<1>11. ForceInv(n, elements', op')
  BY <1>1, <1>3, <1>4 DEF ForceInv
<1>12. WalkInv(links', cls', op')
  BY <1>1, <1>3 DEF WalkInv
<1> QED
  BY <1>2, <1>3, <1>5, <1>10, <1>11, <1>12, Zenon DEF IInv

LEMMA ForceStepInv == ASSUME IInv, ForceStep PROVE IInv'
<1> PICK n \in Nat : Shape(n) /\ FindInv(n, elements, ranks, cls, op) /\ ForceInv(n, elements, op)
  BY DEF IInv
<1> DEFINE r == op.element
           x == op.x
<1>0. op \in OpRec /\ Len_ = n
  BY FS_Interval DEF IInv, Shape, Types, Len_, Elem
<1>1. /\ op.at = "find_a" /\ op.name = "force" /\ x \in 0 .. n - 1 /\ r \in 0 .. n - 1 /\ elements[r] = r
      /\ r \in cls[x] /\ (r = x \/ ranks[x] < ranks[r]) /\ op.y \in 0 .. n - 1
      /\ \A e \in 0 .. x - 1 : elements[elements[e]] = elements[e]
  BY DEF ForceStep, FindInv, ForceInv
<1>2. /\ elements' = [elements EXCEPT ![x] = r]
      /\ links' = links /\ ranks' = ranks /\ cls' = cls
  BY <1>1, Zenon DEF ForceStep
<1>3. /\ Types(n, elements', ranks, cls) /\ Forest(n, elements', ranks, cls)
      /\ elements'[elements'[x]] = elements'[x]
      /\ \A f \in 0 .. n - 1 : elements[elements[f]] = elements[f] => elements'[elements'[f]] = elements'[f]
  <2>1. Types(n, elements, ranks, cls) /\ Classes(n, cls) /\ Forest(n, elements, ranks, cls)
    BY DEF Shape
  <2>2. elements' = HangAt(elements, x, r)
    BY <1>2 DEF HangAt
  <2> HIDE DEF r, x
  <2> QED
    BY <1>1, <2>1, <2>2, Rehang
<1>4. Shape(n)'
  BY <1>2, <1>3, Zenon DEF Shape
<1>5. \A e \in 0 .. x : elements'[elements'[e]] = elements'[e]
  BY <1>1, <1>3
<1>6. CASE x + 1 = n
  <2>1. op' = [op EXCEPT !.at = "done"]
    BY <1>0, <1>6 DEF ForceStep
  <2>2. op' \in OpRec /\ op'.at = "done" /\ op'.name = "force"
    BY <1>0, <1>1, <2>1, Zenon DEF OpRec
  <2>a. \A e \in 0 .. n - 1 : e \in 0 .. x
    BY <1>1, <1>6
  <2>3. ForceInv(n, elements', op')
    BY <1>5, <2>a, <2>2, Zenon DEF ForceInv
  <2>4. FindInv(n, elements', ranks', cls', op') /\ WalkInv(links', cls', op')
    BY <2>2 DEF FindInv, WalkInv
  <2> QED
    BY <1>2, <1>4, <2>2, <2>3, <2>4, Zenon DEF IInv
<1>7. CASE x + 1 # n
  <2>0. x + 1 \in 0 .. n - 1
    BY <1>1, <1>7
  <2>1. op' = [op EXCEPT !.x = x + 1, !.element = x + 1, !.parent = elements'[x + 1]]
    BY <1>0, <1>7, Zenon DEF ForceStep
  <2>a. elements'[x + 1] \in Nat /\ x + 1 \in Nat /\ x + 1 \in cls[x + 1]
    BY <1>3, <1>4, <2>0 DEF Types, Shape, Classes
  <2>2. /\ op' \in OpRec /\ op'.at = "find_a" /\ op'.name = "force" /\ op'.x = x + 1
        /\ op'.element = x + 1 /\ op'.parent = elements'[x + 1] /\ op'.y = op.y
    BY <1>0, <1>1, <2>1, <2>a, Zenon DEF OpRec
  <2>3. ForceInv(n, elements', op')
    BY <1>1, <1>5, <2>2 DEF ForceInv
  <2>4. FindInv(n, elements', ranks', cls', op') /\ WalkInv(links', cls', op')
    BY <1>1, <1>2, <2>0, <2>a, <2>2, Zenon DEF FindInv, WalkInv
  <2> QED
    BY <1>2, <1>4, <2>2, <2>3, <2>4, Zenon DEF IInv
<1> QED
  BY <1>6, <1>7

LEMMA UnionEndInv == ASSUME IInv, UnionSame \/ UnionPanic PROVE IInv'
<1>1. op \in OpRec /\ (op' = [op EXCEPT !.at = "done"] \/ op' = [op EXCEPT !.at = "panic"])
  BY DEF IInv, UnionSame, UnionPanic
<1>2. op' \in OpRec /\ op'.at \in {"done", "panic"} /\ op'.name = op.name
  BY <1>1, Zenon DEF OpRec
<1>3. ASSUME NEW n \in Nat, FindInv(n, elements, ranks, cls, op)
      PROVE  op.name = "union" /\ FindInv(n, elements, ranks, cls, op') /\ ForceInv(n, elements, op')
  <2>1. op.name = "union"
    BY <1>3, Zenon DEF FindInv, UnionSame, UnionPanic
  <2> QED
    BY <1>2, <2>1 DEF FindInv, ForceInv
<1>4. WalkInv(links, cls, op')
  BY <1>2, <1>3, Zenon DEF IInv, WalkInv
<1> QED
  BY <1>2, <1>3, <1>4, OpOnly DEF UnionSame, UnionPanic

LEMMA UnionJoinInv == ASSUME IInv, UnionJoin PROVE IInv'
<1> PICK n \in Nat : Shape(n) /\ FindInv(n, elements, ranks, cls, op) /\ ForceInv(n, elements, op)
  BY DEF IInv
<1> DEFINE a == op.a
           b == op.b
<1>0. op \in OpRec /\ links \in [0 .. Size - 1 -> 0 .. Size - 1] /\ Ring(links, cls)
      /\ Size \in Nat /\ MaxRank \in Nat /\ Size <= n
  BY SizeAssumption DEF IInv, Shape, Types
<1>1. /\ op.at = "join" /\ op.name = "union" /\ a # b
      /\ a \in 0 .. Size - 1 /\ b \in 0 .. Size - 1
      /\ a \in 0 .. n - 1 /\ b \in 0 .. n - 1
      /\ elements[a] = a /\ elements[b] = b
  BY <1>0 DEF UnionJoin, FindInv
<1>2. /\ links' = [links EXCEPT ![b] = links[a], ![a] = links[b]]
      /\ elements' = Hung(a, b)
      /\ ranks' = IF ranks[a] = ranks[b] THEN [ranks EXCEPT ![b] = SaturatingAdd(ranks[b])] ELSE ranks
      /\ cls' = Merged(n, cls, a, b)
      /\ op' = [op EXCEPT !.at = "done"]
  BY DEF UnionJoin, Swapped, Merge, Merged, Elem, Shape, Types
<1>3. /\ elements \in [0 .. n - 1 -> 0 .. n - 1] /\ ranks \in [0 .. n - 1 -> 0 .. MaxRank]
      /\ cls \in [0 .. n - 1 -> SUBSET (0 .. n - 1)] /\ Classes(n, cls)
  BY DEF Shape, Types
<1>4. b \notin cls[a] /\ cls[a] \cap cls[b] = {}
  <2>1. b \notin cls[a]
    BY <1>1, Zenon DEF Shape, Forest
  <2>2. ASSUME NEW z \in cls[a], z \in cls[b] PROVE FALSE
    <3>1. z \in 0 .. n - 1
      BY <1>1, <1>3, Zenon
    <3>2. cls[z] = cls[a] /\ cls[z] = cls[b] /\ b \in cls[b]
      BY <1>1, <1>3, <2>2, <3>1, Zenon DEF Classes
    <3> QED
      BY <2>1, <3>2
  <2> QED
    BY <2>1, <2>2, Zenon
<1>5. cls' \in [0 .. n - 1 -> SUBSET (0 .. n - 1)] /\ Classes(n, cls')
  BY <1>0, <1>1, <1>2, <1>3, MergeClasses, Zenon
<1>6. links' \in [0 .. Size - 1 -> 0 .. Size - 1] /\ Ring(links', cls')
  BY <1>0, <1>1, <1>2, <1>3, <1>4, SwapRings, Zenon
<1>7. /\ 2^ranks[a] <= Cardinality(cls[a]) /\ 2^ranks[b] <= Cardinality(cls[b])
      /\ cls[a] \subseteq 0 .. Size - 1 /\ cls[b] \subseteq 0 .. Size - 1
      /\ ranks[a] \in 0 .. MaxRank /\ ranks[b] \in 0 .. MaxRank
  BY <1>1, <1>3, Zenon DEF Shape, Forest, Classes
<1>8. IsMerged(n, cls, a, b, cls') /\ IsMerged(n, cls, b, a, cls')
  BY <1>2, Zenon DEF Merged, IsMerged
<1>9. elements' \in [0 .. n - 1 -> 0 .. n - 1] /\ ranks' \in [0 .. n - 1 -> 0 .. MaxRank]
      /\ Forest(n, elements', ranks', cls')
  <2>0. Types(n, elements, ranks, cls) /\ Forest(n, elements, ranks, cls)
    BY Zenon DEF Shape
  <2>a. /\ 2^ranks[a] <= Cardinality(cls[a] \cup cls[b]) /\ 2^ranks[b] <= Cardinality(cls[a] \cup cls[b])
    <3>1. cls[a] \cup cls[b] \subseteq 0 .. Size - 1
      BY <1>7
    <3>2. IsFiniteSet(cls[a] \cup cls[b])
      BY <1>0, <3>1, FiniteClass, Zenon
    <3>3. Cardinality(cls[a]) <= Cardinality(cls[a] \cup cls[b]) /\ Cardinality(cls[b]) <= Cardinality(cls[a] \cup cls[b])
      BY <3>2, FS_Subset
    <3>a. Cardinality(cls[a]) \in Int
      BY <3>2, FS_Subset, FS_CardinalityType
    <3>b. Cardinality(cls[b]) \in Int
      BY <3>2, FS_Subset, FS_CardinalityType
    <3>4. Cardinality(cls[a] \cup cls[b]) \in Int
      BY <1>0, <3>1, FiniteClass
    <3>5. 2^ranks[a] \in Int /\ 2^ranks[b] \in Int
      BY <1>0, <1>7
    <3> QED
      BY <1>7, <3>3, <3>a, <3>b, <3>4, <3>5
  <2>1. CASE ranks[a] > ranks[b]
    <3>1. ranks' = ranks /\ elements' = HangAt(elements, b, a)
      BY <1>2, <1>7, <2>1 DEF Hung, HangAt
    <3>2. ranks[b] < ranks'[a] /\ ranks[a] <= ranks'[a]
      BY <1>7, <2>1, <3>1
    <3>4. ranks' \in [0 .. n - 1 -> 0 .. MaxRank] /\ \A e \in 0 .. n - 1 : e # a => ranks'[e] = ranks[e]
      BY <1>3, <3>1
    <3>3. 2^ranks'[a] <= Cardinality(cls[b] \cup cls[a])
      <4>1. cls[b] \cup cls[a] = cls[a] \cup cls[b]
        OBVIOUS
      <4> QED
        BY <2>a, <3>1, <4>1, Zenon
    <3>5. Raised(n, ranks, ranks', b, a)
      BY <3>2, <3>4 DEF Raised
    <3> HIDE DEF a, b
    <3> QED
      BY <1>1, <1>3, <1>8, <2>0, <3>1, <3>3, <3>4, <3>5, HangBelow, Zenon
  <2>2. CASE ranks[a] < ranks[b]
    <3>1. ranks' = ranks /\ elements' = HangAt(elements, a, b)
      BY <1>2, <1>7, <2>2 DEF Hung, HangAt
    <3>2. ranks[a] < ranks'[b] /\ ranks[b] <= ranks'[b]
      BY <1>7, <2>2, <3>1
    <3>3. ranks' \in [0 .. n - 1 -> 0 .. MaxRank] /\ \A e \in 0 .. n - 1 : e # b => ranks'[e] = ranks[e]
      BY <1>3, <3>1, Zenon
    <3>4. 2^ranks'[b] <= Cardinality(cls[a] \cup cls[b])
      BY <2>a, <3>1
    <3>5. Raised(n, ranks, ranks', a, b)
      BY <3>2, <3>3 DEF Raised
    <3> HIDE DEF a, b
    <3> QED
      BY <1>1, <1>3, <1>8, <2>0, <3>1, <3>3, <3>4, <3>5, HangBelow, Zenon
  <2>3. CASE ranks[a] = ranks[b]
    <3>0. /\ ranks[b] < MaxRank /\ SaturatingAdd(ranks[b]) = ranks[b] + 1
          /\ 2^(ranks[b] + 1) <= Cardinality(cls[a] \cup cls[b])
      BY <1>4, <1>7, <2>3, RankGrows, Zenon
    <3>1. elements' = HangAt(elements, a, b)
      BY <1>2, <1>7, <2>3 DEF Hung, HangAt
    <3>2. ranks' = [ranks EXCEPT ![b] = ranks[b] + 1]
      BY <1>2, <2>3, <3>0, Zenon
    <3>3. /\ ranks' \in [0 .. n - 1 -> 0 .. MaxRank] /\ ranks'[b] = ranks[b] + 1
          /\ \A e \in 0 .. n - 1 : e # b => ranks'[e] = ranks[e]
      <4>1. ranks[b] + 1 \in 0 .. MaxRank
        BY <1>0, <1>7, <3>0
      <4> HIDE DEF a, b
      <4> QED
        BY <1>1, <1>3, <3>2, <4>1, Zenon
    <3>4. ranks[b] <= ranks'[b] /\ ranks[a] < ranks'[b] /\ 2^ranks'[b] <= Cardinality(cls[a] \cup cls[b])
      BY <1>7, <2>3, <3>0, <3>3
    <3>5. Raised(n, ranks, ranks', a, b)
      BY <3>3, <3>4 DEF Raised
    <3> HIDE DEF a, b
    <3> QED
      BY <1>1, <1>3, <1>8, <2>0, <3>1, <3>3, <3>4, <3>5, HangBelow, Zenon
  <2>4. ranks[a] > ranks[b] \/ ranks[a] < ranks[b] \/ ranks[a] = ranks[b]
    <3>1. ranks[a] \in Int /\ ranks[b] \in Int
      BY <1>7
    <3> HIDE DEF a, b
    <3> QED
      BY <3>1
  <2> QED
    BY <2>1, <2>2, <2>3, <2>4, Zenon
<1>10. Types(n, elements', ranks', cls')
  BY <1>5, <1>9 DEF Shape, Types
<1>11. op' \in OpRec /\ op'.at = "done" /\ op'.name = "union"
  BY <1>0, <1>1, <1>2, Zenon DEF OpRec
<1>12. FindInv(n, elements', ranks', cls', op') /\ ForceInv(n, elements', op') /\ WalkInv(links', cls', op')
  BY <1>11 DEF FindInv, ForceInv, WalkInv
<1> QED
  BY <1>5, <1>6, <1>9, <1>10, <1>11, <1>12, Zenon DEF IInv, Shape

LEMMA GetSetInv == ASSUME IInv, NEW x \in Elem, GetSet(x) PROVE IInv'
<1>1. op' = [name |-> "get_set", at |-> IF x \in DOMAIN links THEN "walk" ELSE "panic", x |-> x, y |-> 0,
             a |-> 0, b |-> 0, element |-> x, parent |-> 0, ret |-> <<x>>]
  BY Zenon DEF GetSet, NoOp
<1>2. x \in Nat
  BY DEF IInv, Shape, Types, Elem
<1>3. op' \in OpRec
  BY <1>1, <1>2 DEF OpRec, Ops
<1>4. x \in DOMAIN links => x \in 0 .. Size - 1 /\ x \in cls[x]
  BY Zenon DEF IInv, Shape, Types, Classes, Elem
<1>5. WalkInv(links, cls, op')
  BY <1>1, <1>4 DEF WalkInv
<1>6. ASSUME NEW n \in Nat PROVE FindInv(n, elements, ranks, cls, op') /\ ForceInv(n, elements, op')
  BY <1>1, Zenon DEF FindInv, ForceInv
<1> QED
  BY <1>3, <1>5, <1>6, OpOnly DEF GetSet

LEMMA GetSetStepInv == ASSUME IInv, GetSetStep PROVE IInv'
<1> DEFINE x == op.x
           ret == op.ret
           e == op.element
           y == links[e]
<1>0. op \in OpRec /\ ret \in Seq(Nat) /\ Size \in Nat
  BY SizeAssumption DEF IInv, OpRec
<1>1. /\ op.name = "get_set" /\ op.at = "walk" /\ x \in 0 .. Size - 1
      /\ Len(ret) \in Nat /\ Len(ret) # 0 /\ ret[1] = x /\ ret[Len(ret)] = e
      /\ \A i \in 1 .. Len(ret) : ret[i] \in cls[x]
      /\ \A i \in 1 .. Len(ret) - 1 : links[ret[i]] = ret[i + 1]
      /\ \A i, j \in 1 .. Len(ret) : ret[i] = ret[j] => i = j
  BY <1>0 DEF GetSetStep, IInv, WalkInv
<1>2. /\ cls[x] \subseteq 0 .. Size - 1
      /\ \A f \in cls[x] : cls[f] = cls[x]
      /\ \A f \in 0 .. Size - 1 : links[f] \in cls[f]
      /\ \A f, g \in 0 .. Size - 1 : links[f] = links[g] => f = g
      /\ \A S \in SUBSET cls[x] : S # {} /\ Closed(links, S) => S = cls[x]
  <2> PICK n \in Nat : Shape(n)
    BY DEF IInv
  <2>1. 0 .. Size - 1 \subseteq 0 .. n - 1
    BY <1>0 DEF Shape, Types
  <2>2. cls[x] \subseteq 0 .. Size - 1
    BY <1>1 DEF Shape, Classes
  <2>3. \A f \in cls[x] : cls[f] = cls[x]
    BY <1>1, <2>1, <2>2 DEF Shape, Classes
  <2> QED
    BY <1>1, <2>2, <2>3, Zenon DEF IInv, Ring
<1>3. e \in cls[x] /\ y \in cls[x] /\ y \in Nat
  <2>1. Len(ret) \in 1 .. Len(ret)
    BY <1>1
  <2>2. e \in cls[x]
    BY <1>1, <2>1, Zenon
  <2>3. e \in 0 .. Size - 1 /\ cls[e] = cls[x]
    BY <1>2, <2>2
  <2>4. y \in cls[x]
    BY <1>2, <2>3, Zenon
  <2> QED
    BY <1>0, <1>2, <2>2, <2>4
<1>4. ASSUME NEW n \in Nat, op'.name = "get_set", op'.at \in {"done", "walk"}
      PROVE FindInv(n, elements, ranks, cls, op') /\ ForceInv(n, elements, op')
  BY <1>4 DEF FindInv, ForceInv
<1>5. CASE y = x
  <2>1. op' = [op EXCEPT !.at = "done"]
    BY <1>5 DEF GetSetStep
  <2>2. op' \in OpRec /\ op'.at = "done" /\ op'.name = "get_set" /\ op'.x = x /\ op'.ret = ret
    BY <1>0, <1>1, <2>1, Zenon DEF OpRec
  <2> DEFINE V == {ret[i] : i \in 1 .. Len(ret)}
  <2>3. V \subseteq cls[x] /\ x \in V
    BY <1>1
  <2>4. ASSUME NEW i \in 1 .. Len(ret) PROVE links[ret[i]] \in V
    <3>1. CASE i = Len(ret)
      BY <1>1, <1>5, <2>3, <3>1, Zenon
    <3>2. CASE i # Len(ret)
      <4>1. i \in 1 .. Len(ret) - 1 /\ i + 1 \in 1 .. Len(ret)
        BY <1>1, <3>2
      <4> QED
        BY <1>1, <4>1
    <3> QED
      BY <3>1, <3>2, Zenon
  <2>5. Closed(links, V)
    BY <2>4 DEF Closed
  <2>6. V = cls[x]
    BY <1>2, <2>3, <2>5, Zenon
  <2>7. WalkInv(links, cls, op')
    BY <1>1, <2>2, <2>6 DEF WalkInv
  <2> QED
    BY <1>4, <2>2, <2>7, OpOnly DEF GetSetStep
<1>6. CASE y # x
  <2>1. op' = [op EXCEPT !.element = y, !.ret = Append(ret, y)]
    BY <1>6 DEF GetSetStep
  <2> DEFINE ret2 == Append(ret, y)
             m == Len(ret)
  <2>2. /\ ret2 \in Seq(Nat) /\ Len(ret2) = m + 1 /\ ret2[m + 1] = y
        /\ \A i \in 1 .. m : ret2[i] = ret[i]
    BY <1>0, <1>3
  <2>3. /\ op' \in OpRec /\ op'.at = "walk" /\ op'.name = "get_set" /\ op'.x = x
        /\ op'.element = y /\ op'.ret = ret2
    <3> HIDE DEF ret2, y
    <3> QED
      BY <1>0, <1>1, <1>3, <2>1, <2>2, Zenon DEF OpRec, ret2
  <2>4. ASSUME NEW j \in 1 .. m PROVE ret[j] # y
    <3>1. CASE j = 1
      BY <3>1, <1>1, <1>6, Zenon
    <3>2. CASE j # 1
      <4>1. j - 1 \in 1 .. m - 1 /\ j - 1 \in 1 .. m /\ (j - 1) + 1 = j /\ j - 1 # m /\ m \in 1 .. m
        BY <3>2, <1>1
      <4>2. links[ret[j - 1]] = ret[j]
        BY <4>1, <1>1, Zenon
      <4>a. ret[j - 1] \in cls[x] /\ ret[j - 1] # ret[m]
        BY <4>1, <1>1, Zenon
      <4>3. ret[j - 1] \in 0 .. Size - 1 /\ e \in 0 .. Size - 1 /\ ret[j - 1] # e
        BY <4>a, <1>1, <1>2, <1>3, Zenon
      <4> QED
        BY <4>2, <4>3, <1>2
    <3> QED
      BY <3>1, <3>2
  <2>5. \A i \in 1 .. m + 1 : i # m + 1 => i \in 1 .. m
    BY <1>1
  <2>6. \A i, j \in 1 .. m + 1 : ret2[i] = ret2[j] => i = j
    <3> HIDE DEF ret2, y
    <3> QED
      BY <2>2, <2>4, <2>5, <1>1, Zenon
  <2>7. \A i \in 1 .. m + 1 : ret2[i] \in cls[x]
    BY <2>2, <2>5, <1>1, <1>3, Zenon
  <2>8. \A i \in 1 .. m : links[ret2[i]] = ret2[i + 1]
    <3> SUFFICES ASSUME NEW i \in 1 .. m PROVE links[ret2[i]] = ret2[i + 1]
      OBVIOUS
    <3>1. CASE i = m
      <4>1. ret2[i] = e
        BY <2>2, <3>1, <1>1, Zenon
      <4> QED
        BY <2>2, <3>1, <4>1
    <3>2. CASE i # m
      <4>1. i \in 1 .. m - 1 /\ i + 1 \in 1 .. m
        BY <3>2, <1>1
      <4> QED
        BY <2>2, <4>1, <1>1
    <3> QED
      BY <3>1, <3>2
  <2>9. WalkInv(links, cls, op')
    <3>1. m + 1 # 0 /\ (m + 1) - 1 = m /\ 1 \in 1 .. m
      BY <1>1
    <3>2. ret2[1] = x
      BY <3>1, <2>2, <1>1
    <3> HIDE DEF ret2, y, m
    <3> QED
      BY <1>1, <2>2, <2>3, <2>6, <2>7, <2>8, <3>1, <3>2 DEF WalkInv
  <2> QED
    BY <1>4, <2>3, <2>9, OpOnly DEF GetSetStep
<1> QED
  BY <1>5, <1>6

(* The inductive invariant holds throughout. *)
THEOREM Invariance == Spec => []IInv
<1>1. IInv /\ [Next]_vars => IInv'
  <2> SUFFICES ASSUME IInv, [Next]_vars PROVE IInv'
    OBVIOUS
  <2>1. CASE UNCHANGED vars
    BY <2>1 DEF vars, IInv, Shape
  <2>2. CASE Alloc
    BY <2>2, AllocInv
  <2>3. ASSUME NEW x \in Elem, NEW y \in Elem, NEW name \in {"equiv", "union"}, Call(name, x, y) PROVE IInv'
    BY <2>3, CallInv
  <2>4. ASSUME NEW x \in Elem, Call("find", x, x) PROVE IInv'
    BY <2>4, CallInv
  <2>5. ASSUME NEW x \in Elem, GetSet(x) PROVE IInv'
    BY <2>5, GetSetInv
  <2>6. CASE 0 \in Elem /\ Call("force", 0, 0)
    BY <2>6, CallInv
  <2>7. CASE Step
    BY <2>7, FindStepInv, FindDoneInv, ForceStepInv, UnionEndInv, UnionJoinInv, GetSetStepInv, Zenon DEF Step
  <2> QED
    BY <2>1, <2>2, <2>3, <2>4, <2>5, <2>6, <2>7, Zenon DEF Next
<1> QED
  BY <1>1, InitInv, PTL DEF Spec

(* The vectors keep their types, elements and ranks their common length,   *)
(* and no rank exceeds MaxRank.                                            *)
THEOREM TypeCorrect == Spec => []TypeOK
<1>1. IInv => TypeOK
  <2> SUFFICES ASSUME IInv PROVE TypeOK
    OBVIOUS
  <2> PICK n \in Nat : Types(n, elements, ranks, cls)
    BY DEF IInv, Shape
  <2>1. n \in Size .. Size + MaxAlloc
    BY SizeAssumption DEF Types
  <2> QED
    BY <2>1, Zenon DEF IInv, Types, TypeOK
<1> QED
  BY <1>1, Invariance, PTL

(* Ranks increase along parents: the forest has no cycle. *)
THEOREM RankOrderHolds == Spec => []RankOrder
<1>1. IInv => RankOrder
  BY DEF IInv, Shape, Types, Forest, RankOrder, IsRoot, Elem
<1> QED
  BY <1>1, Invariance, PTL

(* union and equiv find one root exactly for elements of one set. *)
THEOREM FoundRightHolds == Spec => []FoundRight
<1>1. IInv => FoundRight
  <2> SUFFICES ASSUME IInv, op.at = "join" \/ (op.name = "equiv" /\ op.at = "done")
               PROVE  op.a = op.b <=> cls[op.x] = cls[op.y]
    BY DEF FoundRight
  <2> PICK n \in Nat : Shape(n) /\ FindInv(n, elements, ranks, cls, op)
    BY DEF IInv
  <2>1. /\ op.x \in 0 .. n - 1 /\ op.a \in 0 .. n - 1 /\ elements[op.a] = op.a /\ op.a \in cls[op.x]
        /\ op.y \in 0 .. n - 1 /\ op.b \in 0 .. n - 1 /\ elements[op.b] = op.b /\ op.b \in cls[op.y]
    BY Zenon DEF FindInv
  <2>2. cls[op.a] = cls[op.x] /\ cls[op.b] = cls[op.y]
    BY <2>1 DEF Shape, Classes
  <2> QED
    BY <2>1, <2>2 DEF Shape, Forest
<1> QED
  BY <1>1, Invariance, PTL

(* get_set returns the set, each element once. *)
THEOREM GetSetRightHolds == Spec => []GetSetRight
<1>1. IInv => GetSetRight
  BY DEF IInv, WalkInv, GetSetRight
<1> QED
  BY <1>1, Invariance, PTL

(* After force every element points at its representative. *)
THEOREM ForceFlatHolds == Spec => []ForceFlat
<1>1. IInv => ForceFlat
  BY DEF IInv, Shape, Types, ForceInv, ForceFlat, IsRoot, Elem
<1> QED
  BY <1>1, Invariance, PTL
-----------------------------------------------------------------------------
(* UnionFind implements Partition. *)

(* The elements are the first n numbers, and the roots those that are      *)
(* their own parents.                                                      *)
LEMMA Dom ==
  ASSUME NEW n \in Nat, Shape(n)
  PROVE  /\ Elem = 0 .. n - 1 /\ DOMAIN cls = 0 .. n - 1 /\ Len_ = n
         /\ Roots = {e \in 0 .. n - 1 : elements[e] = e}
<1>1. Elem = 0 .. n - 1 /\ DOMAIN cls = 0 .. n - 1
  BY DEF Shape, Types, Elem
<1>2. Cardinality(0 .. n - 1) = n
  BY FS_Interval
<1> QED
  BY <1>1, <1>2 DEF Len_, Roots, IsRoot

(* The initial states correspond. *)
LEMMA InitSets == Init => Sets!Init
<1> SUFFICES ASSUME Init PROVE Sets!Init
  OBVIOUS
<1>1. Roots = 0 .. Size - 1
  BY Zenon DEF Init, Roots, IsRoot, Elem
<1>2. Visible = Sets!Called("none", "done", 0, 0)
  BY DEF Init, NoOp, Visible, Ended, Sets!Called
<1> QED
  BY <1>1, <1>2 DEF Init, Sets!Init

(* alloc adds an element that is a set of its own. *)
LEMMA AllocSets == ASSUME IInv, Alloc PROVE Sets!Grow
<1> PICK n \in Nat : Shape(n)
  BY DEF IInv
<1>0. Size \in Nat /\ MaxAlloc \in Nat
  BY SizeAssumption
<1>1. /\ Elem = 0 .. n - 1 /\ DOMAIN cls = 0 .. n - 1 /\ Len_ = n
      /\ Roots = {e \in 0 .. n - 1 : elements[e] = e}
  BY Dom
<1>2. /\ op.at = "done" /\ n < Size + MaxAlloc
      /\ elements' = [e \in 0 .. n |-> IF e = n THEN e ELSE elements[e]]
      /\ cls' = [e \in 0 .. n |-> IF e = n THEN {e} ELSE cls[e]]
      /\ op' = op
  BY <1>1, Zenon DEF Alloc
<1>3. Visible' = Visible /\ Visible.at = "done"
  BY <1>2 DEF Visible, Ended
<1>4. n \in Size .. Size + MaxAlloc - 1
  BY <1>0, <1>2 DEF Shape, Types
<1>5. Roots' = Roots \cup {n}
  <2>1. Roots' = {e \in 0 .. n : elements'[e] = e}
    BY <1>2 DEF Roots, Elem, IsRoot
  <2>2. \A e \in 0 .. n : e # n => e \in 0 .. n - 1
    OBVIOUS
  <2>3. \A e \in 0 .. n : elements'[e] = e <=> (e = n \/ e \in Roots)
    BY <1>1, <1>2, <2>2
  <2>4. n \in 0 .. n /\ Roots \subseteq 0 .. n
    BY <1>1
  <2> QED
    BY <2>1, <2>3, <2>4, Zenon
<1> QED
  BY <1>1, <1>2, <1>3, <1>4, <1>5, Zenon DEF Sets!Grow, Sets!Elements

(* A call begins. *)
LEMMA CallSets ==
  ASSUME NEW x \in Elem, NEW y \in Elem, NEW name \in {"find", "equiv", "union", "force"}, Call(name, x, y),
         name = "force" => x = 0
  PROVE  Sets!Begin(name, x, y)
<1>1. /\ op' = [name |-> name, at |-> "find_a", x |-> x, y |-> y, a |-> 0, b |-> 0,
                element |-> x, parent |-> elements[x], ret |-> <<>>]
      /\ op.at = "done" /\ UNCHANGED <<elements, cls>>
  BY Zenon DEF Call, Find, NoOp
<1>2. Visible' = [name |-> name, at |-> "busy", x |-> x, y |-> y, root |-> 0, same |-> 0, ret |-> <<>>]
  BY <1>1, Zenon DEF Visible, Ended
<1>3. Visible.at = "done" /\ Roots' = Roots
  BY <1>1, Zenon DEF Visible, Roots, Elem, IsRoot
<1> QED
  BY <1>1, <1>2, <1>3 DEF Sets!Begin, Sets!Called

LEMMA GetSetSets == ASSUME IInv, NEW x \in Elem, GetSet(x) PROVE Sets!Begin("get_set", x, 0)
<1>0. op' = [name |-> "get_set", at |-> IF x \in DOMAIN links THEN "walk" ELSE "panic", x |-> x, y |-> 0,
             a |-> 0, b |-> 0, element |-> x, parent |-> 0, ret |-> <<x>>]
      /\ op.at = "done" /\ UNCHANGED <<elements, cls>>
  BY Zenon DEF GetSet, NoOp
<1>1. x \in Nat /\ Size \in Nat /\ DOMAIN links = 0 .. Size - 1
  BY SizeAssumption DEF IInv, Shape, Types, Elem
<1>2. Visible' = [name |-> "get_set", at |-> IF x \in DOMAIN links THEN "busy" ELSE "panic",
                  x |-> x, y |-> 0, root |-> 0, same |-> 0, ret |-> <<>>]
  BY <1>0, Zenon DEF Visible, Ended
<1>3. Visible.at = "done" /\ Roots' = Roots
  BY <1>0 DEF Visible, Roots, Elem, IsRoot
<1>4. x \notin DOMAIN links => x >= Size
  BY <1>1
<1> QED
  BY <1>0, <1>2, <1>3, <1>4 DEF Sets!Begin, Sets!Called

(* Halving a path is invisible. *)
LEMMA FindStepSets == ASSUME IInv, FindStep PROVE UNCHANGED Sets!vars
<1> PICK n \in Nat : Shape(n) /\ FindInv(n, elements, ranks, cls, op)
  BY DEF IInv
<1>1. /\ op \in OpRec /\ op.at \in {"find_a", "find_b"} /\ op.element \in 0 .. n - 1
      /\ op.parent = elements[op.element] /\ elements[op.element] # op.element
      /\ elements' = HalveAt(elements, op.element) /\ cls' = cls
      /\ op' = [op EXCEPT !.element = op.parent, !.parent = elements[op.parent]]
  BY Zenon DEF IInv, FindStep, FindInv, HalveAt, HangAt
<1>2. \A f \in 0 .. n - 1 : elements'[f] = f <=> elements[f] = f
  BY <1>1, Halve DEF Shape
<1>3. DOMAIN elements' = 0 .. n - 1 /\ DOMAIN elements = 0 .. n - 1
  BY <1>1 DEF Shape, Types, HalveAt, HangAt
<1>4. Roots' = Roots
  BY <1>2, <1>3 DEF Roots, Elem, IsRoot
<1>5. Visible' = Visible
  BY <1>1 DEF Visible, Ended, OpRec
<1> QED
  BY <1>1, <1>4, <1>5 DEF Sets!vars
(* find returns: to the caller of find or of equiv, or inside equiv or union. *)
LEMMA FindDoneSets == ASSUME IInv, FindDone PROVE Sets!AnswerFind \/ Sets!AnswerEquiv \/ UNCHANGED Sets!vars
<1> PICK n \in Nat : Shape(n) /\ FindInv(n, elements, ranks, cls, op)
  BY DEF IInv
<1>1. /\ op \in OpRec /\ op.at \in {"find_a", "find_b"} /\ op.element \in 0 .. n - 1
      /\ elements[op.element] = op.element /\ op.name # "force"
      /\ UNCHANGED <<elements, cls>> /\ Roots' = Roots
  BY Zenon DEF IInv, FindDone, FindInv, Roots, Elem, IsRoot
<1>2. Visible.at = "busy" /\ Visible.name = op.name /\ Visible.x = op.x /\ Visible.y = op.y
  BY <1>1 DEF Visible
<1>3. CASE op.at = "find_a" /\ op.name = "find"
  <2>1. op' = [op EXCEPT !.a = op.element, !.at = "done"]
    BY <1>3, Zenon DEF FindDone
  <2>2. op.element \in Roots \cap cls[op.x]
    BY <1>1, <1>3, Dom, Zenon DEF FindInv
  <2>3. Visible = Sets!Called("find", "busy", op.x, op.y)
    BY <1>1, <1>3 DEF Visible, Ended, Sets!Called
  <2>4. Visible' = [name |-> "find", at |-> "done", x |-> op.x, y |-> op.y, root |-> op.element, same |-> 0, ret |-> <<>>]
    BY <1>1, <1>3, <2>1 DEF Visible, Ended, OpRec
  <2>5. Visible' = [Sets!Done EXCEPT !.root = op.element]
    <3>1. Sets!Done = Sets!Called("find", "done", op.x, op.y)
      BY <2>3 DEF Sets!Done, Sets!Called
    <3> QED
      BY <2>4, <3>1 DEF Sets!Called
  <2> QED
    BY <1>1, <1>2, <1>3, <2>2, <2>5 DEF Sets!AnswerFind, Sets!Busy
<1>4. CASE op.at = "find_a" /\ op.name # "find"
  <2>1. op' = [op EXCEPT !.a = op.element, !.at = "find_b", !.element = op.y, !.parent = elements[op.y]]
    BY <1>1, <1>4 DEF FindDone, Find, OpRec
  <2>2. Visible' = Visible
    BY <1>1, <1>4, <2>1 DEF Visible, Ended, OpRec
  <2> QED
    BY <1>1, <2>2 DEF Sets!vars
<1>5. CASE op.at = "find_b" /\ op.name = "union"
  <2>1. op' = [op EXCEPT !.b = op.element, !.at = "join"]
    BY <1>5 DEF FindDone
  <2>2. Visible' = Visible
    BY <1>1, <1>5, <2>1, Zenon DEF Visible, Ended, OpRec
  <2> QED
    BY <1>1, <2>2 DEF Sets!vars
<1>6. CASE op.at = "find_b" /\ op.name # "union"
  <2>1. op' = [op EXCEPT !.b = op.element, !.at = "done"] /\ op.name = "equiv"
    BY <1>6, Zenon DEF FindDone, FindInv
  <2>2. /\ op.x \in 0 .. n - 1 /\ op.a \in 0 .. n - 1 /\ elements[op.a] = op.a /\ op.a \in cls[op.x]
        /\ op.y \in 0 .. n - 1 /\ op.element \in cls[op.y]
    BY <1>1, <1>6, Zenon DEF FindInv
  <2>3. cls[op.a] = cls[op.x] /\ cls[op.element] = cls[op.y]
    BY <1>1, <2>2, Zenon DEF Shape, Classes
  <2>4. op.a = op.element <=> cls[op.x] = cls[op.y]
    BY <1>1, <2>2, <2>3 DEF Shape, Forest
  <2>5. Visible = Sets!Called("equiv", "busy", op.x, op.y)
    BY <1>1, <1>6, <2>1 DEF Visible, Ended, Sets!Called
  <2>6. Visible' = [name |-> "equiv", at |-> "done", x |-> op.x, y |-> op.y, root |-> 0,
                    same |-> IF cls[op.x] = cls[op.y] THEN 1 ELSE 0, ret |-> <<>>]
    BY <1>1, <2>1, <2>4 DEF Visible, Ended, OpRec
  <2>7. Visible' = [Sets!Done EXCEPT !.same = IF cls[Visible.x] = cls[Visible.y] THEN 1 ELSE 0]
    <3>1. Sets!Done = Sets!Called("equiv", "done", op.x, op.y)
      BY <2>5 DEF Sets!Done, Sets!Called
    <3> QED
      BY <1>2, <2>6, <3>1 DEF Sets!Called
  <2> QED
    BY <1>1, <1>2, <2>1, <2>7 DEF Sets!AnswerEquiv, Sets!Busy
<1> QED
  BY <1>1, <1>3, <1>4, <1>5, <1>6, Zenon

(* force hangs elements below their representatives, which is invisible,   *)
(* and returns after the last.                                             *)
LEMMA ForceStepSets == ASSUME IInv, ForceStep PROVE Sets!AnswerForce \/ UNCHANGED Sets!vars
<1> PICK n \in Nat : Shape(n) /\ FindInv(n, elements, ranks, cls, op)
  BY DEF IInv
<1>1. /\ op \in OpRec /\ op.at = "find_a" /\ op.name = "force" /\ op.x \in 0 .. n - 1 /\ op.element \in 0 .. n - 1
      /\ elements[op.element] = op.element /\ op.element \in cls[op.x]
      /\ elements' = [elements EXCEPT ![op.x] = op.element] /\ cls' = cls
  BY DEF IInv, ForceStep, FindInv
<1>2. elements \in [0 .. n - 1 -> 0 .. n - 1] /\ op.x \in cls[op.x] /\ cls[op.element] = cls[op.x]
  BY <1>1, Zenon DEF Shape, Types, Classes
<1>3. elements[op.x] = op.x => op.element = op.x
  BY <1>1, <1>2 DEF Shape, Forest
<1>4. \A f \in 0 .. n - 1 : elements'[f] = f <=> elements[f] = f
  BY <1>1, <1>2, <1>3, Zenon
<1>5. Roots' = Roots
  BY <1>1, <1>2, <1>4, Zenon DEF Roots, Elem, IsRoot
<1>6. Visible = Sets!Called("force", "busy", 0, op.y)
  BY <1>1, Zenon DEF Visible, Ended, Sets!Called
<1>7. CASE op.x + 1 = Len_
  <2>1. op' = [op EXCEPT !.at = "done"]
    BY <1>7 DEF ForceStep
  <2>2. Visible' = Sets!Called("force", "done", 0, op.y)
    BY <1>1, <2>1 DEF Visible, Ended, Sets!Called, OpRec
  <2>3. Visible' = Sets!Done
    BY <1>6, <2>2 DEF Sets!Done, Sets!Called
  <2> QED
    BY <1>1, <1>5, <1>6, <2>3 DEF Sets!AnswerForce, Sets!Busy, Sets!Called
<1>8. CASE op.x + 1 # Len_
  <2>1. op' = [op EXCEPT !.x = op.x + 1, !.element = op.x + 1, !.parent = elements'[op.x + 1]]
    BY <1>8 DEF ForceStep
  <2>2. Visible' = Visible
    BY <1>1, <2>1, Zenon DEF Visible, Ended, OpRec
  <2> QED
    BY <1>1, <1>5, <2>2 DEF Sets!vars
<1> QED
  BY <1>7, <1>8

(* What union knows once it has both roots. *)
LEMMA JoinFacts ==
  ASSUME NEW n \in Nat, Shape(n), FindInv(n, elements, ranks, cls, op), op.at = "join"
  PROVE  /\ op.name = "union" /\ op.x \in 0 .. n - 1 /\ op.y \in 0 .. n - 1
         /\ op.a \in 0 .. n - 1 /\ op.b \in 0 .. n - 1 /\ elements[op.a] = op.a /\ elements[op.b] = op.b
         /\ cls[op.a] = cls[op.x] /\ cls[op.b] = cls[op.y] /\ op.a \in cls[op.x] /\ op.b \in cls[op.y]
         /\ (op.a = op.b <=> cls[op.x] = cls[op.y])
         /\ (op.a \in 0 .. Size - 1 <=> op.x < Size) /\ (op.b \in 0 .. Size - 1 <=> op.y < Size)
<1>1. /\ op.name = "union" /\ op.x \in 0 .. n - 1 /\ op.y \in 0 .. n - 1
      /\ op.a \in 0 .. n - 1 /\ op.b \in 0 .. n - 1 /\ elements[op.a] = op.a /\ elements[op.b] = op.b
      /\ op.a \in cls[op.x] /\ op.b \in cls[op.y]
  BY Zenon DEF FindInv
<1>2. cls[op.a] = cls[op.x] /\ cls[op.b] = cls[op.y]
  BY <1>1, Zenon DEF Shape, Classes
<1>3. op.a = op.b <=> cls[op.x] = cls[op.y]
  BY <1>1, <1>2 DEF Shape, Forest
<1>4. op.x \in cls[op.x] /\ op.y \in cls[op.y]
  BY <1>1, Zenon DEF Shape, Classes
<1>5. Size \in Nat /\ \A e \in 0 .. Size - 1 : cls[e] \subseteq 0 .. Size - 1
  BY SizeAssumption, Zenon DEF Shape, Classes
<1>6. op.a \in 0 .. Size - 1 <=> op.x \in 0 .. Size - 1
  BY <1>1, <1>2, <1>4, <1>5, Zenon
<1>7. op.b \in 0 .. Size - 1 <=> op.y \in 0 .. Size - 1
  BY <1>1, <1>2, <1>4, <1>5, Zenon
<1>8. (op.x \in 0 .. Size - 1 <=> op.x < Size) /\ (op.y \in 0 .. Size - 1 <=> op.y < Size)
  BY <1>1, <1>5
<1> QED
  BY <1>1, <1>2, <1>3, <1>6, <1>7, <1>8, Zenon

(* union joins the two sets, finds nothing to do, or is refused. *)
LEMMA UnionSets ==
  ASSUME IInv, UnionSame \/ UnionPanic \/ UnionJoin
  PROVE  Sets!UnionNothing \/ Sets!UnionRefused \/ Sets!Union
<1> PICK n \in Nat : Shape(n) /\ FindInv(n, elements, ranks, cls, op)
  BY DEF IInv
<1>0. op \in OpRec /\ op.at = "join" /\ Size \in Nat /\ DOMAIN links = 0 .. Size - 1
  BY SizeAssumption, Zenon DEF IInv, UnionSame, UnionPanic, UnionJoin
<1>1. /\ op.name = "union" /\ op.x \in 0 .. n - 1 /\ op.y \in 0 .. n - 1
      /\ op.a \in 0 .. n - 1 /\ op.b \in 0 .. n - 1 /\ elements[op.a] = op.a /\ elements[op.b] = op.b
      /\ cls[op.a] = cls[op.x] /\ cls[op.b] = cls[op.y] /\ op.a \in cls[op.x] /\ op.b \in cls[op.y]
      /\ (op.a = op.b <=> cls[op.x] = cls[op.y])
      /\ (op.a \in 0 .. Size - 1 <=> op.x < Size) /\ (op.b \in 0 .. Size - 1 <=> op.y < Size)
  BY <1>0, JoinFacts, Zenon
<1>2. Visible = Sets!Called("union", "busy", op.x, op.y)
  BY <1>0, <1>1, Zenon DEF Visible, Ended, Sets!Called
<1>3. Visible.name = "union" /\ Visible.at = "busy" /\ Visible.x = op.x /\ Visible.y = op.y
  BY <1>2 DEF Sets!Called
<1>4. ASSUME op' = [op EXCEPT !.at = "done"] PROVE Visible' = Sets!Done
  <2>1. Visible' = Sets!Called("union", "done", op.x, op.y)
    BY <1>0, <1>1, <1>4, Zenon DEF Visible, Ended, Sets!Called, OpRec
  <2> QED
    BY <1>2, <2>1 DEF Sets!Done, Sets!Called
<1>5. CASE UnionSame
  <2>1. op.a = op.b /\ op' = [op EXCEPT !.at = "done"] /\ UNCHANGED <<elements, cls>> /\ Roots' = Roots
    BY <1>5 DEF UnionSame, Roots, Elem, IsRoot
  <2> QED
    BY <1>1, <1>3, <1>4, <2>1 DEF Sets!UnionNothing, Sets!Busy
<1>6. CASE UnionPanic
  <2>1. /\ op.a # op.b /\ op' = [op EXCEPT !.at = "panic"] /\ UNCHANGED <<elements, cls>> /\ Roots' = Roots
        /\ ~(op.a \in 0 .. Size - 1 /\ op.b \in 0 .. Size - 1)
    BY <1>0, <1>6, Zenon DEF UnionPanic, Roots, Elem, IsRoot
  <2>2. op.x >= Size \/ op.y >= Size
    BY <1>0, <1>1, <2>1
  <2>3. Visible' = Sets!Called("union", "panic", op.x, op.y)
    BY <1>0, <1>1, <2>1 DEF Visible, Ended, Sets!Called, OpRec
  <2>4. Visible' = [Visible EXCEPT !.at = "panic"]
    BY <1>2, <2>3 DEF Sets!Called
  <2> QED
    BY <1>1, <1>3, <2>1, <2>2, <2>4, Zenon DEF Sets!UnionRefused, Sets!Busy
<1>7. CASE UnionJoin
  <2>1. /\ op.a # op.b /\ op.a \in 0 .. Size - 1 /\ op.b \in 0 .. Size - 1
        /\ op' = [op EXCEPT !.at = "done"] /\ elements' = Hung(op.a, op.b) /\ cls' = Merge(op.a, op.b)
    BY <1>0, <1>7, Zenon DEF UnionJoin
  <2>2. Elem = 0 .. n - 1 /\ DOMAIN cls = 0 .. n - 1 /\ Roots = {e \in 0 .. n - 1 : elements[e] = e}
        /\ elements \in [0 .. n - 1 -> 0 .. n - 1]
    BY Dom, Zenon DEF Shape, Types
  <2>3. PICK lo \in {op.a, op.b}, hi \in {op.a, op.b} : lo # hi /\ elements' = [elements EXCEPT ![lo] = hi]
    BY <2>1 DEF Hung
  <2>4. Roots' = {e \in 0 .. n - 1 : elements'[e] = e}
    BY <2>2, <2>3 DEF Roots, Elem, IsRoot
  <2>5. \A e \in 0 .. n - 1 : elements'[e] = e <=> (e # lo /\ elements[e] = e)
    <3>1. lo \in 0 .. n - 1 /\ elements'[lo] = hi /\ \A e \in 0 .. n - 1 : e # lo => elements'[e] = elements[e]
      BY <1>1, <2>2, <2>3, Zenon
    <3> QED
      BY <2>3, <3>1, Zenon
  <2>6. Roots' = Roots \ {lo}
    BY <2>2, <2>4, <2>5, Zenon
  <2>7. lo \in Roots \cap (cls[op.x] \cup cls[op.y])
    BY <1>1, <2>2, <2>3, Zenon
  <2>8. cls' = [e \in DOMAIN cls |-> IF e \in cls[op.x] \cup cls[op.y] THEN cls[op.x] \cup cls[op.y] ELSE cls[e]]
    BY <1>1, <2>1, <2>2 DEF Merge
  <2>9. Visible' = Sets!Done
    BY <1>4, <2>1
  <2> QED
    BY <1>1, <1>3, <2>1, <2>6, <2>7, <2>8, <2>9, Zenon DEF Sets!Union, Sets!Busy, Sets!Elements
<1> QED
  BY <1>5, <1>6, <1>7

(* get_set answers when it is back where it began. *)
LEMMA GetSetStepSets == ASSUME IInv, IInv', GetSetStep PROVE Sets!AnswerGetSet \/ UNCHANGED Sets!vars
<1>0. op \in OpRec /\ op.at = "walk" /\ op.name = "get_set" /\ UNCHANGED <<elements, cls>> /\ Roots' = Roots
  BY DEF IInv, WalkInv, GetSetStep, Roots, Elem, IsRoot
<1>1. Visible = Sets!Called("get_set", "busy", op.x, op.y)
  BY <1>0 DEF Visible, Ended, Sets!Called
<1>2. CASE links[op.element] = op.x
  <2>1. op' = [op EXCEPT !.at = "done"]
    BY <1>2 DEF GetSetStep
  <2>2. op'.name = "get_set" /\ op'.at = "done" /\ op'.x = op.x /\ op'.y = op.y /\ op'.ret = op.ret /\ op.ret \in Seq(Nat)
    BY <1>0, <2>1 DEF OpRec
  <2>3. /\ {op.ret[i] : i \in 1 .. Len(op.ret)} = cls[op.x] /\ op.x \in 0 .. Size - 1
        /\ \A i, j \in 1 .. Len(op.ret) : op.ret[i] = op.ret[j] => i = j
    <3>1. WalkInv(links', cls', op')
      BY DEF IInv
    <3> QED
      BY <1>0, <2>2, <3>1 DEF WalkInv
  <2>4. op.ret \in Seq(DOMAIN cls)
    <3> PICK n \in Nat : Shape(n)
      BY DEF IInv
    <3>1. DOMAIN cls = 0 .. n - 1 /\ cls[op.x] \subseteq 0 .. n - 1
      BY <2>3, SizeAssumption DEF Shape, Types
    <3>2. \A i \in 1 .. Len(op.ret) : op.ret[i] \in DOMAIN cls
      BY <2>3, <3>1
    <3>3. op.ret \in [1 .. Len(op.ret) -> DOMAIN cls] /\ Len(op.ret) \in Nat
      BY <2>2, <3>2
    <3> QED
      BY <3>3
  <2>5. Visible' = [name |-> "get_set", at |-> "done", x |-> op.x, y |-> op.y, root |-> 0, same |-> 0, ret |-> op.ret]
    BY <2>2 DEF Visible, Ended
  <2>6. Visible'.ret = op.ret /\ Visible' = [Sets!Done EXCEPT !.ret = op.ret]
    <3>1. Sets!Done = Sets!Called("get_set", "done", op.x, op.y)
      BY <1>1 DEF Sets!Done, Sets!Called
    <3> QED
      BY <2>5, <3>1 DEF Sets!Called
  <2>7. Visible.x = op.x /\ Visible.at = "busy" /\ Visible.name = "get_set"
    BY <1>1 DEF Sets!Called
  <2> QED
    BY <1>0, <2>3, <2>4, <2>6, <2>7 DEF Sets!AnswerGetSet, Sets!Busy, Sets!Elements
<1>3. CASE links[op.element] # op.x
  <2>1. op' = [op EXCEPT !.element = links[op.element], !.ret = Append(op.ret, links[op.element])]
    BY <1>3 DEF GetSetStep
  <2>2. Visible' = Visible
    BY <1>0, <2>1 DEF Visible, Ended, OpRec
  <2> QED
    BY <1>0, <2>2 DEF Sets!vars
<1> QED
  BY <1>2, <1>3, Zenon

(* The union-find implements a partition, for any size and any sequence of *)
(* calls.                                                                  *)
THEOREM Implementation == Spec => ImplementsPartition
<1>1. IInv /\ IInv' /\ [Next]_vars => [Sets!Next]_Sets!vars
  <2> SUFFICES ASSUME IInv, IInv', [Next]_vars PROVE Sets!Next \/ UNCHANGED Sets!vars
    OBVIOUS
  <2>0. Sets!Elements = Elem /\ (Elem # {} => 0 \in Elem)
    <3> PICK n \in Nat : Shape(n)
      BY DEF IInv
    <3>1. Elem = 0 .. n - 1 /\ DOMAIN cls = 0 .. n - 1
      BY Dom, Zenon
    <3> QED
      BY <3>1 DEF Sets!Elements
  <2>1. CASE UNCHANGED vars
    BY <2>1 DEF vars, Sets!vars, Visible, Ended, Roots, Elem, IsRoot
  <2>2. CASE Alloc
    BY <2>2, AllocSets DEF Sets!Next
  <2>3. ASSUME NEW x \in Elem, NEW y \in Elem, NEW name \in {"equiv", "union"}, Call(name, x, y) PROVE Sets!Next
    BY <2>0, <2>3, CallSets DEF Sets!Next
  <2>4. ASSUME NEW x \in Elem, Call("find", x, x) PROVE Sets!Next
    BY <2>0, <2>4, CallSets DEF Sets!Next
  <2>5. ASSUME NEW x \in Elem, GetSet(x) PROVE Sets!Next
    BY <2>0, <2>5, GetSetSets, Zenon DEF Sets!Next
  <2>6. CASE 0 \in Elem /\ Call("force", 0, 0)
    BY <2>0, <2>6, CallSets DEF Sets!Next
  <2>7. CASE Step
    BY <2>7, FindStepSets, FindDoneSets, ForceStepSets, UnionSets, GetSetStepSets, Zenon DEF Step, Sets!Next
  <2> QED
    BY <2>1, <2>2, <2>3, <2>4, <2>5, <2>6, <2>7, Zenon DEF Next
<1> QED
  BY InitSets, Invariance, <1>1, PTL DEF Spec, ImplementsPartition, Sets!Spec
=============================================================================
