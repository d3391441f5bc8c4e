--------------------------- MODULE BranchesProofs ---------------------------
(***************************************************************************)
(* Proofs about Branches, for any number of executors and edges, and about *)
(* Calls, which keeps the context that is part of a branch's index there,  *)
(* for any functions, labels and depth of the stack.                       *)
(*                                                                         *)
(* The invariant of Calls says what every frame of the stack has saved,    *)
(* not only what the contexts are now: a return makes the saved one        *)
(* current, and a jump may uncover any of them.                            *)
(***************************************************************************)
EXTENDS Branches, Calls, FiniteSetTheorems, TLAPS

(* More time than the provers take by default. *)
USE SMTT(30), ZenonT(30)

(* What an executor is about to write: only to a map that exists, never    *)
(* the value of an untouched edge, and clearing only buckets that some     *)
(* run found new.                                                          *)
PendingInv(r, f) ==
  r.at \in {"density", "write"} =>
    /\ r.status \in Mapped
    /\ \A i \in DOMAIN r.write : /\ i \in Edges
                                 /\ r.write[i] \in SUBSET AllBits
                                 /\ r.write[i] # AllBits
                                 /\ AllBits \ r.write[i] \subseteq f[r.status][i]

IInv ==
  /\ TypeOK
  /\ SeenWasFound
  /\ \A e \in Executors : PendingInv(exec[e], found)

(* The bucket of a positive count is a single bit of the byte. *)
LEMMA BucketType == \A n \in 1 .. 255 : Bucket(n) \in AllBits
BY DEF Bucket, AllBits

(* What has_new computes under the read lock is well typed, and a value to *)
(* write back differs from the value read by the new bucket only.          *)
LEMMA ReadType ==
  ASSUME NEW cells \in [Edges -> SUBSET AllBits], NEW t \in [Edges -> Counts \cup {0}]
  PROVE  /\ ToWrite(cells, t) \in Writes
         /\ NumNewEdge(cells, t) \in Nat
         /\ DOMAIN ToWrite(cells, t) = NewEdges(cells, t)
         /\ NewEdges(cells, t) \subseteq Edges
         /\ \A i \in NewEdges(cells, t) : /\ Bucket(t[i]) \in AllBits
                                          /\ Bucket(t[i]) \in cells[i]
                                          /\ ToWrite(cells, t)[i] = cells[i] \ {Bucket(t[i])}
<1>1. NewEdges(cells, t) \subseteq Edges
  BY DEF NewEdges, Path
<1>2. ASSUME NEW i \in NewEdges(cells, t)
      PROVE  Bucket(t[i]) \in AllBits /\ Bucket(t[i]) \in cells[i]
  BY DEF NewEdges, Path
<1>3. ToWrite(cells, t) \in [NewEdges(cells, t) -> SUBSET AllBits]
  BY <1>1, <1>2 DEF ToWrite
<1>4. ToWrite(cells, t) \in Writes
  BY <1>1, <1>3 DEF Writes
<1>5. NumNewEdge(cells, t) \in Nat
  <2> DEFINE S == {i \in Path(t) : cells[i] = AllBits}
  <2>1. S \subseteq Edges
    BY DEF Path
  <2>2. IsFiniteSet(S) /\ Cardinality(S) \in Nat
    BY <2>1, EdgesAssumption, FS_Subset, FS_CardinalityType
  <2> QED
    BY <2>2 DEF NumNewEdge
<1> QED
  BY <1>1, <1>2, <1>4, <1>5 DEF ToWrite

LEMMA IdleType == Idle \in ExecRec
<1>1. NoTrace \in [Edges -> Counts \cup {0}]
  BY DEF NoTrace
<1>2. NoWrite \in [{} -> SUBSET AllBits]
  BY DEF NoWrite
<1>3. NoWrite \in Writes
  BY <1>2 DEF Writes
<1> QED
  BY <1>1, <1>3 DEF Idle, ExecRec

LEMMA InitIInv == Init => IInv
<1> SUFFICES ASSUME Init PROVE IInv
  OBVIOUS
<1>1. TypeOK
  BY IdleType DEF Init, TypeOK, Idle
<1>2. SeenWasFound
  BY DEF Init, SeenWasFound
<1>3. \A e \in Executors : PendingInv(exec[e], found)
  BY DEF Init, PendingInv, Idle
<1> QED
  BY <1>1, <1>2, <1>3 DEF IInv

(* Going back to idle leaves nothing pending. *)
LEMMA IdlePending == ASSUME NEW f PROVE PendingInv(Idle, f) /\ Idle.at = "idle"
BY DEF PendingInv, Idle

(* What is pending stays justified when more buckets are found. *)
LEMMA PendingMono ==
  ASSUME NEW r, NEW f, NEW g, PendingInv(r, f),
         \A m \in Mapped, i \in Edges : f[m][i] \subseteq g[m][i]
  PROVE  PendingInv(r, g)
BY DEF PendingInv

(* A step of one executor preserves the invariant. *)
LEMMA StepIInv == IInv /\ [Next]_vars => IInv'
<1> SUFFICES ASSUME IInv, [Next]_vars PROVE IInv'
  OBVIOUS
<1> USE DEF IInv
<1>1. CASE UNCHANGED vars
  BY <1>1 DEF vars, TypeOK, SeenWasFound, PendingInv
<1>2. ASSUME NEW e \in Executors, NEW s \in Statuses, NEW t \in [Edges -> Counts \cup {0}], Ran(e, s, t)
      PROVE  IInv'
  <2> DEFINE r == [Idle EXCEPT !.at = "ran", !.status = s, !.trace = t]
  <2>1. r \in ExecRec /\ r.at = "ran"
    BY IdleType, Zenon DEF ExecRec, Idle
  <2>2. exec' = [exec EXCEPT ![e] = r] /\ UNCHANGED <<map, density, found>>
    BY <1>2 DEF Ran
  <2> HIDE DEF r
  <2>3. TypeOK'
    BY <2>1, <2>2 DEF TypeOK
  <2>4. SeenWasFound'
    BY <2>2 DEF SeenWasFound
  <2>5. ASSUME NEW x \in Executors PROVE PendingInv(exec[x], found)'
    BY <2>1, <2>2 DEF PendingInv, TypeOK
  <2> QED
    BY <2>3, <2>4, <2>5
<1>3. ASSUME NEW e \in Executors, HasNewOther(e)
      PROVE  IInv'
  <2>1. exec' = [exec EXCEPT ![e] = Idle] /\ UNCHANGED <<map, density, found>>
    BY <1>3 DEF HasNewOther
  <2>2. TypeOK'
    BY <2>1, IdleType, IdlePending, Zenon DEF TypeOK
  <2>3. SeenWasFound'
    BY <2>1 DEF SeenWasFound
  <2>4. ASSUME NEW x \in Executors PROVE PendingInv(exec[x], found)'
    BY <2>1, IdlePending DEF PendingInv, TypeOK
  <2> QED
    BY <2>2, <2>3, <2>4
<1>4. ASSUME NEW e \in Executors, HasNewRead(e)
      PROVE  IInv'
  <2> DEFINE m == exec[e].status
             t == exec[e].trace
             w == ToWrite(map[m], t)
             n == NumNewEdge(map[m], t)
             r == [exec[e] EXCEPT !.at = "density", !.write = w, !.new = n]
             N == NewEdges(map[m], t)
             fm == [i \in Edges |-> IF i \in N THEN found[m][i] \cup {Bucket(t[i])} ELSE found[m][i]]
  <2>1. /\ m \in Mapped
        /\ exec' = [exec EXCEPT ![e] = r]
        /\ found' = [found EXCEPT ![m] = fm]
        /\ UNCHANGED <<map, density>>
    BY <1>4 DEF HasNewRead
  <2>2. exec[e] \in ExecRec /\ t \in [Edges -> Counts \cup {0}] /\ map[m] \in [Edges -> SUBSET AllBits]
    BY <2>1 DEF TypeOK, ExecRec
  <2>3. /\ w \in Writes
        /\ n \in Nat
        /\ DOMAIN w = N
        /\ N \subseteq Edges
        /\ \A i \in N : /\ Bucket(t[i]) \in AllBits
                        /\ Bucket(t[i]) \in map[m][i]
                        /\ w[i] = map[m][i] \ {Bucket(t[i])}
    <3> HIDE DEF t, m
    <3> QED
      BY <2>2, ReadType
  <2> HIDE DEF w, n, N
  <2>4. r \in ExecRec /\ r.at = "density" /\ r.status = m /\ r.write = w
    BY <2>2, <2>3, Zenon DEF ExecRec
  <2>5. found' \in [Mapped -> [Edges -> SUBSET AllBits]]
    BY <2>1, <2>3 DEF TypeOK
  <2>6. \A k \in Mapped, i \in Edges : found[k][i] \subseteq found'[k][i]
    BY <2>1 DEF TypeOK
  <2>7. \A i \in N : found'[m][i] = found[m][i] \cup {Bucket(t[i])}
    BY <2>1, <2>3 DEF TypeOK
  <2>8. PendingInv(r, found')
    <3>1. ASSUME NEW i \in N
          PROVE  /\ i \in Edges
                 /\ w[i] \in SUBSET AllBits
                 /\ w[i] # AllBits
                 /\ AllBits \ w[i] \subseteq found'[m][i]
      <4>1. map[m][i] \subseteq AllBits /\ AllBits \ map[m][i] \subseteq found[m][i]
        BY <2>1, <2>2, <2>3 DEF SeenWasFound
      <4> QED
        BY <4>1, <2>3, <2>7, Zenon
    <3> HIDE DEF r, m
    <3> QED
      BY <3>1, <2>1, <2>3, <2>4, Zenon DEF PendingInv
  <2> HIDE DEF r
  <2>9. TypeOK'
    BY <2>1, <2>4, <2>5, Zenon DEF TypeOK
  <2>10. SeenWasFound'
    BY <2>1, <2>6 DEF SeenWasFound
  <2>11. ASSUME NEW x \in Executors PROVE PendingInv(exec[x], found)'
    <3>1. CASE x = e
      BY <3>1, <2>1, <2>8 DEF TypeOK
    <3>2. CASE x # e
      <4>1. exec'[x] = exec[x] /\ PendingInv(exec[x], found)
        BY <3>2, <2>1 DEF TypeOK
      <4>2. PendingInv(exec[x], found')
        BY <4>1, <2>6, PendingMono
      <4> QED
        BY <4>1, <4>2
    <3> QED
      BY <3>1, <3>2, Zenon
  <2> QED
    BY <2>9, <2>10, <2>11
<1>5. ASSUME NEW e \in Executors, HasNewDensity(e)
      PROVE  IInv'
  <2> DEFINE r == [exec[e] EXCEPT !.at = "write"]
  <2>1. /\ exec[e].at = "density"
        /\ exec' = [exec EXCEPT ![e] = IF DOMAIN exec[e].write = {} THEN Idle ELSE r]
        /\ density' = IF exec[e].status = "Normal" THEN density + exec[e].new ELSE density
        /\ UNCHANGED <<map, found>>
    BY <1>5 DEF HasNewDensity
  <2>2. exec[e] \in ExecRec /\ exec[e].new \in Nat
    BY DEF TypeOK, ExecRec
  <2>3. density' \in Nat
    BY <2>1, <2>2 DEF TypeOK
  <2>4. r \in ExecRec /\ r.at = "write" /\ r.status = exec[e].status /\ r.write = exec[e].write
    BY <2>2 DEF ExecRec
  <2>5. PendingInv(r, found)
    BY <2>1, <2>4 DEF PendingInv
  <2> HIDE DEF r
  <2>6. TypeOK'
    BY <2>1, <2>3, <2>4, IdleType, IdlePending, Zenon DEF TypeOK
  <2>7. SeenWasFound'
    BY <2>1 DEF SeenWasFound
  <2>8. ASSUME NEW x \in Executors PROVE PendingInv(exec[x], found)'
    BY <2>1, <2>5, IdlePending DEF TypeOK
  <2> QED
    BY <2>6, <2>7, <2>8
<1>6. ASSUME NEW e \in Executors, HasNewWrite(e)
      PROVE  IInv'
  <2> DEFINE m == exec[e].status
             w == exec[e].write
  <2>1. /\ exec[e].at = "write"
        /\ map' = [map EXCEPT ![m] = Written(map[m], w)]
        /\ exec' = [exec EXCEPT ![e] = Idle]
        /\ UNCHANGED <<density, found>>
    BY <1>6 DEF HasNewWrite
  <2>2. /\ m \in Mapped
        /\ \A i \in DOMAIN w : w[i] \in SUBSET AllBits /\ AllBits \ w[i] \subseteq found[m][i]
    BY <2>1 DEF PendingInv
  <2> HIDE DEF m, w
  <2>3. \A k \in Mapped, i \in Edges :
          map'[k][i] = IF k = m /\ i \in DOMAIN w THEN w[i] ELSE map[k][i]
    BY <2>1, <2>2 DEF TypeOK, Written
  <2>4. map' \in [Mapped -> [Edges -> SUBSET AllBits]]
    BY <2>1, <2>2 DEF TypeOK, Written
  <2>5. TypeOK'
    BY <2>1, <2>4, IdleType, IdlePending, Zenon DEF TypeOK
  <2>6. SeenWasFound'
    BY <2>1, <2>2, <2>3 DEF SeenWasFound
  <2>7. ASSUME NEW x \in Executors PROVE PendingInv(exec[x], found)'
    BY <2>1, IdlePending DEF TypeOK
  <2> QED
    BY <2>5, <2>6, <2>7
<1> QED
  BY <1>1, <1>2, <1>3, <1>4, <1>5, <1>6 DEF Next, HasNew

(* The inductive invariant holds throughout. *)
THEOREM Invariance == Spec => []IInv
BY InitIInv, StepIInv, PTL DEF Spec

(* The maps, density and the executors' locals keep their types. *)
THEOREM TypeCorrect == Spec => []TypeOK
<1>1. IInv => TypeOK
  BY DEF IInv
<1> QED
  BY <1>1, Invariance, PTL

(* has_new never hides coverage: a bucket shown as seen was found new by a *)
(* run whose has_new returned, or will return, true.                       *)
THEOREM SeenWasFoundHolds == Spec => []SeenWasFound
<1>1. IInv => SeenWasFound
  BY DEF IInv
<1> QED
  BY <1>1, Invariance, PTL

(* The stale write-back of has_new never makes an edge untouched again. *)
THEOREM EdgeStaysTouchedHolds == Spec => EdgeStaysTouched
<1> DEFINE Kept == \A m \in Mapped, i \in Edges : map[m][i] # AllBits => map'[m][i] # AllBits
<1>1. IInv /\ [Next]_vars => [Kept]_vars
  <2> SUFFICES ASSUME IInv, Next PROVE Kept
    OBVIOUS
  <2>1. CASE UNCHANGED map
    BY <2>1
  <2>2. ASSUME NEW e \in Executors, HasNewWrite(e) PROVE Kept
    <3> DEFINE s == exec[e].status
               w == exec[e].write
    <3>1. /\ s \in Mapped
          /\ \A i \in DOMAIN w : w[i] # AllBits
          /\ map' = [map EXCEPT ![s] = Written(map[s], w)]
      BY <2>2 DEF HasNewWrite, IInv, PendingInv
    <3> HIDE DEF s, w
    <3> QED
      BY <3>1 DEF IInv, TypeOK, Written
  <2> QED
    BY <2>1, <2>2, Zenon DEF Next, HasNew, Ran, HasNewOther, HasNewRead, HasNewDensity
<1> QED
  BY <1>1, Invariance, PTL DEF Spec, EdgeStaysTouched

-----------------------------------------------------------------------------
(* The context that a branch is counted in: module Calls. *)

(* What a frame is. *)
FrameRec ==
  [fn : Prog \cup Lib, how : {"prog", "lib", "wrap"}, via : {"call", "tramp", "pointer", "raw", "signal"},
   ctx : SUBSET (Prog \cup Lib), fctx : SUBSET (Prog \cup Lib), jumped : {"no", "yes", "apart"}]

(* The functions that occur an odd number of times among the first n       *)
(* frames of a stack.                                                      *)
On(s, n, f, hows) == {i \in 1 .. n : s[i].fn = f /\ s[i].how \in hows}
Odd(s, n, hows) == {f \in Prog \cup Lib : Cardinality(On(s, n, f, hows)) % 2 = 1}

(* No jump ended in the first n frames, or none that passed a dfsw$ frame. *)
Calm(s, n) == \A i \in 1 .. n : s[i].jumped = "no"
Joined(s, n) == \A i \in 1 .. n : s[i].jumped # "apart"

(* The program begins, and jumps end in its functions only. *)
Frames(s) ==
  /\ s \in Seq(FrameRec) /\ Len(s) >= 1 /\ s[1].how = "prog" /\ s[1].via = "raw"
  /\ \A i \in 1 .. Len(s) : s[i].how # "prog" => s[i].jumped = "no"

(* What frames saved: below frames that no jump ended in, the path to      *)
(* them.  A library function does not change the fast binary's context.    *)
Saved(s) ==
  \A i \in 1 .. Len(s) :
    /\ Calm(s, i - 1) => s[i].fctx = Odd(s, i - 1, {"prog"})
    /\ Joined(s, i - 1) => s[i].ctx = Xor(s[i].fctx, Odd(s, i - 1, {"wrap"}))
    /\ i < Len(s) /\ s[i].how # "prog" => s[i + 1].fctx = s[i].fctx

(* The contexts now. *)
Now(s, c, d) ==
  LET n == Len(s) IN
    /\ c \in SUBSET (Prog \cup Lib) /\ d \in SUBSET (Prog \cup Lib)
    /\ Calm(s, n) => d = Odd(s, n, {"prog"})
    /\ Joined(s, n) => c = Xor(d, Odd(s, n, {"wrap"}))
    /\ s[n].how # "prog" => d = s[n].fctx

Contexts(s, c, d) == Frames(s) /\ Saved(s) /\ Now(s, c, d)

(* What a frame waits for: a label that no other call has overwritten is   *)
(* still in the cell it was stored in.                                     *)
TransferRec ==
  [at : {"run", "call", "take"}, fn : Prog \cup Lib \cup {NoFn}, how : {"prog", "lib", "wrap", "none"},
   via : {"call", "tramp", "pointer", "none"}, label : Labels \cup {Unknown}]

Held(p, a, r) ==
  /\ p.at = "call" => p.fn \in Prog \cup Lib /\ p.how \in {"lib", Kind(p.fn)} /\ p.via # "none"
  /\ p.at = "call" /\ p.label # Unknown => a = p.label
  /\ p.at = "take" /\ p.label # Unknown => r = p.label

Transfers(pd, a, r) ==
  /\ pd \in [1 .. MaxDepth -> TransferRec]
  /\ \A i \in 1 .. MaxDepth : Held(pd[i], a, r) /\ (pd[i].at = "call" => i < MaxDepth)

CallsInv ==
  /\ Contexts(stack, ctx, fctx) /\ Len(stack) <= MaxDepth
  /\ Transfers(pend, argtls, rettls)
  /\ ArgumentsOfThisCall /\ ResultOfThisCall

-----------------------------------------------------------------------------
(* Counting frames. *)
LEMMA OnFinite ==
  ASSUME NEW s, NEW n \in Nat, NEW f, NEW hows
  PROVE  IsFiniteSet(On(s, n, f, hows)) /\ Cardinality(On(s, n, f, hows)) \in Nat
<1>1. IsFiniteSet(1 .. n)
  BY FS_Interval
<1>2. On(s, n, f, hows) \in SUBSET (1 .. n)
  BY DEF On
<1> HIDE DEF On
<1>3. IsFiniteSet(On(s, n, f, hows))
  BY <1>1, <1>2, FS_Subset, Zenon
<1> QED
  BY <1>3, FS_CardinalityType, Zenon

(* Only the functions and kinds of the frames count. *)
LEMMA OddSame ==
  ASSUME NEW s, NEW t, NEW n \in Nat, NEW hows,
         \A i \in 1 .. n : t[i].fn = s[i].fn /\ t[i].how = s[i].how
  PROVE  Odd(t, n, hows) = Odd(s, n, hows)
<1>1. ASSUME NEW f PROVE On(t, n, f, hows) = On(s, n, f, hows)
  BY DEF On
<1> QED
  BY <1>1 DEF Odd

(* Frames of other kinds do not. *)
LEMMA OddSkip ==
  ASSUME NEW s, NEW k \in Nat, NEW n \in Nat, k <= n, NEW hows,
         \A i \in k + 1 .. n : s[i].how \notin hows
  PROVE  Odd(s, n, hows) = Odd(s, k, hows)
<1>1. ASSUME NEW f PROVE On(s, n, f, hows) = On(s, k, f, hows)
  BY DEF On
<1> QED
  BY <1>1 DEF Odd

(* One more frame of the kind. *)
LEMMA OddNext ==
  ASSUME NEW s, NEW n \in Nat, NEW hows, s[n + 1].how \in hows, s[n + 1].fn \in Prog \cup Lib
  PROVE  Odd(s, n + 1, hows) = Xor(Odd(s, n, hows), {s[n + 1].fn})
<1> DEFINE g == s[n + 1].fn
<1>1. ASSUME NEW f, f # g PROVE On(s, n + 1, f, hows) = On(s, n, f, hows)
  BY <1>1 DEF On
<1>2. On(s, n + 1, g, hows) = On(s, n, g, hows) \cup {n + 1} /\ n + 1 \notin On(s, n, g, hows)
  BY DEF On
<1> HIDE DEF g
<1>3. Cardinality(On(s, n, g, hows)) \in Nat /\ IsFiniteSet(On(s, n, g, hows))
  BY OnFinite
<1>4. Cardinality(On(s, n + 1, g, hows)) = Cardinality(On(s, n, g, hows)) + 1
  BY <1>2, <1>3, FS_AddElement
<1>5. Cardinality(On(s, n + 1, g, hows)) % 2 = 1 <=> ~(Cardinality(On(s, n, g, hows)) % 2 = 1)
  BY <1>3, <1>4
<1>6. g \in Prog \cup Lib
  BY DEF g
<1>7. ASSUME NEW f \in Prog \cup Lib
      PROVE  f \in Odd(s, n + 1, hows) <=> f \in Xor(Odd(s, n, hows), {g})
  <2>1. CASE f = g
    BY <2>1, <1>5 DEF Odd, Xor
  <2>2. CASE f # g
    BY <2>2, <1>1 DEF Odd, Xor
  <2> QED
    BY <2>1, <2>2
<1>8. Odd(s, n + 1, hows) \subseteq Prog \cup Lib /\ Xor(Odd(s, n, hows), {g}) \subseteq Prog \cup Lib
  BY <1>6 DEF Odd, Xor
<1> QED
  BY <1>7, <1>8 DEF g

(* There is no frame before the first. *)
LEMMA OddEmpty == ASSUME NEW s, NEW hows PROVE Odd(s, 0, hows) = {}
<1>1. ASSUME NEW f PROVE On(s, 0, f, hows) = {}
  BY DEF On
<1>2. ASSUME NEW f PROVE Cardinality(On(s, 0, f, hows)) = 0
  BY <1>1, FS_EmptySet
<1> QED
  BY <1>2 DEF Odd

(* The names are those of functions. *)
LEMMA OddType == ASSUME NEW s, NEW n, NEW hows PROVE Odd(s, n, hows) \subseteq Prog \cup Lib
  BY DEF Odd

(* Xor is associative, and its operands may change places. *)
LEMMA XorAround ==
  /\ \A a, b, c : Xor(Xor(a, b), c) = Xor(Xor(a, c), b)
  /\ \A a, b, c : Xor(Xor(a, b), c) = Xor(a, Xor(b, c))
  BY DEF Xor

(* What an appended and an overwritten stack look like. *)
LEMMA AppendFacts ==
  ASSUME NEW S, NEW s \in Seq(S), NEW x \in S
  PROVE  /\ Append(s, x) \in Seq(S)
         /\ Len(Append(s, x)) = Len(s) + 1 /\ Append(s, x)[Len(s) + 1] = x
         /\ \A i \in 1 .. Len(s) : Append(s, x)[i] = s[i]
OBVIOUS

LEMMA ExceptFacts ==
  ASSUME NEW S, NEW s \in Seq(S), NEW k \in 1 .. Len(s), NEW x \in S
  PROVE  /\ [s EXCEPT ![k] = x] \in Seq(S)
         /\ Len([s EXCEPT ![k] = x]) = Len(s)
         /\ \A i \in 1 .. Len(s) : [s EXCEPT ![k] = x][i] = IF i = k THEN x ELSE s[i]
OBVIOUS

-----------------------------------------------------------------------------
(* A function is entered. *)
LEMMA PushKeeps ==
  ASSUME NEW s, NEW c, NEW d, Contexts(s, c, d),
         NEW fr \in FrameRec, fr.ctx = c, fr.fctx = d, fr.jumped = "no",
         NEW c2, c2 = IF fr.how = "lib" THEN c ELSE Xor(c, {fr.fn}),
         NEW d2, d2 = IF fr.how = "prog" THEN Xor(d, {fr.fn}) ELSE d
  PROVE  Contexts(Append(s, fr), c2, d2)
<1> DEFINE t == Append(s, fr)
           n == Len(s)
<1>1. /\ s \in Seq(FrameRec) /\ n \in Nat /\ n >= 1
      /\ c \in SUBSET (Prog \cup Lib) /\ d \in SUBSET (Prog \cup Lib)
  BY DEF Contexts, Frames, Now
<1>2. /\ t \in Seq(FrameRec) /\ Len(t) = n + 1 /\ t[n + 1] = fr
      /\ \A i \in 1 .. n : t[i] = s[i]
  BY <1>1, AppendFacts
<1>3. fr.fn \in Prog \cup Lib /\ fr.how \in {"prog", "lib", "wrap"}
  BY DEF FrameRec
<1> HIDE DEF t, n
<1>4. ASSUME NEW m \in 0 .. n, NEW hows PROVE Odd(t, m, hows) = Odd(s, m, hows)
  <2>0. n \in Nat
    BY <1>1, Zenon
  <2>1. m \in Nat /\ \A i \in 1 .. m : i \in 1 .. n
    BY <2>0
  <2>2. \A i \in 1 .. m : t[i].fn = s[i].fn /\ t[i].how = s[i].how
    BY <2>1, <1>2, Zenon
  <2> QED
    BY <2>1, <2>2, OddSame
<1>5. ASSUME NEW m \in 0 .. n
      PROVE  (Calm(t, m) <=> Calm(s, m)) /\ (Joined(t, m) <=> Joined(s, m))
  <2>0. n \in Nat
    BY <1>1, Zenon
  <2>1. \A i \in 1 .. m : i \in 1 .. n
    BY <2>0
  <2>2. \A i \in 1 .. m : t[i] = s[i]
    BY <2>1, <1>2, Zenon
  <2> QED
    BY <2>2, Zenon DEF Calm, Joined
<1>6. (Calm(t, n + 1) => Calm(s, n)) /\ (Joined(t, n + 1) => Joined(s, n))
  BY <1>1, <1>2 DEF Calm, Joined
<1>7. Frames(t)
  BY <1>1, <1>2 DEF Contexts, Frames, n
<1>8. ASSUME NEW hows, NEW e, e = Odd(s, n, hows)
      PROVE  Odd(t, n + 1, hows) = IF fr.how \in hows THEN Xor(e, {fr.fn}) ELSE e
  <2>0. Odd(t, n, hows) = e
    BY <1>1, <1>4, <1>8
  <2>1. CASE fr.how \in hows
    BY <2>0, <2>1, <1>1, <1>2, <1>3, OddNext
  <2>2. CASE fr.how \notin hows
    <3>1. \A i \in n + 1 .. n + 1 : t[i].how \notin hows
      BY <2>2, <1>1, <1>2
    <3>2. Odd(t, n + 1, hows) = Odd(t, n, hows)
      BY <3>1, <1>1, OddSkip
    <3> QED
      BY <2>0, <2>2, <3>2
  <2> QED
    BY <2>1, <2>2
<1>9. /\ Calm(s, n) => d = Odd(s, n, {"prog"})
      /\ Joined(s, n) => c = Xor(d, Odd(s, n, {"wrap"}))
      /\ s[n].how # "prog" => d = s[n].fctx
  BY DEF Contexts, Now, n
<1>10. Saved(t)
  <2> SUFFICES ASSUME NEW i \in 1 .. n + 1
               PROVE  /\ Calm(t, i - 1) => t[i].fctx = Odd(t, i - 1, {"prog"})
                      /\ Joined(t, i - 1) => t[i].ctx = Xor(t[i].fctx, Odd(t, i - 1, {"wrap"}))
                      /\ i < n + 1 /\ t[i].how # "prog" => t[i + 1].fctx = t[i].fctx
    BY <1>2 DEF Saved
  <2>0. i - 1 \in 0 .. n /\ i \in Nat
    BY <1>1
  <2>1. Odd(t, i - 1, {"prog"}) = Odd(s, i - 1, {"prog"}) /\ Odd(t, i - 1, {"wrap"}) = Odd(s, i - 1, {"wrap"})
    BY <2>0, <1>4, Zenon
  <2>2. CASE i = n + 1
    <3>1. i - 1 = n /\ t[i] = fr
      BY <2>2, <1>1, <1>2
    <3>2. (Calm(t, i - 1) <=> Calm(s, n)) /\ (Joined(t, i - 1) <=> Joined(s, n))
      BY <2>0, <3>1, <1>5, Zenon
    <3> QED
      BY <2>1, <2>2, <3>1, <3>2, <1>1, <1>9
  <2>3. CASE i < n + 1
    <3>1. /\ Calm(s, i - 1) => s[i].fctx = Odd(s, i - 1, {"prog"})
          /\ Joined(s, i - 1) => s[i].ctx = Xor(s[i].fctx, Odd(s, i - 1, {"wrap"}))
          /\ i < n /\ s[i].how # "prog" => s[i + 1].fctx = s[i].fctx
      BY <2>0, <2>3, <1>1 DEF Contexts, Saved, n
    <3>2. (Calm(t, i - 1) <=> Calm(s, i - 1)) /\ (Joined(t, i - 1) <=> Joined(s, i - 1)) /\ t[i] = s[i]
      BY <2>0, <2>3, <1>1, <1>2, <1>5
    <3>3. t[i].how # "prog" => t[i + 1].fctx = t[i].fctx
      <4>1. CASE i = n
        BY <3>2, <4>1, <1>2, <1>9, Zenon
      <4>2. CASE i < n
        BY <2>0, <3>1, <3>2, <4>2, <1>1, <1>2
      <4> QED
        BY <2>0, <2>3, <4>1, <4>2, <1>1
    <3> QED
      BY <2>1, <3>1, <3>2, <3>3, Zenon
  <2> QED
    BY <2>2, <2>3, <1>1
<1>11. Now(t, c2, d2)
  <2>1. c2 \in SUBSET (Prog \cup Lib) /\ d2 \in SUBSET (Prog \cup Lib)
    BY <1>1, <1>3, Zenon DEF Xor
  <2>2. Calm(t, n + 1) => d2 = Odd(t, n + 1, {"prog"})
    BY <1>3, <1>6, <1>8, <1>9
  <2>3. ASSUME Joined(t, n + 1) PROVE c2 = Xor(d2, Odd(t, n + 1, {"wrap"}))
    <3> DEFINE e == Odd(s, n, {"wrap"})
    <3>1. c = Xor(d, e)
      BY <2>3, <1>6, <1>9
    <3>2. Odd(t, n + 1, {"wrap"}) = IF fr.how = "wrap" THEN Xor(e, {fr.fn}) ELSE e
      BY <1>8, Zenon
    <3> HIDE DEF e
    <3>3. CASE fr.how = "prog"
      BY <3>1, <3>2, <3>3, XorAround
    <3>4. CASE fr.how = "wrap"
      BY <3>1, <3>2, <3>4, XorAround
    <3>5. CASE fr.how = "lib"
      BY <3>1, <3>2, <3>5
    <3> QED
      BY <3>3, <3>4, <3>5, <1>3, Zenon
  <2>4. t[n + 1].how # "prog" => d2 = t[n + 1].fctx
    BY <1>2
  <2> QED
    BY <2>1, <2>2, <2>3, <2>4, <1>2, Zenon DEF Now
<1> QED
  BY <1>7, <1>10, <1>11, Zenon DEF Contexts, t

(* A function returns. *)
LEMMA PopKeeps ==
  ASSUME NEW s, NEW c, NEW d, Contexts(s, c, d), Len(s) > 1,
         NEW fr, fr = s[Len(s)],
         NEW c2, c2 = IF fr.how = "lib" THEN c ELSE fr.ctx,
         NEW d2, d2 = IF fr.how = "prog" THEN fr.fctx ELSE d
  PROVE  Contexts(SubSeq(s, 1, Len(s) - 1), c2, d2)
<1> DEFINE n == Len(s) - 1
           t == SubSeq(s, 1, Len(s) - 1)
<1>1. /\ s \in Seq(FrameRec) /\ n \in Nat /\ n >= 1 /\ Len(s) = n + 1 /\ fr \in FrameRec
      /\ c \in SUBSET (Prog \cup Lib) /\ d \in SUBSET (Prog \cup Lib)
  BY DEF Contexts, Frames, Now
<1>2. t \in Seq(FrameRec) /\ Len(t) = n /\ \A i \in 1 .. n : t[i] = s[i]
  BY <1>1
<1>3. fr.how \in {"prog", "lib", "wrap"} /\ fr.ctx \in SUBSET (Prog \cup Lib) /\ fr.fctx \in SUBSET (Prog \cup Lib)
  BY <1>1, Zenon DEF FrameRec
<1> HIDE DEF t, n
<1>4. ASSUME NEW m \in 0 .. n, NEW hows PROVE Odd(t, m, hows) = Odd(s, m, hows)
  <2>0. n \in Nat
    BY <1>1, Zenon
  <2>1. m \in Nat /\ \A i \in 1 .. m : i \in 1 .. n
    BY <2>0
  <2>2. \A i \in 1 .. m : t[i].fn = s[i].fn /\ t[i].how = s[i].how
    BY <2>1, <1>2, Zenon
  <2> QED
    BY <2>1, <2>2, OddSame
<1>5. ASSUME NEW m \in 0 .. n
      PROVE  (Calm(t, m) <=> Calm(s, m)) /\ (Joined(t, m) <=> Joined(s, m))
  <2>0. n \in Nat
    BY <1>1, Zenon
  <2>1. \A i \in 1 .. m : i \in 1 .. n
    BY <2>0
  <2>2. \A i \in 1 .. m : t[i] = s[i]
    BY <2>1, <1>2, Zenon
  <2> QED
    BY <2>2, Zenon DEF Calm, Joined
<1>6. Frames(t)
  BY <1>1, <1>2 DEF Contexts, Frames
<1>7. \A i \in 1 .. n + 1 :
        /\ Calm(s, i - 1) => s[i].fctx = Odd(s, i - 1, {"prog"})
        /\ Joined(s, i - 1) => s[i].ctx = Xor(s[i].fctx, Odd(s, i - 1, {"wrap"}))
        /\ i < n + 1 /\ s[i].how # "prog" => s[i + 1].fctx = s[i].fctx
  BY <1>1, Zenon DEF Contexts, Saved
<1>8. Saved(t)
  <2> SUFFICES ASSUME NEW i \in 1 .. n
               PROVE  /\ Calm(t, i - 1) => t[i].fctx = Odd(t, i - 1, {"prog"})
                      /\ Joined(t, i - 1) => t[i].ctx = Xor(t[i].fctx, Odd(t, i - 1, {"wrap"}))
                      /\ i < n /\ t[i].how # "prog" => t[i + 1].fctx = t[i].fctx
    BY <1>2, Zenon DEF Saved
  <2>0. i - 1 \in 0 .. n /\ i \in 1 .. n + 1 /\ t[i] = s[i]
    BY <1>1, <1>2
  <2>1. Odd(t, i - 1, {"prog"}) = Odd(s, i - 1, {"prog"}) /\ Odd(t, i - 1, {"wrap"}) = Odd(s, i - 1, {"wrap"})
    BY <2>0, <1>4
  <2>2. (Calm(t, i - 1) <=> Calm(s, i - 1)) /\ (Joined(t, i - 1) <=> Joined(s, i - 1))
    BY <2>0, <1>5
  <2>3. i < n => t[i + 1] = s[i + 1]
    BY <1>1, <1>2
  <2> QED
    BY <2>0, <2>1, <2>2, <2>3, <1>1, <1>7
<1>9. Now(t, c2, d2)
  <2>0. n \in 0 .. n /\ n + 1 \in 1 .. n + 1 /\ (n + 1) - 1 = n /\ t[n] = s[n] /\ n \in 1 .. n + 1 /\ n < n + 1
    BY <1>1, <1>2
  <2>1. /\ Calm(s, n) => fr.fctx = Odd(s, n, {"prog"})
        /\ Joined(s, n) => fr.ctx = Xor(fr.fctx, Odd(s, n, {"wrap"}))
        /\ s[n].how # "prog" => fr.fctx = s[n].fctx
    BY <2>0, <1>1, <1>7, Zenon
  <2>2. /\ Calm(s, n + 1) => d = Odd(s, n + 1, {"prog"})
        /\ Joined(s, n + 1) => c = Xor(d, Odd(s, n + 1, {"wrap"}))
        /\ fr.how # "prog" => d = fr.fctx
    BY <1>1, Zenon DEF Contexts, Now
  <2>3. fr.how # "prog" => /\ Calm(s, n) => Calm(s, n + 1)
                           /\ Joined(s, n) => Joined(s, n + 1)
    BY <1>1 DEF Contexts, Frames, Calm, Joined
  <2>4. d2 = fr.fctx
    BY <2>2
  <2>5. ASSUME fr.how = "lib", NEW hows, "lib" \notin hows PROVE Odd(s, n + 1, hows) = Odd(s, n, hows)
    <3>1. \A i \in n + 1 .. n + 1 : s[i].how \notin hows
      BY <2>5, <1>1
    <3> QED
      BY <3>1, <1>1, OddSkip
  <2>6. Joined(s, n) => c2 = Xor(d2, Odd(s, n, {"wrap"}))
    <3>1. CASE fr.how = "lib"
      <4>1. Odd(s, n + 1, {"wrap"}) = Odd(s, n, {"wrap"})
        BY <2>5, <3>1, Zenon
      <4> QED
        BY <2>2, <2>3, <3>1, <4>1, Zenon
    <3>2. CASE fr.how # "lib"
      BY <2>1, <2>4, <3>2
    <3> QED
      BY <3>1, <3>2, Zenon
  <2>7. Odd(t, n, {"prog"}) = Odd(s, n, {"prog"}) /\ Odd(t, n, {"wrap"}) = Odd(s, n, {"wrap"})
    BY <2>0, <1>4
  <2>8. (Calm(t, n) <=> Calm(s, n)) /\ (Joined(t, n) <=> Joined(s, n))
    BY <2>0, <1>5, Zenon
  <2>9. c2 \in SUBSET (Prog \cup Lib) /\ d2 \in SUBSET (Prog \cup Lib)
    BY <1>1, <1>3
  <2> QED
    BY <2>0, <2>1, <2>4, <2>6, <2>7, <2>8, <2>9, <1>2, Zenon DEF Now
<1> QED
  BY <1>6, <1>8, <1>9, Zenon DEF Contexts, t

(* Control lands in frame k, and frames above it are gone. *)
Landed(s, k, t) ==
  /\ t \in Seq(FrameRec) /\ Len(t) = k /\ \A i \in 1 .. k - 1 : t[i] = s[i]
  /\ t[k].fn = s[k].fn /\ t[k].how = s[k].how /\ t[k].ctx = s[k].ctx /\ t[k].fctx = s[k].fctx
  /\ t[k].via = s[k].via

(* A jump: the contexts stay as the frames that are gone left them, which  *)
(* is right again as soon as the frame landed in has returned.             *)
LEMMA LandKeeps ==
  ASSUME NEW s, NEW c, NEW d, Contexts(s, c, d), NEW k \in 1 .. Len(s), s[k].how = "prog",
         NEW t, Landed(s, k, t),
         t[k].jumped = "no" => s[k].jumped = "no" /\ \A i \in k + 1 .. Len(s) : s[i].how = "lib",
         t[k].jumped # "apart" =>
           s[k].jumped # "apart" /\ \A i \in k + 1 .. Len(s) : s[i].how # "wrap" /\ s[i].jumped # "apart"
  PROVE  Contexts(t, c, d)
<1> DEFINE n == Len(s)
<1>1. /\ s \in Seq(FrameRec) /\ n \in Nat /\ k \in Nat /\ k >= 1 /\ k <= n
      /\ c \in SUBSET (Prog \cup Lib) /\ d \in SUBSET (Prog \cup Lib)
      /\ \A i \in 1 .. n : s[i].how # "prog" => s[i].jumped = "no"
      /\ s[1].how = "prog" /\ s[1].via = "raw"
  BY DEF Contexts, Frames, Now
<1>2. /\ t \in Seq(FrameRec) /\ Len(t) = k
      /\ \A i \in 1 .. k - 1 : t[i] = s[i]
      /\ \A i \in 1 .. k : /\ t[i].fn = s[i].fn /\ t[i].how = s[i].how /\ t[i].via = s[i].via
                         /\ t[i].ctx = s[i].ctx /\ t[i].fctx = s[i].fctx
  BY <1>1 DEF Landed
<1> HIDE DEF n
<1>0. n \in Nat /\ k \in Nat /\ k >= 1 /\ k <= n
  BY <1>1, Zenon
<1>3. ASSUME NEW m \in 0 .. k, NEW hows PROVE Odd(t, m, hows) = Odd(s, m, hows)
  <2>1. m \in Nat /\ \A i \in 1 .. m : i \in 1 .. k
    BY <1>0
  <2>2. \A i \in 1 .. m : t[i].fn = s[i].fn /\ t[i].how = s[i].how
    BY <2>1, <1>2, Zenon
  <2> QED
    BY <2>1, <2>2, OddSame
<1>4. \A m \in 0 .. k - 1 : (Calm(t, m) <=> Calm(s, m)) /\ (Joined(t, m) <=> Joined(s, m))
  BY <1>1, <1>2 DEF Calm, Joined
<1>5. Frames(t)
  BY <1>1, <1>2 DEF Frames
<1>6. \A i \in 1 .. n :
        /\ Calm(s, i - 1) => s[i].fctx = Odd(s, i - 1, {"prog"})
        /\ Joined(s, i - 1) => s[i].ctx = Xor(s[i].fctx, Odd(s, i - 1, {"wrap"}))
        /\ i < n /\ s[i].how # "prog" => s[i + 1].fctx = s[i].fctx
  BY Zenon DEF Contexts, Saved, n
<1>7. Saved(t)
  <2> SUFFICES ASSUME NEW i \in 1 .. k
               PROVE  /\ Calm(t, i - 1) => t[i].fctx = Odd(t, i - 1, {"prog"})
                      /\ Joined(t, i - 1) => t[i].ctx = Xor(t[i].fctx, Odd(t, i - 1, {"wrap"}))
                      /\ i < k /\ t[i].how # "prog" => t[i + 1].fctx = t[i].fctx
    BY <1>2 DEF Saved
  <2>0. i - 1 \in 0 .. k - 1 /\ i - 1 \in 0 .. k /\ i \in 1 .. n
    BY <1>1
  <2>1. Odd(t, i - 1, {"prog"}) = Odd(s, i - 1, {"prog"}) /\ Odd(t, i - 1, {"wrap"}) = Odd(s, i - 1, {"wrap"})
    BY <2>0, <1>3, Zenon
  <2>2. (Calm(t, i - 1) <=> Calm(s, i - 1)) /\ (Joined(t, i - 1) <=> Joined(s, i - 1))
    BY <2>0, <1>4, Zenon
  <2>3. i < k => t[i + 1].fctx = s[i + 1].fctx
    BY <1>1, <1>2
  <2>4. t[i].fctx = s[i].fctx /\ t[i].ctx = s[i].ctx /\ t[i].how = s[i].how
    BY <1>2, Zenon
  <2> QED
    BY <2>0, <2>1, <2>2, <2>3, <2>4, <1>1, <1>6
<1>8. Now(t, c, d)
  <2>0. k \in 0 .. k /\ k \in 1 .. k
    BY <1>0
  <2>l. \A i \in 1 .. k - 1 : i \in 1 .. k
    BY <1>0
  <2>u. \A i \in k + 1 .. n : i \in 1 .. n
    BY <1>0
  <2>s. \A i \in 1 .. n : (i \in 1 .. k - 1 /\ i \in 1 .. k) \/ i = k \/ i \in k + 1 .. n
    BY <1>0
  <2>1. Odd(t, k, {"prog"}) = Odd(s, k, {"prog"}) /\ Odd(t, k, {"wrap"}) = Odd(s, k, {"wrap"})
    BY <2>0, <1>3, Zenon
  <2>2. /\ Calm(s, n) => d = Odd(s, n, {"prog"})
        /\ Joined(s, n) => c = Xor(d, Odd(s, n, {"wrap"}))
    BY Zenon DEF Contexts, Now, n
  <2>3. ASSUME Calm(t, k) PROVE d = Odd(t, k, {"prog"})
    <3>1. t[k].jumped = "no"
      BY <2>0, <2>3, Zenon DEF Calm
    <3>2. s[k].jumped = "no" /\ \A i \in k + 1 .. n : s[i].how = "lib"
      BY <3>1, Zenon DEF n
    <3>3. Calm(s, n)
      <4>1. \A i \in 1 .. k - 1 : s[i].jumped = "no"
        BY <2>3, <2>l, <1>2, Zenon DEF Calm
      <4>2. \A i \in k + 1 .. n : s[i].jumped = "no"
        BY <3>2, <2>u, <1>1
      <4> QED
        BY <2>s, <3>2, <4>1, <4>2, Zenon DEF Calm
    <3>4. Odd(s, n, {"prog"}) = Odd(s, k, {"prog"})
      <4>1. \A i \in k + 1 .. n : s[i].how \notin {"prog"}
        BY <3>2
      <4> QED
        BY <4>1, <1>0, OddSkip
    <3> QED
      BY <2>1, <2>2, <3>3, <3>4, Zenon
  <2>4. ASSUME Joined(t, k) PROVE c = Xor(d, Odd(t, k, {"wrap"}))
    <3>1. t[k].jumped # "apart"
      BY <2>0, <2>4, Zenon DEF Joined
    <3>2. s[k].jumped # "apart" /\ \A i \in k + 1 .. n : s[i].how # "wrap" /\ s[i].jumped # "apart"
      BY <3>1, Zenon DEF n
    <3>3. Joined(s, n)
      BY <2>4, <2>s, <3>2, <1>2, Zenon DEF Joined
    <3>4. Odd(s, n, {"wrap"}) = Odd(s, k, {"wrap"})
      <4>1. \A i \in k + 1 .. n : s[i].how \notin {"wrap"}
        BY <3>2, Zenon
      <4> QED
        BY <4>1, <1>0, OddSkip
    <3> QED
      BY <2>1, <2>2, <3>3, <3>4, Zenon
  <2> QED
    BY <2>0, <2>3, <2>4, <1>1, <1>2, Zenon DEF Now
<1> QED
  BY <1>5, <1>7, <1>8, Zenon DEF Contexts

(* Land is such a landing, in the first n frames of the stack. *)
LEMMA LandLands ==
  ASSUME Frames(stack), NEW n \in 1 .. Len(stack), NEW k \in 1 .. n, Land(k, n)
  PROVE  /\ Landed(stack, k, stack')
         /\ stack'[k].jumped = "no" => stack[k].jumped = "no" /\ \A i \in k + 1 .. n : stack[i].how = "lib"
         /\ stack'[k].jumped # "apart" =>
              stack[k].jumped # "apart" /\ \A i \in k + 1 .. n : stack[i].how # "wrap" /\ stack[i].jumped # "apart"
<1> DEFINE t == SubSeq(stack, 1, k)
           passed == {i \in k + 1 .. n : stack[i].how # "lib"}
           apart == \E i \in passed : stack[i].how = "wrap" \/ stack[i].jumped = "apart"
           j == IF passed = {} \/ stack[k].jumped = "apart" THEN stack[k].jumped ELSE IF apart THEN "apart" ELSE "yes"
<1>1. stack \in Seq(FrameRec) /\ Len(stack) \in Nat /\ k \in Nat /\ k >= 1 /\ k <= Len(stack)
  BY DEF Frames
<1>2. t \in Seq(FrameRec) /\ Len(t) = k /\ \A i \in 1 .. k : t[i] = stack[i]
  BY <1>1
<1>3. stack[k] \in FrameRec /\ t[k] = stack[k]
  BY <1>1, <1>2
<1>4. stack' = [t EXCEPT ![k].jumped = j]
  BY <1>3, Zenon DEF Land
<1>5. stack[k].jumped \in {"no", "yes", "apart"}
  BY <1>3 DEF FrameRec
<1>6. j \in {"no", "yes", "apart"}
  BY <1>5
<1> HIDE DEF t, j
<1> DEFINE fr == [stack[k] EXCEPT !.jumped = j]
<1>7. stack' = [t EXCEPT ![k] = fr]
  BY <1>3, <1>4
<1>8. /\ fr \in FrameRec /\ fr.jumped = j
      /\ fr.fn = stack[k].fn /\ fr.how = stack[k].how /\ fr.ctx = stack[k].ctx /\ fr.fctx = stack[k].fctx
      /\ fr.via = stack[k].via
  BY <1>3, <1>6, Zenon DEF FrameRec
<1> HIDE DEF fr
<1>9. /\ stack' \in Seq(FrameRec) /\ Len(stack') = k
      /\ \A i \in 1 .. k : stack'[i] = IF i = k THEN fr ELSE t[i]
  BY <1>1, <1>2, <1>7, <1>8, ExceptFacts
<1>10. stack'[k] = fr /\ \A i \in 1 .. k - 1 : stack'[i] = stack[i]
  BY <1>1, <1>2, <1>9
<1>11. Landed(stack, k, stack')
  BY <1>8, <1>9, <1>10 DEF Landed
<1>12. j = "no" => stack[k].jumped = "no" /\ \A i \in k + 1 .. n : stack[i].how = "lib"
  BY <1>5 DEF j
<1>13. ASSUME j # "apart"
       PROVE  stack[k].jumped # "apart" /\ \A i \in k + 1 .. n : stack[i].how # "wrap" /\ stack[i].jumped # "apart"
  <2>1. stack[k].jumped # "apart" /\ ~apart
    BY <1>13 DEF j
  <2>2. \A i \in k + 1 .. n : stack[i].how # "prog" => stack[i].jumped = "no"
    BY <1>1 DEF Frames
  <2> QED
    BY <2>1, <2>2
<1> QED
  BY <1>8, <1>10, <1>11, <1>12, <1>13

-----------------------------------------------------------------------------
(* A step that loads nothing. *)
LEMMA NothingLoaded == Nothing.what = "nothing" /\ Nothing.given = Unknown
  BY DEF Nothing

(* A frame that runs waits for nothing. *)
LEMMA RunningHeld ==
  /\ Running \in TransferRec /\ Running.at = "run"
  /\ \A a, r : Held(Running, a, r)
<1>1. Running \in TransferRec /\ Running.at = "run"
  BY DEF Running, Transfer, TransferRec
<1> QED
  BY <1>1, Zenon DEF Held

(* A store leaves no other transfer in the belief that its label is there. *)
LEMMA OverwriteHeld ==
  ASSUME Transfers(pend, argtls, rettls), NEW at \in {"call", "take"}, NEW a, NEW r,
         at # "call" => a = argtls, at # "take" => r = rettls
  PROVE  Transfers(Overwrite(at), a, r)
<1>1. DOMAIN pend = 1 .. MaxDepth /\ \A i \in 1 .. MaxDepth : pend[i] \in TransferRec
  BY DEF Transfers
<1>2. ASSUME NEW i \in 1 .. MaxDepth
      PROVE  /\ Overwrite(at)[i] \in TransferRec /\ Held(Overwrite(at)[i], a, r)
             /\ Overwrite(at)[i].at = "call" => i < MaxDepth
  <2>1. /\ pend[i] \in TransferRec /\ Held(pend[i], argtls, rettls)
        /\ pend[i].at = "call" => i < MaxDepth
        /\ Overwrite(at)[i] = IF pend[i].at = at THEN [pend[i] EXCEPT !.label = Unknown] ELSE pend[i]
    BY <1>1 DEF Transfers, Overwrite
  <2>2. CASE pend[i].at = at
    <3> DEFINE p == [pend[i] EXCEPT !.label = Unknown]
    <3>1. /\ p \in TransferRec /\ p.at = pend[i].at /\ p.fn = pend[i].fn /\ p.how = pend[i].how
          /\ p.via = pend[i].via /\ p.label = Unknown
      BY <2>1 DEF TransferRec
    <3>2. Overwrite(at)[i] = p
      BY <2>1, <2>2, Zenon
    <3> HIDE DEF p
    <3> QED
      BY <2>1, <3>1, <3>2, Zenon DEF Held
  <2>3. CASE pend[i].at # at
    <3>1. Overwrite(at)[i] = pend[i]
      BY <2>1, <2>3, Zenon
    <3>2. (pend[i].at = "call" => a = argtls) /\ (pend[i].at = "take" => r = rettls)
      BY <2>3, Zenon
    <3> QED
      BY <2>1, <3>1, <3>2, Zenon DEF Held
  <2> QED
    BY <2>2, <2>3, Zenon
<1>3. Overwrite(at) = [i \in 1 .. MaxDepth |-> Overwrite(at)[i]]
  BY <1>1 DEF Overwrite
<1> QED
  BY <1>2, <1>3, Zenon DEF Transfers

(* One frame's transfer changes. *)
LEMMA SetTransfer ==
  ASSUME NEW pd, NEW a, NEW r, Transfers(pd, a, r), NEW i \in 1 .. MaxDepth,
         NEW p \in TransferRec, Held(p, a, r), p.at = "call" => i < MaxDepth
  PROVE  Transfers([pd EXCEPT ![i] = p], a, r)
<1>1. pd \in [1 .. MaxDepth -> TransferRec]
  BY DEF Transfers
<1>2. [pd EXCEPT ![i] = p] \in [1 .. MaxDepth -> TransferRec]
  BY <1>1
<1>3. \A j \in 1 .. MaxDepth : [pd EXCEPT ![i] = p][j] = IF j = i THEN p ELSE pd[j]
  BY <1>1
<1> QED
  BY <1>2, <1>3, Zenon DEF Transfers

(* What is pending for a frame of the stack. *)
LEMMA PendType ==
  ASSUME CallsInv
  PROVE  /\ Depth \in 1 .. MaxDepth /\ Len(stack) \in 1 .. MaxDepth /\ Depth = Len(stack)
         /\ pend[Depth] \in TransferRec /\ Held(pend[Depth], argtls, rettls)
         /\ pend[Depth].at = "call" => Len(stack) < MaxDepth
         /\ Len(stack) > 1 => Depth - 1 \in 1 .. MaxDepth
<1>1. Depth \in 1 .. MaxDepth /\ Depth = Len(stack)
  BY LabelAssumption DEF CallsInv, Contexts, Frames, Depth
<1>2. pend[Depth] \in TransferRec /\ Held(pend[Depth], argtls, rettls) /\ (pend[Depth].at = "call" => Depth < MaxDepth)
  BY <1>1 DEF CallsInv, Transfers
<1>3. Len(stack) > 1 => Depth - 1 \in 1 .. MaxDepth
  BY <1>1, LabelAssumption
<1> QED
  BY <1>1, <1>2, <1>3, Zenon

-----------------------------------------------------------------------------
(* main has been entered. *)
LEMMA CallsInitInv == CallsInit => CallsInv
<1> SUFFICES ASSUME CallsInit PROVE CallsInv
  OBVIOUS
<1>0. PICK f \in Prog :
        /\ stack = <<[fn |-> f, how |-> "prog", via |-> "raw", ctx |-> {}, fctx |-> {}, jumped |-> "no"]>>
        /\ ctx = {f} /\ fctx = {f} /\ pend = [i \in 1 .. MaxDepth |-> Running] /\ loaded = Nothing
  BY Zenon DEF CallsInit, hashCallName
<1> DEFINE fr == [fn |-> f, how |-> "prog", via |-> "raw", ctx |-> {}, fctx |-> {}, jumped |-> "no"]
<1>1. fr \in FrameRec
  BY Zenon DEF FrameRec
<1>2. /\ fr.how = "prog" /\ fr.fn = f /\ fr.ctx = {} /\ fr.fctx = {} /\ fr.jumped = "no"
      /\ fr.via = "raw" /\ stack = <<fr>>
  BY <1>0
<1> HIDE DEF fr
<1>3. stack \in Seq(FrameRec) /\ Len(stack) = 1 /\ stack[1] = fr /\ DOMAIN stack = {1}
  BY <1>1, <1>2
<1>4. Odd(stack, 0, {"prog"}) = {} /\ Odd(stack, 0, {"wrap"}) = {}
  BY OddEmpty
<1>5. Odd(stack, 1, {"prog"}) = {f}
  <2>1. Odd(stack, 0 + 1, {"prog"}) = Xor(Odd(stack, 0, {"prog"}), {stack[0 + 1].fn})
    BY <1>2, <1>3, OddNext
  <2>2. 0 + 1 = 1
    OBVIOUS
  <2> QED
    BY <2>1, <2>2, <1>2, <1>3, <1>4, Zenon DEF Xor
<1>6. Odd(stack, 1, {"wrap"}) = {}
  <2>1. \A i \in 0 + 1 .. 1 : stack[i].how \notin {"wrap"}
    BY <1>2, <1>3
  <2>2. Odd(stack, 1, {"wrap"}) = Odd(stack, 0, {"wrap"})
    BY <2>1, OddSkip
  <2> QED
    BY <2>2, <1>4
<1>7. Frames(stack)
  BY <1>2, <1>3 DEF Frames
<1>8. Saved(stack)
  BY <1>2, <1>3, <1>4 DEF Saved, Xor
<1>9. Now(stack, ctx, fctx)
  BY <1>0, <1>2, <1>3, <1>5, <1>6, Zenon DEF Now, Xor
<1>10. ArgumentsOfThisCall /\ ResultOfThisCall
  BY <1>0, NothingLoaded, Zenon DEF ArgumentsOfThisCall, ResultOfThisCall
<1>11. Transfers(pend, argtls, rettls)
  BY <1>0, RunningHeld DEF Transfers
<1>12. Len(stack) <= MaxDepth
  BY <1>3, LabelAssumption
<1> QED
  BY <1>7, <1>8, <1>9, <1>10, <1>11, <1>12, Zenon DEF CallsInv, Contexts

(* The actions that enter a function: in both binaries, in the tracked     *)
(* one, or in neither.                                                     *)
LEMMA PushInv ==
  ASSUME CallsInv, NEW fn \in Prog \cup Lib, NEW how \in {"prog", "lib", "wrap"},
         NEW via \in {"call", "tramp", "pointer", "raw", "signal"},
         Push(Frame(fn, how, via)), Len(stack) < MaxDepth,
         ctx' = IF how = "lib" THEN ctx ELSE Xor(ctx, {fn}),
         fctx' = IF how = "prog" THEN Xor(fctx, {fn}) ELSE fctx
  PROVE  Contexts(stack', ctx', fctx') /\ Len(stack') <= MaxDepth
<1> DEFINE fr == Frame(fn, how, via)
<1>1. /\ fr \in FrameRec /\ fr.fn = fn /\ fr.how = how
      /\ fr.ctx = ctx /\ fr.fctx = fctx /\ fr.jumped = "no"
  <2>1. ctx \in SUBSET (Prog \cup Lib) /\ fctx \in SUBSET (Prog \cup Lib)
    BY Zenon DEF CallsInv, Contexts, Now
  <2> QED
    BY <2>1 DEF Frame, FrameRec
<1>2. stack' = Append(stack, fr)
  BY DEF Push
<1> HIDE DEF fr
<1>3. Contexts(stack', ctx', fctx')
  <2>1. Contexts(stack, ctx, fctx)
    BY Zenon DEF CallsInv
  <2>2. ctx' = IF fr.how = "lib" THEN ctx ELSE Xor(ctx, {fr.fn})
    BY <1>1
  <2>3. fctx' = IF fr.how = "prog" THEN Xor(fctx, {fr.fn}) ELSE fctx
    BY <1>1, Zenon
  <2> QED
    BY <2>1, <2>2, <2>3, <1>1, <1>2, PushKeeps, Zenon
<1>4. stack \in Seq(FrameRec)
  BY Zenon DEF CallsInv, Contexts, Frames
<1>5. Len(stack') = Len(stack) + 1 /\ Len(stack) \in Nat
  BY <1>1, <1>2, <1>4
<1> QED
  BY <1>3, <1>5, LabelAssumption

(* There is a running frame, and below one of a library a frame of the program. *)
LEMMA TopType ==
  ASSUME CallsInv
  PROVE  /\ stack \in Seq(FrameRec) /\ Len(stack) \in Nat /\ Len(stack) >= 1 /\ Top \in FrameRec
         /\ Top.how \in {"prog", "lib", "wrap"} /\ (Top.how # "prog" \/ Top.via = "signal" => Len(stack) > 1)
<1>1. stack \in Seq(FrameRec) /\ Len(stack) \in Nat /\ Len(stack) >= 1 /\ stack[1].how = "prog" /\ stack[1].via = "raw"
  BY DEF CallsInv, Contexts, Frames
<1>2. Top \in FrameRec
  BY <1>1 DEF Top
<1> QED
  BY <1>1, <1>2 DEF Top, FrameRec

(* The actions that return. *)
LEMMA PopInv ==
  ASSUME CallsInv, Len(stack) > 1, Pop,
         ctx' = IF Top.how = "lib" THEN ctx ELSE Top.ctx,
         fctx' = IF Top.how = "prog" THEN Top.fctx ELSE fctx
  PROVE  Contexts(stack', ctx', fctx') /\ Len(stack') <= MaxDepth
<1>1. Contexts(stack', ctx', fctx')
  BY PopKeeps, Zenon DEF CallsInv, Pop, Top
<1>2. stack \in Seq(FrameRec) /\ Len(stack) \in Nat /\ Len(stack) <= MaxDepth
  BY DEF CallsInv, Contexts, Frames
<1>3. Len(stack') = Len(stack) - 1
  BY <1>2 DEF Pop
<1> QED
  BY <1>1, <1>2, <1>3, LabelAssumption

(* What a function that is entered or left does to the contexts. *)
LEMMA EnterKind ==
  ASSUME NEW f \in Prog \cup Lib, Enter(f)
  PROVE  /\ Kind(f) \in {"prog", "wrap"}
         /\ ctx' = IF Kind(f) = "lib" THEN ctx ELSE Xor(ctx, {f})
         /\ fctx' = IF Kind(f) = "prog" THEN Xor(fctx, {f}) ELSE fctx
<1>1. CASE f \in Prog
  BY <1>1 DEF Enter, Kind, hashCallName
<1>2. CASE f \notin Prog
  BY <1>2 DEF Enter, Kind, hashCallName
<1> QED
  BY <1>1, <1>2

(* A step that loads nothing, or nothing that is known, keeps the two      *)
(* properties of labels.                                                   *)
LEMMA LoadKeeps ==
  ASSUME loaded'.given = Unknown \/ loaded'.got = loaded'.given
  PROVE  ArgumentsOfThisCall' /\ ResultOfThisCall'
  BY Zenon DEF ArgumentsOfThisCall, ResultOfThisCall

(* The same for the two operations on loaded. *)
LEMMA LoadFacts ==
  /\ LoadsNothing => loaded'.given = Unknown
  /\ \A what, given, got : Load(what, given, got) => loaded'.given = given /\ loaded'.got = got
  BY DEF LoadsNothing, Load, Nothing

(* A caller or a trampoline stores a label. *)
LEMMA StoreInv ==
  ASSUME CallsInv, NEW f \in Prog \cup Lib, NEW how \in {"lib", Kind(f)}, NEW via \in {"call", "tramp", "pointer"},
         NEW l \in Labels, Store(f, how, via, l)
  PROVE  CallsInv'
<1> DEFINE p == Transfer("call", f, how, via, l)
<1>1. /\ Len(stack) < MaxDepth /\ argtls' = l /\ pend' = [Overwrite("call") EXCEPT ![Depth] = p]
      /\ LoadsNothing /\ UNCHANGED <<stack, rettls, ctx, fctx>>
  BY Zenon DEF Store, StoredArg
<1>2. how \in {"prog", "lib", "wrap"}
  BY DEF Kind
<1>3. /\ p \in TransferRec /\ p.at = "call" /\ p.fn = f /\ p.how = how /\ p.via = via /\ p.label = l
  BY <1>2 DEF Transfer, TransferRec
<1> HIDE DEF p
<1>4. Held(p, l, rettls)
  <2>1. p.via # "none"
    BY <1>3
  <2> QED
    BY <2>1, <1>3, Zenon DEF Held
<1>5. Transfers(Overwrite("call"), l, rettls)
  BY OverwriteHeld, Zenon DEF CallsInv
<1>6. Depth \in 1 .. MaxDepth /\ Depth < MaxDepth
  BY <1>1, PendType, Zenon
<1>7. Transfers(pend', argtls', rettls')
  BY <1>1, <1>3, <1>4, <1>5, <1>6, SetTransfer, Zenon
<1>8. ArgumentsOfThisCall' /\ ResultOfThisCall'
  BY <1>1, LoadKeeps, LoadFacts, Zenon
<1>9. Contexts(stack', ctx', fctx') /\ Len(stack') <= MaxDepth
  BY <1>1, Zenon DEF CallsInv
<1> QED
  BY <1>7, <1>8, <1>9, Zenon DEF CallsInv

(* The function that is called loads it. *)
LEMMA EnterInv == ASSUME CallsInv, EnterCalled PROVE CallsInv'
<1> DEFINE p == pend[Depth]
<1>1. /\ p.at = "call" /\ Push(Frame(p.fn, p.how, p.via)) /\ pend' = [pend EXCEPT ![Depth] = Running]
      /\ IF p.how = "lib" THEN LoadsNothing /\ UNCHANGED <<ctx, fctx>>
                          ELSE Load("argument", p.label, argtls) /\ Enter(p.fn)
      /\ UNCHANGED <<argtls, rettls>>
  BY Zenon DEF EnterCalled
<1>2. Depth \in 1 .. MaxDepth /\ p \in TransferRec /\ Held(p, argtls, rettls) /\ Len(stack) < MaxDepth
  BY <1>1, PendType, Zenon
<1> HIDE DEF p
<1>3. p.fn \in Prog \cup Lib /\ p.how \in {"lib", Kind(p.fn)} /\ p.via \in {"call", "tramp", "pointer", "raw", "signal"}
  BY <1>1, <1>2 DEF Held, TransferRec
<1>4. /\ p.how \in {"prog", "lib", "wrap"}
      /\ ctx' = IF p.how = "lib" THEN ctx ELSE Xor(ctx, {p.fn})
      /\ fctx' = IF p.how = "prog" THEN Xor(fctx, {p.fn}) ELSE fctx
  <2>1. CASE p.how = "lib"
    BY <2>1, <1>1
  <2>2. CASE p.how # "lib"
    BY <2>2, <1>1, <1>3, EnterKind, Zenon
  <2> QED
    BY <2>1, <2>2
<1>5. Contexts(stack', ctx', fctx') /\ Len(stack') <= MaxDepth
  BY <1>1, <1>2, <1>3, <1>4, PushInv, Zenon
<1>6. Transfers(pend', argtls', rettls')
  <2>1. Running.at # "call"
    BY RunningHeld
  <2> QED
    BY <2>1, <1>1, <1>2, RunningHeld, SetTransfer, Zenon DEF CallsInv
<1>7. ArgumentsOfThisCall' /\ ResultOfThisCall'
  <2>1. p.label # Unknown => argtls = p.label
    BY <1>1, <1>2, Zenon DEF Held
  <2>2. loaded'.given = Unknown \/ loaded'.got = loaded'.given
    BY <2>1, <1>1, LoadFacts, Zenon
  <2> QED
    BY <2>2, LoadKeeps, Zenon
<1> QED
  BY <1>5, <1>6, <1>7, Zenon DEF CallsInv

(* A callback or a signal handler is entered without a store. *)
LEMMA RawInv ==
  ASSUME CallsInv, NEW f \in Prog \cup Lib, NEW via \in {"raw", "signal"}, RawEntry(f, Kind(f), via)
  PROVE  CallsInv'
<1>1. /\ Len(stack) < MaxDepth /\ Push(Frame(f, Kind(f), via)) /\ Enter(f)
      /\ Load("argument", Unknown, argtls) /\ UNCHANGED <<argtls, rettls, pend>>
  BY Zenon DEF RawEntry
<1>2. Kind(f) \in {"prog", "lib", "wrap"} /\ via \in {"call", "tramp", "pointer", "raw", "signal"}
  BY <1>1, EnterKind, Zenon
<1>3. Contexts(stack', ctx', fctx') /\ Len(stack') <= MaxDepth
  BY <1>1, <1>2, EnterKind, PushInv, Zenon
<1>4. ArgumentsOfThisCall' /\ ResultOfThisCall'
  BY <1>1, LoadFacts, LoadKeeps, Zenon
<1> QED
  BY <1>1, <1>3, <1>4, Zenon DEF CallsInv

(* A function stores its result and returns. *)
LEMMA ReturnInv == ASSUME CallsInv, NEW l \in Labels, Return(l) PROVE CallsInv'
<1>1. /\ Top.how # "lib" /\ Len(stack) > 1 /\ Pop /\ rettls' = l /\ argtls' = argtls
      /\ ctx' = Top.ctx /\ fctx' = IF Top.how = "prog" THEN Top.fctx ELSE fctx
      /\ pend' = IF Top.via = "raw" THEN Overwrite("take") ELSE [Overwrite("take") EXCEPT ![Depth - 1] = ToTake(l)]
      /\ LoadsNothing
  BY Zenon DEF Return, Leave, Recovered, StoredRet
<1>2. Contexts(stack', ctx', fctx') /\ Len(stack') <= MaxDepth
  BY <1>1, PopInv, Zenon
<1>3. Transfers(Overwrite("take"), argtls, l)
  BY OverwriteHeld, Zenon DEF CallsInv
<1>4. ToTake(l) \in TransferRec /\ ToTake(l).at = "take" /\ ToTake(l).label = l
  BY DEF ToTake, Transfer, TransferRec
<1>5. Held(ToTake(l), argtls, l) /\ ToTake(l).at # "call"
  <2>1. ToTake(l).at # "call"
    BY <1>4
  <2> QED
    BY <2>1, <1>4, Zenon DEF Held
<1>6. Depth - 1 \in 1 .. MaxDepth
  BY <1>1, PendType, Zenon
<1>7. Transfers([Overwrite("take") EXCEPT ![Depth - 1] = ToTake(l)], argtls, l)
  BY <1>3, <1>4, <1>5, <1>6, SetTransfer, Zenon
<1>8. Transfers(pend', argtls', rettls')
  BY <1>1, <1>3, <1>7, Zenon
<1>9. ArgumentsOfThisCall' /\ ResultOfThisCall'
  BY <1>1, LoadFacts, LoadKeeps, Zenon
<1> QED
  BY <1>2, <1>8, <1>9, Zenon DEF CallsInv

(* A handler or a library function returns and stores nothing. *)
LEMMA ReturnHandlerInv == ASSUME CallsInv, ReturnHandler PROVE CallsInv'
<1>1. /\ Top.how # "lib" /\ Top.via = "signal" /\ Pop /\ LoadsNothing /\ UNCHANGED <<argtls, rettls, pend>>
      /\ ctx' = Top.ctx /\ fctx' = IF Top.how = "prog" THEN Top.fctx ELSE fctx
  BY Zenon DEF ReturnHandler, Leave, Recovered
<1>2. Contexts(stack', ctx', fctx') /\ Len(stack') <= MaxDepth
  BY <1>1, TopType, PopInv, Zenon
<1>3. ArgumentsOfThisCall' /\ ResultOfThisCall'
  BY <1>1, LoadFacts, LoadKeeps, Zenon
<1> QED
  BY <1>1, <1>2, <1>3, Zenon DEF CallsInv

LEMMA ReturnLibInv == ASSUME CallsInv, ReturnLib PROVE CallsInv'
<1>1. /\ Top.how = "lib" /\ Pop /\ LoadsNothing /\ UNCHANGED <<argtls, rettls, ctx, fctx>>
      /\ pend' = IF Top.via = "pointer" THEN [pend EXCEPT ![Depth - 1] = ToTake(Unknown)] ELSE pend
  BY Zenon DEF ReturnLib
<1>2. Len(stack) > 1
  BY <1>1, TopType
<1>3. Contexts(stack', ctx', fctx') /\ Len(stack') <= MaxDepth
  <2>1. Top.how # "prog"
    BY <1>1
  <2> QED
    BY <2>1, <1>1, <1>2, PopInv, Zenon
<1>4. ToTake(Unknown) \in TransferRec /\ ToTake(Unknown).at = "take" /\ ToTake(Unknown).label = Unknown
  BY DEF ToTake, Transfer, TransferRec
<1>5. Held(ToTake(Unknown), argtls, rettls) /\ ToTake(Unknown).at # "call"
  <2>1. ToTake(Unknown).at # "call"
    BY <1>4
  <2> QED
    BY <2>1, <1>4, Zenon DEF Held
<1>6. Depth - 1 \in 1 .. MaxDepth
  BY <1>2, PendType, Zenon
<1>7. Transfers([pend EXCEPT ![Depth - 1] = ToTake(Unknown)], argtls, rettls)
  BY <1>4, <1>5, <1>6, SetTransfer, Zenon DEF CallsInv
<1>8. Transfers(pend', argtls', rettls')
  BY <1>1, <1>7, Zenon DEF CallsInv
<1>9. ArgumentsOfThisCall' /\ ResultOfThisCall'
  BY <1>1, LoadFacts, LoadKeeps, Zenon
<1> QED
  BY <1>3, <1>8, <1>9, Zenon DEF CallsInv

(* The caller loads a result. *)
LEMMA TakeInv == ASSUME CallsInv, TakeResult PROVE CallsInv'
<1>1. /\ pend[Depth].at = "take" /\ Load("result", pend[Depth].label, rettls)
      /\ pend' = [pend EXCEPT ![Depth] = Running] /\ UNCHANGED <<stack, argtls, rettls, ctx, fctx>>
  BY Zenon DEF TakeResult
<1>2. pend[Depth].label # Unknown => rettls = pend[Depth].label
  BY <1>1, PendType, Zenon DEF Held
<1>3. loaded'.given = Unknown \/ loaded'.got = loaded'.given
  BY <1>1, <1>2, LoadFacts, Zenon
<1>4. Transfers(pend', argtls', rettls')
  <2>1. Running.at # "call"
    BY RunningHeld
  <2> QED
    BY <2>1, <1>1, PendType, RunningHeld, SetTransfer, Zenon DEF CallsInv
<1>5. Contexts(stack', ctx', fctx') /\ Len(stack') <= MaxDepth
  BY <1>1, Zenon DEF CallsInv
<1> QED
  BY <1>3, <1>4, <1>5, LoadKeeps, Zenon DEF CallsInv

(* A jump forgets what the frames it ends in or passes waited for. *)
LEMMA LandTransfers ==
  ASSUME CallsInv, NEW k \in 1 .. Len(stack), NEW n, Land(k, n), UNCHANGED <<argtls, rettls>>
  PROVE  Transfers(pend', argtls', rettls')
<1>1. pend \in [1 .. MaxDepth -> TransferRec] /\ \A i \in 1 .. MaxDepth : Held(pend[i], argtls, rettls) /\ (pend[i].at = "call" => i < MaxDepth)
  BY Zenon DEF CallsInv, Transfers
<1>2. pend' = [i \in 1 .. MaxDepth |-> IF i >= k THEN Running ELSE pend[i]]
  BY <1>1 DEF Land
<1>3. pend' \in [1 .. MaxDepth -> TransferRec] /\ \A i \in 1 .. MaxDepth : pend'[i] = Running \/ pend'[i] = pend[i]
  BY <1>1, <1>2, RunningHeld
<1>4. Running.at # "call"
  BY RunningHeld
<1> QED
  BY <1>1, <1>3, <1>4, RunningHeld, Zenon DEF Transfers

(* Every action keeps the invariant. *)
LEMMA CallsStepInv == CallsInv /\ [CallsNext]_callsVars => CallsInv'
<1> SUFFICES ASSUME CallsInv, [CallsNext]_callsVars PROVE CallsInv'
  OBVIOUS
<1>t. /\ stack \in Seq(FrameRec) /\ Len(stack) \in Nat /\ Len(stack) >= 1 /\ Len(stack) <= MaxDepth
  BY TopType DEF CallsInv
<1>c. Contexts(stack, ctx, fctx) /\ Frames(stack)
  BY DEF CallsInv, Contexts
<1>1. ASSUME NEW f \in Prog \cup Lib, NEW l \in Labels, Call(f, l) \/ Callback(f, l)
      PROVE  CallsInv'
  BY <1>1, StoreInv, Zenon DEF Call, Callback
<1>2. ASSUME NEW f \in Lib, NEW l \in Labels, CallPointer(f, l)
      PROVE  CallsInv'
  <2>1. f \in Prog \cup Lib
    OBVIOUS
  <2> QED
    BY <1>2, <2>1, StoreInv, Zenon DEF CallPointer
<1>3. ASSUME NEW f \in Lib, CallLib(f)
      PROVE  CallsInv'
  <2>1. /\ Len(stack) < MaxDepth /\ Push(Frame(f, "lib", "call")) /\ LoadsNothing
        /\ UNCHANGED <<argtls, rettls, ctx, fctx, pend>>
    BY <1>3, Zenon DEF CallLib
  <2>2. f \in Prog \cup Lib /\ "lib" # "prog"
    OBVIOUS
  <2>3. Contexts(stack', ctx', fctx') /\ Len(stack') <= MaxDepth
    BY <2>1, <2>2, PushInv, Zenon
  <2>4. ArgumentsOfThisCall' /\ ResultOfThisCall'
    BY <2>1, LoadFacts, LoadKeeps, Zenon
  <2> QED
    BY <2>1, <2>3, <2>4, Zenon DEF CallsInv
<1>4. ASSUME NEW f \in Prog \cup Lib, RawCallback(f)
      PROVE  CallsInv'
  BY <1>4, RawInv, Zenon DEF RawCallback
<1>5. ASSUME NEW f \in Prog, Signal(f)
      PROVE  CallsInv'
  <2>1. f \in Prog \cup Lib /\ Kind(f) = "prog"
    BY DEF Kind
  <2> QED
    BY <1>5, <2>1, RawInv, Zenon DEF Signal
<1>6. ASSUME NEW l \in Labels, Return(l) PROVE CallsInv'
  BY <1>6, ReturnInv, Zenon
<1>7. CASE ReturnHandler
  BY <1>7, ReturnHandlerInv, Zenon
<1>8. ASSUME NEW k \in 1 .. Len(stack) - 1, Jump(k)
      PROVE  CallsInv'
  <2>1. /\ stack[k].how = "prog" /\ Land(k, Len(stack)) /\ LoadsNothing
        /\ UNCHANGED <<argtls, rettls, ctx, fctx>>
    BY <1>8, Zenon DEF Jump
  <2>2. k \in 1 .. Len(stack) /\ Len(stack) \in 1 .. Len(stack) /\ k <= MaxDepth
    BY <1>t, LabelAssumption
  <2>3. /\ Landed(stack, k, stack')
        /\ stack'[k].jumped = "no" => stack[k].jumped = "no" /\ \A i \in k + 1 .. Len(stack) : stack[i].how = "lib"
        /\ stack'[k].jumped # "apart" =>
             stack[k].jumped # "apart" /\ \A i \in k + 1 .. Len(stack) : stack[i].how # "wrap" /\ stack[i].jumped # "apart"
    BY <2>1, <2>2, <1>c, LandLands, Zenon
  <2>4. Contexts(stack', ctx', fctx')
    BY <2>1, <2>2, <2>3, <1>c, LandKeeps, Zenon
  <2>5. Len(stack') <= MaxDepth
    BY <2>2, <2>3, Zenon DEF Landed
  <2>6. Transfers(pend', argtls', rettls')
    BY <2>1, <2>2, LandTransfers, Zenon
  <2>7. ArgumentsOfThisCall' /\ ResultOfThisCall'
    BY <2>1, LoadFacts, LoadKeeps, Zenon
  <2> QED
    BY <2>4, <2>5, <2>6, <2>7, Zenon DEF CallsInv
<1>9. ASSUME NEW k \in 1 .. Len(stack) - 1, Resume(k)
      PROVE  CallsInv'
  <2> DEFINE n == Len(stack) - 1
             s == SubSeq(stack, 1, Len(stack) - 1)
  <2>1. /\ Top.how = "prog" /\ stack[k].how = "prog" /\ Land(k, n) /\ LoadsNothing
        /\ ctx' = Top.ctx /\ fctx' = Top.fctx
        /\ UNCHANGED <<argtls, rettls>>
    BY <1>9 DEF Resume, Leave, Recovered
  <2>2. k \in 1 .. Len(stack) /\ k \in 1 .. n /\ n \in 1 .. Len(stack) /\ Len(stack) > 1 /\ n \in Nat /\ k <= MaxDepth
    BY <1>t, LabelAssumption
  <2>3. Contexts(s, ctx', fctx')
    BY <2>1, <2>2, <1>c, PopKeeps, Zenon DEF Top
  <2>4. Len(s) = n /\ \A i \in 1 .. n : s[i] = stack[i]
    BY <2>2, <1>t
  <2> HIDE DEF s, n
  <2>5. /\ Landed(stack, k, stack')
        /\ stack'[k].jumped = "no" => stack[k].jumped = "no" /\ \A i \in k + 1 .. n : stack[i].how = "lib"
        /\ stack'[k].jumped # "apart" =>
             stack[k].jumped # "apart" /\ \A i \in k + 1 .. n : stack[i].how # "wrap" /\ stack[i].jumped # "apart"
    BY <2>1, <2>2, <1>c, LandLands, Zenon
  <2>6. \A i \in k + 1 .. n : s[i] = stack[i]
    BY <2>2, <2>4
  <2>7. Landed(s, k, stack')
    BY <2>2, <2>4, <2>5 DEF Landed
  <2>8. Contexts(stack', ctx', fctx')
    <3>1. /\ stack'[k].jumped = "no" => s[k].jumped = "no" /\ \A i \in k + 1 .. n : s[i].how = "lib"
          /\ stack'[k].jumped # "apart" =>
               s[k].jumped # "apart" /\ \A i \in k + 1 .. n : s[i].how # "wrap" /\ s[i].jumped # "apart"
      BY <2>2, <2>4, <2>5, <2>6, Zenon
    <3>2. k \in 1 .. Len(s) /\ s[k].how = "prog"
      BY <2>1, <2>2, <2>4, Zenon
    <3> QED
      BY <2>3, <2>4, <2>7, <3>1, <3>2, LandKeeps, Zenon
  <2>9. Len(stack') <= MaxDepth
    BY <2>2, <2>5, Zenon DEF Landed
  <2>10. Transfers(pend', argtls', rettls')
    BY <2>1, <2>2, LandTransfers, Zenon
  <2>11. ArgumentsOfThisCall' /\ ResultOfThisCall'
    BY <2>1, LoadFacts, LoadKeeps, Zenon
  <2> QED
    BY <2>8, <2>9, <2>10, <2>11, Zenon DEF CallsInv
<1>10. CASE UNCHANGED callsVars
  <2>1. UNCHANGED <<stack, argtls, rettls, ctx, fctx, pend, loaded>>
    BY <1>10 DEF callsVars
  <2> QED
    BY <2>1, Zenon DEF CallsInv, ArgumentsOfThisCall, ResultOfThisCall
<1> QED
  BY <1>1, <1>2, <1>3, <1>4, <1>5, <1>6, <1>7, <1>8, <1>9, <1>10, EnterInv, TakeInv, ReturnLibInv, Zenon DEF CallsNext

-----------------------------------------------------------------------------
(* Every frame has saved the context of its caller, and every pending      *)
(* transfer finds its label, for calls, callbacks, signals, exceptions and *)
(* longjmps in any order and to any depth.                                 *)
THEOREM CallsInvariance == CallsSpec => []CallsInv
  BY CallsInitInv, CallsStepInv, PTL DEF CallsSpec

(* visitCallSite and the trampolines: a function that loads a label from   *)
(* __dfsan_arg_tls finds that of its own argument, whatever calls,         *)
(* callbacks and jumps came before, at any depth, and whatever handlers    *)
(* run between the store and the load, if they make no call that stores.   *)
THEOREM ArgumentsHold == CallsSpec => []ArgumentsOfThisCall
<1>1. CallsInv => ArgumentsOfThisCall
  BY DEF CallsInv
<1> QED
  BY <1>1, CallsInvariance, PTL

(* visitReturnInst: the label loaded from __dfsan_retval_tls after a call  *)
(* of an instrumented function is the one it stored, also when handlers    *)
(* run in between, if no function that they call returns a value.          *)
THEOREM ResultHolds == CallsSpec => []ResultOfThisCall
<1>1. CallsInv => ResultOfThisCall
  BY DEF CallsInv
<1> QED
  BY <1>1, CallsInvariance, PTL

(* Path, as the invariant has it. *)
LEMMA PathIsOdd ==
  ASSUME CallsInv, NEW hows
  PROVE  PathOf(hows) = Odd(stack, Len(stack), hows)
<1>1. DOMAIN stack = 1 .. Len(stack)
  BY DEF CallsInv, Contexts, Frames
<1> QED
  BY <1>1, Zenon DEF PathOf, Odd, On

(* addContextRecording: unless a jump ended in a frame of the stack, the   *)
(* context of a branch is that of its path, at any depth of recursion.     *)
THEOREM ContextIsPathHolds == CallsSpec => []ContextIsPath
<1>1. ASSUME CallsInv PROVE ContextIsPath
  <2>0. Frames(stack)
    BY <1>1, Zenon DEF CallsInv, Contexts
  <2>1. DOMAIN stack = 1 .. Len(stack)
    BY <2>0 DEF Frames
  <2>2. Calm(stack, Len(stack)) => fctx = Odd(stack, Len(stack), {"prog"})
    BY <1>1, Zenon DEF CallsInv, Contexts, Now
  <2> QED
    BY <1>1, <2>1, <2>2, PathIsOdd, Zenon DEF ContextIsPath, Calm
<1> QED
  BY <1>1, CallsInvariance, PTL

(* The tracked and the fast binary number a branch in the same context,    *)
(* but for the dfsw$ functions on the stack; jumps that pass none of them  *)
(* do not part the two.                                                    *)
THEOREM ContextsAgreeHolds == CallsSpec => []ContextsAgree
<1>1. ASSUME CallsInv PROVE ContextsAgree
  <2>0. Frames(stack)
    BY <1>1, Zenon DEF CallsInv, Contexts
  <2>1. DOMAIN stack = 1 .. Len(stack)
    BY <2>0 DEF Frames
  <2>2. Joined(stack, Len(stack)) => ctx = Xor(fctx, Odd(stack, Len(stack), {"wrap"}))
    BY <1>1, Zenon DEF CallsInv, Contexts, Now
  <2> QED
    BY <1>1, <2>1, <2>2, PathIsOdd, Zenon DEF ContextsAgree, Joined
<1> QED
  BY <1>1, CallsInvariance, PTL
=============================================================================
