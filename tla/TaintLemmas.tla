---------------------------- MODULE TaintLemmas -----------------------------
(***************************************************************************)
(* Lemmas about the operators of Taint: the bytes of a value, the label    *)
(* table, and the label that __taint_union_load makes of the labels of     *)
(* bytes.  They speak of any table that is well formed, and are used for   *)
(* every state of the program in TaintProofs.                              *)
(***************************************************************************)
EXTENDS Taint, TLAPS

(* More time than the provers take by default. *)
USE SMTT(30), ZenonT(30)

-----------------------------------------------------------------------------
(* Numbers.  The provers do not do induction: the least element of a set   *)
(* of counterexamples stands in for it, and UpTo is the form in which it   *)
(* is used.                                                                *)

LOCAL INSTANCE WellFoundedInduction

(* A set of numbers that is not empty has a least element. *)
LEMMA Least ==
  ASSUME NEW T \in SUBSET Nat, T # {}
  PROVE  \E m \in T : \A k \in T : m <= k
<1> DEFINE R == OpToRel(<, Nat)
<1>1. IsWellFoundedOn(R, Nat)
  BY NatLessThanWellFounded, Zenon
<1>2. \A k, m \in Nat : <<k, m>> \in R <=> k < m
  BY Zenon DEF OpToRel
<1> HIDE DEF R
<1>3. PICK m \in T : \A k \in T : ~ (<<k, m>> \in R)
  BY <1>1, WFMin, Zenon
<1>4. \A k \in T : k \in Nat /\ m \in Nat
  BY Zenon
<1>5. \A k \in T : ~ (k < m)
  BY <1>2, <1>3, <1>4, Zenon
<1> QED
  BY <1>4, <1>5

(* Induction up to n, with a set for the property. *)
LEMMA UpTo ==
  ASSUME NEW T, NEW b \in Nat, NEW n \in Nat, b \in T,
         \A k \in b .. n - 1 : k \in T => k + 1 \in T
  PROVE  \A k \in b .. n : k \in T
<1> SUFFICES ASSUME NEW j \in b .. n, j \notin T PROVE FALSE
  BY Zenon
<1> DEFINE F == {k \in b .. n : k \notin T}
<1>1. F \in SUBSET Nat /\ F # {}
  OBVIOUS
<1>2. PICK m \in F : \A k \in F : m <= k
  BY <1>1, Least, Zenon
<1>3. m \in b + 1 .. n
  BY <1>2
<1>4. m - 1 \in b .. n - 1 /\ m - 1 + 1 = m /\ m - 1 \in b .. n /\ ~ (m <= m - 1)
  BY <1>3
<1>5. m - 1 \in T
  BY <1>2, <1>4, Zenon
<1> QED
  BY <1>2, <1>4, <1>5, Zenon

(* A label of a table is not the label of a constant. *)
LEMMA NotZero == ASSUME NEW n, NEW l \in 1 .. n PROVE l # 0
  OBVIOUS

-----------------------------------------------------------------------------
(* Division with remainder is unique. *)
LEMMA DivMod ==
  ASSUME NEW a \in Int, NEW b \in Nat \ {0}
  PROVE  /\ a \div b \in Int /\ a % b \in 0 .. b - 1
         /\ a = b * (a \div b) + (a % b)
         /\ a \in Nat => a \div b \in Nat
OBVIOUS

(* Only one quotient and one remainder fit. *)
LEMMA DivUnique ==
  ASSUME NEW b \in Nat \ {0}, NEW q \in Int, NEW r \in 0 .. b - 1
  PROVE  (b * q + r) \div b = q /\ (b * q + r) % b = r
OBVIOUS

(* The assumption on powers, in the form used below. *)
LEMMA Pow ==
  /\ Base^0 = 1
  /\ \A k \in 0 .. Cells : Base^k \in Nat \ {0}
  /\ \A k \in 1 .. Cells : Base^k = Base * Base^(k - 1)
<1> USE SizeAssumption, PowAssumption
<1>1. \A k \in 1 .. Cells : k - 1 \in 0 .. Cells - 1 /\ k - 1 + 1 = k
  OBVIOUS
<1>2. \A k \in 1 .. Cells : Base^k = Base * Base^(k - 1) /\ Base^(k - 1) \in Nat \ {0}
  BY <1>1, Zenon
<1>3. \A p \in Nat \ {0} : Base * p \in Nat \ {0}
  OBVIOUS
<1>4. \A k \in 1 .. Cells : Base^k \in Nat \ {0}
  BY <1>2, <1>3, Zenon
<1> QED
  BY <1>2, <1>4

-----------------------------------------------------------------------------
(* Number, which adds up the bytes of a value, is a recursive function;    *)
(* there is one, and it satisfies its equation.                            *)

(* f is the function of partial sums that Number defines. *)
IsNumber(f, d, n) == f = [i \in 0 .. n |-> IF i = 0 THEN 0 ELSE f[i - 1] + d[i] * Base^(i - 1)]

(* There is such a function, and Number is its last value. *)
LEMMA NumberFunction ==
  ASSUME NEW d, NEW n \in Nat
  PROVE  /\ \E f : IsNumber(f, d, n)
         /\ Number(d, n) = (CHOOSE f : IsNumber(f, d, n))[n]
<1> DEFINE T == {k \in Nat : \E f : IsNumber(f, d, k)}
<1>1. 0 \in T
  <2> DEFINE g == [i \in 0 .. 0 |-> 0]
  <2>1. IsNumber(g, d, 0)
    BY DEF IsNumber
  <2> QED
    BY <2>1, Zenon
<1>2. ASSUME NEW k \in 0 .. n - 1, k \in T PROVE k + 1 \in T
  <2>1. PICK f : IsNumber(f, d, k)
    BY <1>2, Zenon
  <2> DEFINE g == [i \in 0 .. k + 1 |-> IF i = k + 1 THEN f[k] + d[k + 1] * Base^k ELSE f[i]]
  <2>2. \A i \in 0 .. k : f[i] = IF i = 0 THEN 0 ELSE f[i - 1] + d[i] * Base^(i - 1)
    BY <2>1, Zenon DEF IsNumber
  <2>3. \A i \in 0 .. k : g[i] = f[i]
    OBVIOUS
  <2>4. g[k + 1] = f[k] + d[k + 1] * Base^(k + 1 - 1) /\ k + 1 - 1 = k
    OBVIOUS
  <2>5. \A i \in 0 .. k + 1 : g[i] = IF i = 0 THEN 0 ELSE g[i - 1] + d[i] * Base^(i - 1)
    <3> SUFFICES ASSUME NEW i \in 0 .. k + 1
                 PROVE  g[i] = IF i = 0 THEN 0 ELSE g[i - 1] + d[i] * Base^(i - 1)
      BY Zenon
    <3> HIDE DEF g
    <3>1. CASE i = k + 1
      BY <3>1, <2>3, <2>4
    <3>2. CASE i # k + 1
      <4>1. i \in 0 .. k /\ (i # 0 => i - 1 \in 0 .. k)
        BY <3>2
      <4> QED
        BY <4>1, <2>2, <2>3, Zenon
    <3> QED
      BY <3>1, <3>2, Zenon
  <2>6. g = [i \in 0 .. k + 1 |-> g[i]]
    BY Zenon
  <2>7. IsNumber(g, d, k + 1)
    <3> HIDE DEF g
    <3> QED
      BY <2>5, <2>6, Zenon DEF IsNumber
  <2> QED
    BY <2>7
<1>3. n \in T
  <2> HIDE DEF T
  <2>1. \A k \in 0 .. n : k \in T
    BY <1>1, <1>2, UpTo, Zenon
  <2> QED
    BY <2>1
<1> QED
  BY <1>3, Zenon DEF Number, IsNumber

(* The equations of Number. *)
LEMMA NumberRec ==
  ASSUME NEW d
  PROVE  /\ Number(d, 0) = 0
         /\ \A n \in Nat \ {0} : Number(d, n) = Number(d, n - 1) + d[n] * Base^(n - 1)
<1> DEFINE F(n) == CHOOSE f : IsNumber(f, d, n)
<1>1. \A n \in Nat : IsNumber(F(n), d, n) /\ Number(d, n) = F(n)[n]
  <2> SUFFICES ASSUME NEW n \in Nat PROVE IsNumber(F(n), d, n) /\ Number(d, n) = F(n)[n]
    BY Zenon
  <2>1. (\E f : IsNumber(f, d, n)) /\ Number(d, n) = F(n)[n]
    BY NumberFunction, Zenon
  <2> QED
    BY <2>1, Zenon
<1> HIDE DEF F
<1>2. \A n \in Nat : \A i \in 0 .. n : F(n)[i] = IF i = 0 THEN 0 ELSE F(n)[i - 1] + d[i] * Base^(i - 1)
  BY <1>1, Zenon DEF IsNumber
<1>3. ASSUME NEW n \in Nat \ {0} PROVE F(n)[n - 1] = F(n - 1)[n - 1]
  <2> DEFINE T == {k \in 0 .. n - 1 : F(n)[k] = F(n - 1)[k]}
  <2>1. 0 \in T
    BY <1>2
  <2>2. ASSUME NEW k \in 0 .. n - 1 - 1, k \in T PROVE k + 1 \in T
    <3>1. k + 1 \in 0 .. n /\ k + 1 \in 0 .. n - 1 /\ k + 1 # 0 /\ k + 1 - 1 = k /\ n \in Nat /\ n - 1 \in Nat
      OBVIOUS
    <3>2. F(n)[k + 1] = F(n)[k] + d[k + 1] * Base^k
      BY <3>1, <1>2
    <3>3. F(n - 1)[k + 1] = F(n - 1)[k] + d[k + 1] * Base^k
      BY <3>1, <1>2
    <3> QED
      BY <3>1, <3>2, <3>3, <2>2, Zenon
  <2> HIDE DEF T
  <2>3. \A k \in 0 .. n - 1 : k \in T
    BY <2>1, <2>2, UpTo
  <2>4. n - 1 \in T
    BY <2>3
  <2> QED
    BY <2>4, Zenon DEF T
<1>4. Number(d, 0) = 0
  BY <1>1, <1>2
<1>5. ASSUME NEW n \in Nat \ {0} PROVE Number(d, n) = Number(d, n - 1) + d[n] * Base^(n - 1)
  <2>1. n \in Nat /\ n - 1 \in Nat /\ n \in 0 .. n /\ n # 0
    OBVIOUS
  <2>2. F(n)[n] = F(n)[n - 1] + d[n] * Base^(n - 1)
    BY <2>1, <1>2, Zenon
  <2> QED
    BY <2>1, <2>2, <1>1, <1>3, Zenon
<1> QED
  BY <1>4, <1>5, Zenon

-----------------------------------------------------------------------------
(* Bytes and values: a value below Base^n has n digits, they make it up,   *)
(* and they are what it was made of.                                       *)

(* The next power, and what a digit adds. *)
LEMMA NextPow ==
  ASSUME NEW n \in 1 .. Cells
  PROVE  /\ Base \in Nat \ {0, 1} /\ n \in Nat \ {0} /\ n - 1 \in 0 .. Cells /\ n \in 0 .. Cells
         /\ Base^n \in Nat \ {0} /\ Base^(n - 1) \in Nat \ {0}
         /\ Base^n = Base * Base^(n - 1)
<1>1. n - 1 \in 0 .. Cells /\ n \in 0 .. Cells /\ n \in Nat \ {0}
  BY SizeAssumption
<1> QED
  BY <1>1, Pow, SizeAssumption, Zenon

(* A digit in front of a number below p is below b * p. *)
LEMMA DigitBound ==
  ASSUME NEW b \in Nat \ {0}, NEW p \in Nat \ {0}, NEW s \in 0 .. p - 1, NEW c \in 0 .. b - 1
  PROVE  s + c * p \in 0 .. b * p - 1
<1>1. c * p <= (b - 1) * p /\ c * p >= 0
  OBVIOUS
<1>2. (b - 1) * p = b * p - p
  OBVIOUS
<1>3. c * p \in Int /\ b * p \in Int
  OBVIOUS
<1> QED
  BY <1>1, <1>2, <1>3

(* A number of k digits is below Base^k. *)
LEMMA NumberRange ==
  ASSUME NEW n \in 0 .. Cells, NEW d, \A i \in 1 .. n : d[i] \in 0 .. Base - 1
  PROVE  \A k \in 0 .. n : Number(d, k) \in 0 .. Base^k - 1
<1> DEFINE T == {k \in 0 .. n : Number(d, k) \in 0 .. Base^k - 1}
<1>0. n \in Nat /\ Cells \in Nat
  BY SizeAssumption
<1>1. 0 \in T
  BY <1>0, NumberRec, Pow
<1>2. ASSUME NEW k \in 0 .. n - 1, k \in T PROVE k + 1 \in T
  <2>1. k + 1 \in 1 .. Cells /\ k + 1 \in 1 .. n /\ k + 1 - 1 = k /\ k + 1 \in Nat \ {0}
    BY <1>0
  <2>2. Number(d, k + 1) = Number(d, k) + d[k + 1] * Base^k
    BY <2>1, NumberRec
  <2>3. Base^(k + 1) = Base * Base^k /\ Base^k \in Nat \ {0} /\ Base \in Nat \ {0}
    BY <2>1, NextPow
  <2>4. Number(d, k) + d[k + 1] * Base^k \in 0 .. Base * Base^k - 1
    BY <1>2, <2>1, <2>3, DigitBound, Zenon
  <2> QED
    BY <2>1, <2>2, <2>3, <2>4
<1> HIDE DEF T
<1>3. \A k \in 0 .. n : k \in T
  BY <1>0, <1>1, <1>2, UpTo, Zenon
<1> QED
  BY <1>3, Zenon DEF T

(* A power divides the higher ones. *)
LEMMA PowDivides ==
  ASSUME NEW i \in 1 .. Cells
  PROVE  \A m \in i .. Cells : \E c \in Nat : Base^m = Base^i * c
<1> DEFINE T == {m \in i .. Cells : \E c \in Nat : Base^m = Base^i * c}
<1>0. i \in Nat /\ Cells \in Nat /\ Base^i \in Nat
  BY SizeAssumption, NextPow, Zenon
<1>1. i \in T
  <2>1. Base^i = Base^i * 1
    BY <1>0
  <2> QED
    BY <2>1, <1>0
<1>2. ASSUME NEW m \in i .. Cells - 1, m \in T PROVE m + 1 \in T
  <2>1. PICK c \in Nat : Base^m = Base^i * c
    BY <1>2, Zenon
  <2>2. m + 1 \in 1 .. Cells /\ m + 1 - 1 = m /\ m + 1 \in i .. Cells
    BY <1>0
  <2>3. Base^(m + 1) = Base * Base^m /\ Base \in Nat
    BY <2>2, NextPow
  <2>4. Base * (Base^i * c) = Base^i * (Base * c) /\ Base * c \in Nat
    <3>1. \A p, q, r \in Nat : p * (q * r) = q * (p * r) /\ p * r \in Nat
      OBVIOUS
    <3> QED
      BY <3>1, <2>3, <1>0, Zenon
  <2>5. Base^(m + 1) = Base^i * (Base * c)
    BY <2>1, <2>3, <2>4, Zenon
  <2> QED
    BY <2>2, <2>4, <2>5, Zenon
<1> HIDE DEF T
<1>3. \A m \in i .. Cells : m \in T
  BY <1>0, <1>1, <1>2, UpTo, Zenon
<1> QED
  BY <1>3, Zenon DEF T

(* A digit of a number is the digit it was made of. *)
LEMMA NumberDigit ==
  ASSUME NEW n \in 1 .. Cells, NEW d, \A i \in 1 .. n : d[i] \in 0 .. Base - 1, NEW i \in 1 .. n
  PROVE  (Number(d, n) \div Base^(i - 1)) % Base = d[i]
<1> DEFINE p == Base^(i - 1)
           T == {m \in i .. n : \E c \in Nat : Number(d, m) = p * (Base * c + d[i]) + Number(d, i - 1)}
<1>0. n \in 0 .. Cells /\ n \in Nat /\ Cells \in Nat /\ i \in 1 .. Cells /\ i \in Nat \ {0} /\ i - 1 \in 0 .. n
  BY SizeAssumption
<1>1. Base \in Nat \ {0, 1} /\ p \in Nat \ {0} /\ Base^i = Base * p /\ d[i] \in 0 .. Base - 1
  BY <1>0, NextPow, Zenon
<1>2. Number(d, i - 1) \in 0 .. p - 1
  BY <1>0, NumberRange, Zenon
<1>3. i \in T
  <2>1. Number(d, i) = Number(d, i - 1) + d[i] * p
    BY <1>0, NumberRec, Zenon
  <2>2. p * (Base * 0 + d[i]) = d[i] * p /\ d[i] * p \in Int
    BY <1>1
  <2>3. Number(d, i) = p * (Base * 0 + d[i]) + Number(d, i - 1)
    BY <2>1, <2>2, <1>2
  <2> QED
    BY <2>3, <1>0
<1>4. ASSUME NEW m \in i .. n - 1, m \in T PROVE m + 1 \in T
  <2>1. PICK c \in Nat : Number(d, m) = p * (Base * c + d[i]) + Number(d, i - 1)
    BY <1>4, Zenon
  <2>2. m \in i .. Cells /\ m + 1 \in i .. n /\ m + 1 \in 1 .. n /\ m + 1 \in Nat \ {0} /\ m + 1 - 1 = m
    BY <1>0
  <2>3. PICK e \in Nat : Base^m = Base^i * e
    BY <1>0, <2>2, PowDivides, Zenon
  <2>4. Number(d, m + 1) = Number(d, m) + d[m + 1] * Base^m /\ d[m + 1] \in Nat
    BY <2>2, <1>1, NumberRec
  <2>5. c + d[m + 1] * e \in Nat
    BY <2>4
  <2>6. \A b, q, f, g, h, r, s \in Nat :
          q * (b * f + s) + r + h * (b * q * g) = q * (b * (f + h * g) + s) + r
    OBVIOUS
  <2>7. Number(d, m + 1) = p * (Base * (c + d[m + 1] * e) + d[i]) + Number(d, i - 1)
    <3>1. Number(d, m + 1) = p * (Base * c + d[i]) + Number(d, i - 1) + d[m + 1] * (Base * p * e)
      BY <2>1, <2>3, <2>4, <1>1, Zenon
    <3>2. Base \in Nat /\ p \in Nat /\ d[i] \in Nat /\ Number(d, i - 1) \in Nat
      BY <1>1, <1>2
    <3> HIDE DEF p
    <3> QED
      BY <3>1, <3>2, <2>4, <2>6
  <2> QED
    BY <2>2, <2>5, <2>7, Zenon
<1> HIDE DEF T
<1>5. n \in T
  <2>1. \A m \in i .. n : m \in T
    BY <1>0, <1>3, <1>4, UpTo, Zenon
  <2> QED
    BY <2>1
<1>6. PICK c \in Nat : Number(d, n) = p * (Base * c + d[i]) + Number(d, i - 1)
  BY <1>5, Zenon DEF T
<1>7. Base * c + d[i] \in Int /\ c \in Int /\ Base \in Nat \ {0}
  BY <1>1
<1>8. Number(d, n) \div p = Base * c + d[i]
  <2>1. (p * (Base * c + d[i]) + Number(d, i - 1)) \div p = Base * c + d[i]
    <3> HIDE DEF p
    <3> QED
      BY <1>1, <1>2, <1>7, DivUnique, ZenonT(30)
  <2> QED
    BY <2>1, <1>6, Zenon
<1>9. (Base * c + d[i]) % Base = d[i]
  BY <1>1, <1>7, DivUnique, Zenon
<1> QED
  BY <1>8, <1>9, Zenon

(* The digits of a value make up the value. *)
LEMMA DigitsNumber ==
  ASSUME NEW n \in 0 .. Cells, NEW v \in 0 .. Base^n - 1, NEW d,
         \A i \in 1 .. n : d[i] = (v \div Base^(i - 1)) % Base
  PROVE  Number(d, n) = v
<1> DEFINE T == {k \in 0 .. n : \E q \in Nat : v = Base^k * q + Number(d, k)}
<1>0. n \in Nat /\ Cells \in Nat /\ v \in Nat /\ Base^n \in Nat \ {0} /\ Base \in Nat \ {0, 1}
  BY SizeAssumption, Pow
<1>1. ASSUME NEW i \in 1 .. n PROVE d[i] \in 0 .. Base - 1
  <2>1. i \in 1 .. Cells
    BY <1>0
  <2>2. Base^(i - 1) \in Nat \ {0} /\ v \in Int /\ Base \in Nat \ {0}
    <3>1. Base^(i - 1) \in Nat \ {0}
      BY <2>1, NextPow, Zenon
    <3> QED
      BY <1>0, <3>1
  <2>3. v \div Base^(i - 1) \in Int
    BY <2>2, DivMod, Zenon
  <2>4. (v \div Base^(i - 1)) % Base \in 0 .. Base - 1
    BY <2>2, <2>3, DivMod, Zenon
  <2> QED
    BY <2>4, Zenon
<1>2. \A k \in 0 .. n : Number(d, k) \in 0 .. Base^k - 1
  BY <1>1, NumberRange, Zenon
<1>3. 0 \in T
  <2>1. v = Base^0 * v + Number(d, 0)
    BY <1>0, Pow, NumberRec
  <2> QED
    BY <2>1, <1>0
<1>4. ASSUME NEW k \in 0 .. n - 1, k \in T PROVE k + 1 \in T
  <2>1. PICK q \in Nat : v = Base^k * q + Number(d, k)
    BY <1>4, Zenon
  <2>2. k + 1 \in 1 .. Cells /\ k + 1 \in 1 .. n /\ k + 1 - 1 = k /\ k + 1 \in Nat \ {0} /\ k \in 0 .. n
    BY <1>0
  <2>3. Base^k \in Nat \ {0} /\ Base^(k + 1) = Base * Base^k
    BY <2>2, NextPow
  <2>4. v \div Base^k = q
    <3>1. Number(d, k) \in 0 .. Base^k - 1 /\ q \in Int
      BY <2>2, <1>2
    <3>2. (Base^k * q + Number(d, k)) \div Base^k = q
      BY <3>1, <2>3, DivUnique, Zenon
    <3> QED
      BY <3>2, <2>1, Zenon
  <2>5. d[k + 1] = q % Base
    BY <2>2, <2>4
  <2>6. q = Base * (q \div Base) + d[k + 1] /\ q \div Base \in Nat
    <3>1. q \in Int /\ Base \in Nat \ {0}
      BY <1>0
    <3>2. q = Base * (q \div Base) + (q % Base) /\ q \div Base \in Nat
      BY <3>1, DivMod, Zenon
    <3> QED
      BY <3>2, <2>5, Zenon
  <2>7. Number(d, k + 1) = Number(d, k) + d[k + 1] * Base^k
    BY <2>2, NumberRec
  <2>8. \A b, p, e, c, s \in Nat : p * (b * e + c) + s = b * p * e + (s + c * p)
    OBVIOUS
  <2>9. v = Base^(k + 1) * (q \div Base) + Number(d, k + 1)
    <3>1. v = Base^k * (Base * (q \div Base) + d[k + 1]) + Number(d, k)
      BY <2>1, <2>6, Zenon
    <3>2. Base \in Nat /\ Base^k \in Nat /\ q \div Base \in Nat /\ d[k + 1] \in Nat /\ Number(d, k) \in Nat
      BY <1>0, <1>1, <1>2, <2>2, <2>3, <2>6
    <3>3. v = Base * Base^k * (q \div Base) + (Number(d, k) + d[k + 1] * Base^k)
      <4> DEFINE e == q \div Base
                 p == Base^k
                 s == Number(d, k)
                 c == d[k + 1]
      <4>1. v = p * (Base * e + c) + s /\ Base \in Nat /\ p \in Nat /\ e \in Nat /\ c \in Nat /\ s \in Nat
        BY <3>1, <3>2, Zenon
      <4> HIDE DEF e, p, s, c
      <4>2. v = Base * p * e + (s + c * p)
        BY <4>1, <2>8
      <4> QED
        BY <4>2, Zenon DEF e, p, s, c
    <3> QED
      BY <3>3, <2>3, <2>7, Zenon
  <2> QED
    BY <2>2, <2>6, <2>9
<1> HIDE DEF T
<1>5. n \in T
  <2>1. \A k \in 0 .. n : k \in T
    BY <1>0, <1>3, <1>4, UpTo, Zenon
  <2> QED
    BY <2>1, <1>0
<1>6. PICK q \in Nat : v = Base^n * q + Number(d, n)
  BY <1>5, Zenon DEF T
<1>7. Number(d, n) \in Nat
  BY <1>0, <1>2
<1>8. q = 0
  <2>1. \A p \in Nat \ {0}, r \in Nat \ {0}, s \in Nat : p * r + s >= p
    OBVIOUS
  <2> QED
    BY <2>1, <1>0, <1>6, <1>7
<1> QED
  BY <1>0, <1>6, <1>7, <1>8

-----------------------------------------------------------------------------
(* The label table.  A table is well formed when the file's bytes have the *)
(* first labels, every other entry has operands made before it, is normal, *)
(* and is there once, and val is what serialize makes of the entries.  It  *)
(* is typed when a value fits the size of its entry and a Load stays       *)
(* within the file.                                                        *)

(* The entry e may be in the table t as label k. *)
Fits(t, e, k) ==
  /\ e \in InfoRec /\ e.op # "Read" /\ e.l1 < k
  /\ IF e.op = "Load" THEN e.l2 = e.size /\ e.size > 1 ELSE e.l2 < k
  /\ e.l1 # 0 \/ e.l2 # 0
  /\ e.l1 # 0 => e.op1 = 0
  /\ e.l2 # 0 => e.op2 = 0
  /\ is_commutative(e.op) => e.l1 <= e.l2
  /\ e.op = "Extract" => e.l1 # 0 /\ e.l2 = 0 /\ e.size = 1 /\ e.op2 < Cells /\ t.info[e.l1].size > 1

(* The table is well formed. *)
Wf(t) ==
  /\ t = [info |-> t.info, val |-> t.val]
  /\ t.info \in Seq(InfoRec) /\ Len(t.info) >= N
  /\ t.val = [k \in 1 .. Len(t.info) |-> t.val[k]]
  /\ \A k \in 1 .. N : t.info[k] = Raw(k - 1)
  /\ \A k \in N + 1 .. Len(t.info) : Fits(t, t.info[k], k)
  /\ \A k \in 1 .. Len(t.info) : t.val[k] = [x \in Inputs |-> Value(t, t.info[k], x)]
  /\ \A j, k \in N + 1 .. Len(t.info) : t.info[j] = t.info[k] => j = k

(* Values fit their sizes, and loads stay within the file. *)
Typed(t) ==
  \A k \in 1 .. Len(t.info) :
    /\ t.val[k] \in [Inputs -> 0 .. Base^(t.info[k].size) - 1]
    /\ t.info[k].op = "Load" => t.info[k].l1 # 0 /\ t.info[k].l1 + t.info[k].l2 - 1 <= N

(* u is t with further entries. *)
Grows(t, u) ==
  /\ Len(u.info) >= Len(t.info)
  /\ \A k \in 1 .. Len(t.info) : u.info[k] = t.info[k] /\ u.val[k] = t.val[k]

(* Append, for a sequence of which only domain and length are known. *)
LEMMA AppendAny ==
  ASSUME NEW s, NEW n \in Nat, s = [k \in 1 .. n |-> s[k]], NEW e
  PROVE  Append(s, e) = [k \in 1 .. n + 1 |-> IF k = n + 1 THEN e ELSE s[k]]
<1> DEFINE S == {s[k] : k \in 1 .. n}
<1>1. \A k \in 1 .. n : s[k] \in S
  BY Zenon
<1>2. s \in [1 .. n -> S]
  BY <1>1, Zenon
<1> HIDE DEF S
<1>3. s \in Seq(S) /\ Len(s) = n
  BY <1>2
<1> QED
  BY <1>3

(* What a new label changes. *)
LEMMA MakeTable ==
  ASSUME NEW t, Wf(t), NEW e \in InfoRec
  PROVE  /\ Make(t, e).l = Len(t.info) + 1
         /\ Make(t, e).t.info \in Seq(InfoRec)
         /\ Len(Make(t, e).t.info) = Len(t.info) + 1
         /\ Grows(t, Make(t, e).t)
         /\ Make(t, e).t = [info |-> Make(t, e).t.info, val |-> Make(t, e).t.val]
         /\ Make(t, e).t.val = [k \in 1 .. Len(t.info) + 1 |-> Make(t, e).t.val[k]]
         /\ Make(t, e).t.info[Len(t.info) + 1] = e
         /\ Make(t, e).t.val[Len(t.info) + 1] = [x \in Inputs |-> Value(t, e, x)]
<1> DEFINE n == Len(t.info)
           w == [x \in Inputs |-> Value(t, e, x)]
<1>1. t.info \in Seq(InfoRec) /\ n \in Nat /\ t.val = [k \in 1 .. n |-> t.val[k]]
  BY DEF Wf
<1>2. Make(t, e) = [t |-> [info |-> Append(t.info, e), val |-> Append(t.val, w)], l |-> n + 1]
  BY Zenon DEF Make
<1>3. Append(t.info, e) \in Seq(InfoRec) /\ Len(Append(t.info, e)) = n + 1
      /\ Append(t.info, e)[n + 1] = e /\ \A k \in 1 .. n : Append(t.info, e)[k] = t.info[k]
  BY <1>1
<1> HIDE DEF w
<1>4. Append(t.val, w) = [k \in 1 .. n + 1 |-> IF k = n + 1 THEN w ELSE t.val[k]]
  <2> HIDE DEF n
  <2> DEFINE s == t.val
  <2>1. s = [k \in 1 .. n |-> s[k]]
    BY <1>1, Zenon
  <2> HIDE DEF s
  <2>2. Append(s, w) = [k \in 1 .. n + 1 |-> IF k = n + 1 THEN w ELSE s[k]]
    BY <1>1, <2>1, AppendAny
  <2> QED
    BY <2>2, Zenon DEF s
<1>5. Append(t.val, w)[n + 1] = w /\ \A k \in 1 .. n : Append(t.val, w)[k] = t.val[k]
  BY <1>1, <1>4
<1>6. Append(t.val, w) = [k \in 1 .. n + 1 |-> Append(t.val, w)[k]]
  BY <1>4, Zenon
<1> DEFINE a == Append(t.info, e)
           b == Append(t.val, w)
<1>7. Make(t, e) = [t |-> [info |-> a, val |-> b], l |-> n + 1]
  BY <1>2, Zenon
<1>8. a \in Seq(InfoRec) /\ Len(a) = n + 1 /\ a[n + 1] = e /\ \A k \in 1 .. n : a[k] = t.info[k]
  BY <1>3, Zenon
<1>9. b[n + 1] = w /\ (\A k \in 1 .. n : b[k] = t.val[k]) /\ b = [k \in 1 .. n + 1 |-> b[k]]
  BY <1>5, <1>6, Zenon
<1> HIDE DEF a, b
<1>10. Make(t, e).t = [info |-> a, val |-> b] /\ Make(t, e).t.info = a /\ Make(t, e).t.val = b /\ Make(t, e).l = n + 1
  BY <1>7
<1>11. Grows(t, [info |-> a, val |-> b])
  <2>1. Len(a) >= n
    BY <1>1, <1>8
  <2>2. \A k \in 1 .. n : a[k] = t.info[k] /\ b[k] = t.val[k]
    BY Zenon, <1>8, <1>9
  <2> QED
    BY <2>1, <2>2, Zenon DEF Grows
<1> QED
  BY <1>8, <1>9, <1>10, <1>11, Zenon DEF w

(* Entries of the table, and what serialize makes of them, do not change. *)
LEMMA FitsMore ==
  ASSUME NEW t, NEW e, NEW j \in Nat, NEW k \in Nat, Fits(t, e, j), j <= k
  PROVE  Fits(t, e, k)
<1>1. e.l1 \in Nat /\ e.l2 \in Nat
  BY Zenon DEF Fits, InfoRec
<1> QED
  BY <1>1 DEF Fits

(* serialize gives the same in a table that has grown. *)
LEMMA ValueSame ==
  ASSUME NEW t, NEW u, Grows(t, u), Len(t.info) \in Nat, NEW e, Fits(t, e, Len(t.info) + 1)
  PROVE  \A x : Value(u, e, x) = Value(t, e, x)
<1> SUFFICES ASSUME NEW x PROVE Value(u, e, x) = Value(t, e, x)
  BY Zenon
<1>1. e.l1 \in Nat /\ e.l2 \in Nat /\ e.op \in {"Load", "Extract", "Concat", "Add", "Sub"}
  BY Zenon DEF Fits, InfoRec, Ops
<1>2. e.l1 # 0 => u.info[e.l1] = t.info[e.l1] /\ u.val[e.l1] = t.val[e.l1]
  BY <1>1 DEF Fits, Grows
<1>3. e.op # "Load" /\ e.l2 # 0 => u.info[e.l2] = t.info[e.l2] /\ u.val[e.l2] = t.val[e.l2]
  BY <1>1 DEF Fits, Grows
<1>4. e.l1 # 0 \/ e.l2 # 0
  BY Zenon DEF Fits
<1>5. e.op # "Load" => Left(u, e, x) = Left(t, e, x) /\ Right(u, e, x) = Right(t, e, x) /\ LeftSize(u, e) = LeftSize(t, e)
  BY <1>2, <1>3, <1>4, Zenon DEF Left, Right, LeftSize
<1>6. CASE e.op = "Load"
  <2>1. InfoIn(u, e.l1) = InfoIn(t, e.l1)
    BY <1>2, Zenon DEF InfoIn
  <2> QED
    BY <1>6, <2>1, Zenon DEF Value
<1>7. CASE e.op = "Extract"
  <2>1. e.l1 # 0
    BY <1>7, Zenon DEF Fits
  <2> QED
    BY <1>2, <1>7, <2>1, Zenon DEF Value
<1>8. CASE e.op = "Concat"
  BY <1>5, <1>8, Zenon DEF Value
<1>9. CASE e.op \in {"Add", "Sub"}
  BY <1>5, <1>9, Zenon DEF Value
<1> QED
  BY <1>1, <1>6, <1>7, <1>8, <1>9, Zenon

(* A new label for a fitting entry that is not there yet keeps the table   *)
(* well formed.                                                            *)
LEMMA MakeWf ==
  ASSUME NEW t, Wf(t), NEW e, Fits(t, e, Len(t.info) + 1), Lookup(t, e) = {}
  PROVE  Wf(Make(t, e).t)
<1> DEFINE n == Len(t.info)
           u == Make(t, e).t
<1>0. n \in Nat /\ n >= N /\ N \in Nat /\ N >= 1 /\ t.info \in Seq(InfoRec) /\ e \in InfoRec
  BY SizeAssumption DEF Wf, Fits
<1>1. /\ u.info \in Seq(InfoRec) /\ Len(u.info) = n + 1 /\ Grows(t, u)
      /\ u = [info |-> u.info, val |-> u.val] /\ u.val = [k \in 1 .. n + 1 |-> u.val[k]]
      /\ u.info[n + 1] = e /\ u.val[n + 1] = [x \in Inputs |-> Value(t, e, x)]
  BY <1>0, MakeTable
<1>2. \A k \in 1 .. n : u.info[k] = t.info[k] /\ u.val[k] = t.val[k]
  BY Zenon, <1>1 DEF Grows
<1> HIDE DEF u
<1>3. \A k \in 1 .. N : u.info[k] = Raw(k - 1)
  BY <1>0, <1>2 DEF Wf
<1>4. ASSUME NEW d, NEW k \in 1 .. n + 1, Fits(t, d, k) PROVE Fits(u, d, k)
  <2>1. d.l1 \in Nat /\ d.l1 < k
    BY <1>4, Zenon DEF Fits, InfoRec
  <2>2. d.l1 # 0 => u.info[d.l1] = t.info[d.l1]
    BY <1>0, <1>2, <2>1
  <2> QED
    BY <1>4, <2>2, Zenon DEF Fits
<1>5. ASSUME NEW k \in N + 1 .. n + 1 PROVE Fits(t, u.info[k], k)
  <2>1. CASE k = n + 1
    BY <1>1, <2>1, Zenon
  <2>2. CASE k # n + 1
    <3>1. k \in N + 1 .. n /\ k \in 1 .. n
      BY <1>0, <2>2
    <3> QED
      BY <1>2, <3>1, Zenon DEF Wf
  <2> QED
    BY <2>1, <2>2, Zenon
<1>6. \A k \in N + 1 .. n + 1 : Fits(u, u.info[k], k)
  BY <1>0, <1>4, <1>5
<1>7. ASSUME NEW k \in 1 .. n + 1 PROVE u.val[k] = [x \in Inputs |-> Value(u, u.info[k], x)]
  <2>1. u.val[k] = [x \in Inputs |-> Value(t, u.info[k], x)]
    <3>1. CASE k = n + 1
      BY <1>1, <3>1, Zenon
    <3>2. CASE k \in 1 .. n
      BY <1>2, <3>2 DEF Wf
    <3> QED
      BY <1>0, <3>1, <3>2
  <2>2. \A x : Value(u, u.info[k], x) = Value(t, u.info[k], x)
    <3>1. CASE k \in N + 1 .. n + 1
      <4>1. Fits(t, u.info[k], n + 1)
        BY <1>0, <1>5, <3>1, FitsMore
      <4> QED
        BY <1>0, <1>1, <4>1, ValueSame
    <3>2. CASE k \in 1 .. N
      <4>1. u.info[k] = Raw(k - 1)
        BY <1>3, <3>2, Zenon
      <4>2. u.info[k].op = "Read"
        BY <4>1 DEF Raw
      <4> QED
        BY <4>2, Zenon DEF Value
    <3> QED
      BY <1>0, <3>1, <3>2
  <2> QED
    BY <2>1, <2>2, Zenon
<1>8. ASSUME NEW j \in N + 1 .. n + 1, NEW k \in N + 1 .. n + 1, u.info[j] = u.info[k] PROVE j = k
  <2>1. \A i \in 1 .. n : t.info[i] # e
    BY Zenon DEF Lookup
  <2>2. CASE j \in N + 1 .. n /\ k \in N + 1 .. n
    <3>1. u.info[j] = t.info[j] /\ u.info[k] = t.info[k]
      BY <1>0, <1>2, <2>2
    <3> QED
      BY Zenon, <1>8, <2>2, <3>1 DEF Wf
  <2>3. ASSUME NEW i \in N + 1 .. n PROVE u.info[i] # u.info[n + 1]
    <3>1. i \in 1 .. n
      BY <1>0
    <3>2. u.info[i] = t.info[i] /\ t.info[i] # e
      BY <1>2, <2>1, <3>1, Zenon
    <3> QED
      BY <1>1, <3>2, Zenon
  <2> QED
    BY <1>0, <1>8, <2>2, <2>3
<1>9. Wf(u)
  <2>1. Len(u.info) >= N
    BY <1>0, <1>1
  <2>2. Len(u.info) = n + 1
    BY <1>1, Zenon
  <2>3. u.val = [k \in 1 .. Len(u.info) |-> u.val[k]]
    BY <1>1, <2>2, Zenon
  <2>4. \A k \in N + 1 .. Len(u.info) : Fits(u, u.info[k], k)
    BY <1>6, <2>2, Zenon
  <2>5. \A k \in 1 .. Len(u.info) : u.val[k] = [x \in Inputs |-> Value(u, u.info[k], x)]
    BY <1>7, <2>2, Zenon
  <2>6. \A j, k \in N + 1 .. Len(u.info) : u.info[j] = u.info[k] => j = k
    BY <1>8, <2>2, Zenon
  <2>7. u.info \in Seq(InfoRec) /\ u = [info |-> u.info, val |-> u.val]
    BY <1>1, Zenon
  <2> HIDE DEF n
  <2> QED
    BY <1>3, <2>1, <2>3, <2>4, <2>5, <2>6, <2>7 DEF Wf
<1> QED
  BY <1>9, Zenon DEF u

-----------------------------------------------------------------------------
(* __taint_union: the label it returns has the normal entry, in a table    *)
(* that is still well formed and has only grown.                           *)

(* u is what __taint_union makes of the table t for the entry e. *)
Made(t, u, e) ==
  /\ Wf(u.t) /\ Grows(t, u.t)
  /\ u.l \in 1 .. Len(u.t.info) /\ u.t.info[u.l] = e
  /\ u.t.val[u.l] = [x \in Inputs |-> Value(t, e, x)]
  /\ u = [t |-> u.t, l |-> u.l]

(* The entry e keeps a table typed. *)
TypedEntry(t, e) ==
  /\ \A x \in Inputs : Value(t, e, x) \in 0 .. Base^(e.size) - 1
  /\ e.op = "Load" => e.l1 # 0 /\ e.l1 + e.l2 - 1 <= N

(* Growing is transitive. *)
LEMMA GrowsTwice ==
  ASSUME NEW t, NEW u, NEW w, Grows(t, u), Grows(u, w),
         Len(t.info) \in Nat, Len(u.info) \in Nat, Len(w.info) \in Nat
  PROVE  Grows(t, w)
<1>1. \A k \in 1 .. Len(t.info) : k \in 1 .. Len(u.info)
  BY DEF Grows
<1>2. Len(w.info) >= Len(t.info)
  BY DEF Grows
<1> QED
  BY <1>1, <1>2, Zenon DEF Grows

(* The length of a table. *)
LEMMA WfLen ==
  ASSUME NEW t, Wf(t)
  PROVE  Len(t.info) \in Nat /\ Len(t.info) >= N /\ N \in Nat \ {0} /\ Grows(t, t)
<1>1. t.info \in Seq(InfoRec) /\ Len(t.info) >= N /\ N \in Nat \ {0}
  BY SizeAssumption, Zenon DEF Wf
<1>2. Len(t.info) \in Nat
  BY <1>1
<1> QED
  BY <1>1, <1>2 DEF Grows

(* __taint_union returns a label with the normal entry. *)
LEMMA UnionMade ==
  ASSUME NEW t, Wf(t), NEW l1, NEW l2, NEW op, NEW size, NEW op1, NEW op2, l1 # 0 \/ l2 # 0,
         Fits(t, Normal(l1, l2, op, size, op1, op2), Len(t.info) + 1)
  PROVE  /\ Made(t, Union(t, l1, l2, op, size, op1, op2), Normal(l1, l2, op, size, op1, op2))
         /\ \/ Union(t, l1, l2, op, size, op1, op2).t = t
            \/ /\ Union(t, l1, l2, op, size, op1, op2).t = Make(t, Normal(l1, l2, op, size, op1, op2)).t
               /\ Lookup(t, Normal(l1, l2, op, size, op1, op2)) = {}
<1> DEFINE e == Normal(l1, l2, op, size, op1, op2)
           u == Union(t, l1, l2, op, size, op1, op2)
<1>1. u = IF Lookup(t, e) # {} THEN [t |-> t, l |-> CHOOSE l \in Lookup(t, e) : TRUE] ELSE Make(t, e)
  BY Zenon DEF Union
<1>2. Fits(t, e, Len(t.info) + 1) /\ e \in InfoRec
  BY Zenon DEF Fits
<1> HIDE DEF e, u
<1>3. CASE Lookup(t, e) # {}
  <2> DEFINE l == CHOOSE l \in Lookup(t, e) : TRUE
  <2>1. l \in Lookup(t, e)
    BY <1>3, Zenon
  <2>2. u = [t |-> t, l |-> l]
    BY <1>1, <1>3, Zenon
  <2>3. l \in 1 .. Len(t.info) /\ t.info[l] = e
    BY <2>1, Zenon DEF Lookup
  <2>4. t.val[l] = [x \in Inputs |-> Value(t, e, x)]
    BY <2>3 DEF Wf
  <2> HIDE DEF l
  <2>5. Made(t, u, e) /\ u.t = t
    BY <2>2, <2>3, <2>4, WfLen, Zenon DEF Made
  <2> QED
    BY <2>5, Zenon DEF e, u
<1>4. CASE Lookup(t, e) = {}
  <2>1. u = Make(t, e)
    BY <1>1, <1>4, Zenon
  <2>2. /\ u.l = Len(t.info) + 1 /\ Len(u.t.info) = Len(t.info) + 1
        /\ Grows(t, u.t) /\ u.t.info[u.l] = e /\ u.t.val[u.l] = [x \in Inputs |-> Value(t, e, x)]
    <3>1. /\ Make(t, e).l = Len(t.info) + 1 /\ Len(Make(t, e).t.info) = Len(t.info) + 1
          /\ Grows(t, Make(t, e).t) /\ Make(t, e).t.info[Len(t.info) + 1] = e
          /\ Make(t, e).t.val[Len(t.info) + 1] = [x \in Inputs |-> Value(t, e, x)]
      BY <1>2, MakeTable, Zenon
    <3> QED
      BY <2>1, <3>1, Zenon
  <2>3. Wf(u.t)
    BY <1>2, <1>4, <2>1, MakeWf, Zenon
  <2>4. u.l \in 1 .. Len(u.t.info)
    BY <2>2, WfLen
  <2>5. u = [t |-> u.t, l |-> u.l]
    BY <2>1, Zenon DEF Make
  <2>6. Made(t, u, e) /\ u.t = Make(t, e).t
    BY <2>1, <2>2, <2>3, <2>4, <2>5, Zenon DEF Made
  <2> QED
    BY <1>4, <2>6, Zenon DEF e, u
<1> QED
  BY <1>3, <1>4, Zenon

(* __taint_union keeps a table typed. *)
LEMMA UnionTyped ==
  ASSUME NEW t, Wf(t), Typed(t), NEW l1, NEW l2, NEW op, NEW size, NEW op1, NEW op2, l1 # 0 \/ l2 # 0,
         Fits(t, Normal(l1, l2, op, size, op1, op2), Len(t.info) + 1),
         TypedEntry(t, Normal(l1, l2, op, size, op1, op2))
  PROVE  Typed(Union(t, l1, l2, op, size, op1, op2).t)
<1> DEFINE e == Normal(l1, l2, op, size, op1, op2)
           u == Union(t, l1, l2, op, size, op1, op2).t
           n == Len(t.info)
<1>1. u = t \/ u = Make(t, e).t
  BY UnionMade
<1>2. CASE u = t
  BY <1>2, Zenon
<1>3. CASE u = Make(t, e).t
  <2>0. e \in InfoRec /\ n \in Nat
    BY WfLen, Zenon DEF Fits
  <2>1. /\ Len(u.info) = n + 1 /\ Grows(t, u)
        /\ u.info[n + 1] = e /\ u.val[n + 1] = [x \in Inputs |-> Value(t, e, x)]
    <3> HIDE DEF e, u, n
    <3>1. /\ Len(Make(t, e).t.info) = Len(t.info) + 1
          /\ Grows(t, Make(t, e).t) /\ Make(t, e).t.info[Len(t.info) + 1] = e
          /\ Make(t, e).t.val[Len(t.info) + 1] = [x \in Inputs |-> Value(t, e, x)]
      BY <2>0, MakeTable, Zenon
    <3> QED
      BY <1>3, <3>1, Zenon DEF n
  <2>2. TypedEntry(t, e)
    BY Zenon
  <2> HIDE DEF e, u
  <2> SUFFICES ASSUME NEW k \in 1 .. n + 1
               PROVE  /\ u.val[k] \in [Inputs -> 0 .. Base^(u.info[k].size) - 1]
                      /\ u.info[k].op = "Load" => u.info[k].l1 # 0 /\ u.info[k].l1 + u.info[k].l2 - 1 <= N
    BY Zenon, <2>1 DEF Typed, u
  <2>3. CASE k = n + 1
    BY <2>1, <2>2, <2>3, Zenon DEF TypedEntry
  <2>4. CASE k # n + 1
    <3>1. k \in 1 .. n
      BY <2>0, <2>4
    <3>2. u.info[k] = t.info[k] /\ u.val[k] = t.val[k]
      BY <2>1, <3>1, Zenon DEF Grows
    <3> QED
      BY <3>1, <3>2, Zenon DEF Typed
  <2> QED
    BY <2>3, <2>4, Zenon
<1> QED
  BY <1>1, <1>2, <1>3, Zenon

(* The entries that __taint_union is called for. *)
LEMMA LoadEntry ==
  ASSUME NEW t, Wf(t), NEW l \in 0 .. Len(t.info), NEW n \in 2 .. Cells
  PROVE  /\ Normal(l, n, "Load", n, 0, 0) = [op |-> "Load", l1 |-> l, l2 |-> n, size |-> n, op1 |-> 0, op2 |-> 0]
         /\ Fits(t, Normal(l, n, "Load", n, 0, 0), Len(t.info) + 1)
<1> DEFINE e == [op |-> "Load", l1 |-> l, l2 |-> n, size |-> n, op1 |-> 0, op2 |-> 0]
<1>1. Normal(l, n, "Load", n, 0, 0) = e
  BY Zenon DEF Normal, Entry, is_commutative
<1>2. Fits(t, e, Len(t.info) + 1)
  BY WfLen, SizeAssumption DEF Fits, InfoRec, is_commutative
<1> QED
  BY <1>1, <1>2, Zenon

(* A byte more on the slow path of a load. *)
LEMMA ConcatEntry ==
  ASSUME NEW t, Wf(t), NEW l \in 0 .. Len(t.info), NEW m \in 0 .. Len(t.info), l # 0 \/ m # 0,
         NEW n \in 1 .. Cells, NEW c \in Nat, m # 0 => c = 0
  PROVE  /\ Normal(l, m, "Concat", n, 0, c) = [op |-> "Concat", l1 |-> l, l2 |-> m, size |-> n, op1 |-> 0, op2 |-> c]
         /\ Fits(t, Normal(l, m, "Concat", n, 0, c), Len(t.info) + 1)
<1> DEFINE e == [op |-> "Concat", l1 |-> l, l2 |-> m, size |-> n, op1 |-> 0, op2 |-> c]
<1>1. Normal(l, m, "Concat", n, 0, c) = e
  BY WfLen DEF Normal, Entry, is_commutative
<1>2. Fits(t, e, Len(t.info) + 1)
  BY WfLen, SizeAssumption DEF Fits, InfoRec, is_commutative
<1> QED
  BY <1>1, <1>2, Zenon

(* A byte of a label that is stored. *)
LEMMA ExtractEntry ==
  ASSUME NEW t, Wf(t), NEW l \in 1 .. Len(t.info), t.info[l].size > 1, NEW k \in 0 .. Cells - 1
  PROVE  /\ Normal(l, 0, "Extract", 1, 0, k) = [op |-> "Extract", l1 |-> l, l2 |-> 0, size |-> 1, op1 |-> 0, op2 |-> k]
         /\ Fits(t, Normal(l, 0, "Extract", 1, 0, k), Len(t.info) + 1)
<1> DEFINE e == [op |-> "Extract", l1 |-> l, l2 |-> 0, size |-> 1, op1 |-> 0, op2 |-> k]
<1>1. Normal(l, 0, "Extract", 1, 0, k) = e
  BY WfLen DEF Normal, Entry, is_commutative
<1>2. Fits(t, e, Len(t.info) + 1)
  BY WfLen, SizeAssumption DEF Fits, InfoRec, is_commutative
<1> QED
  BY <1>1, <1>2, Zenon

(* An instruction. *)
LEMMA OpEntry ==
  ASSUME NEW t, Wf(t), NEW l \in 0 .. Len(t.info), NEW m \in 0 .. Len(t.info), l # 0 \/ m # 0,
         NEW op \in Ops, NEW n \in 1 .. Cells, NEW c \in Nat, NEW d \in Nat
  PROVE  /\ \/ Normal(l, m, op, n, c, d) = Entry(l, m, op, n, c, d)
            \/ Normal(l, m, op, n, c, d) = Entry(m, l, op, n, d, c) /\ op = "Add"
         /\ Fits(t, Normal(l, m, op, n, c, d), Len(t.info) + 1)
<1>1. CASE l > m /\ op = "Add"
  <2>1. Normal(l, m, op, n, c, d) = Entry(m, l, op, n, d, c)
    BY <1>1, Zenon DEF Normal, is_commutative
  <2>2. Fits(t, Entry(m, l, op, n, d, c), Len(t.info) + 1)
    BY <1>1, WfLen, SizeAssumption DEF Fits, InfoRec, is_commutative, Entry, Ops
  <2> QED
    BY <1>1, <2>1, <2>2, Zenon
<1>2. CASE ~ (l > m /\ op = "Add")
  <2>1. Normal(l, m, op, n, c, d) = Entry(l, m, op, n, c, d)
    BY <1>2, Zenon DEF Normal, is_commutative
  <2>2. Fits(t, Entry(l, m, op, n, c, d), Len(t.info) + 1)
    BY <1>2, WfLen, SizeAssumption DEF Fits, InfoRec, is_commutative, Entry, Ops
  <2> QED
    BY <2>1, <2>2, Zenon
<1> QED
  BY <1>1, <1>2, Zenon

-----------------------------------------------------------------------------
(* The slow path of __taint_union_load: one Concat per byte. *)

(* f is the function of the loop of the slow path. *)
IsSlow(f, t, ls, cs, n) ==
  f = [i \in 1 .. n |-> IF i = 1 THEN [t |-> t, l |-> ls[1]] ELSE SlowStep(f[i - 1], ls, cs, i)]

(* There is such a function, and Slow is its last value. *)
LEMMA SlowFunction ==
  ASSUME NEW t, NEW ls, NEW cs, NEW n \in Nat \ {0}
  PROVE  \E f : IsSlow(f, t, ls, cs, n) /\ Slow(t, ls, cs, n) = f[n]
<1> DEFINE T == {k \in Nat : \E f : IsSlow(f, t, ls, cs, k)}
<1>1. 1 \in T
  <2> DEFINE g == [i \in 1 .. 1 |-> [t |-> t, l |-> ls[1]]]
  <2>1. g = [i \in 1 .. 1 |-> IF i = 1 THEN [t |-> t, l |-> ls[1]] ELSE SlowStep(g[i - 1], ls, cs, i)]
    OBVIOUS
  <2>2. IsSlow(g, t, ls, cs, 1)
    BY <2>1, Zenon DEF IsSlow
  <2> QED
    BY <2>2, Zenon
<1>2. ASSUME NEW k \in 1 .. n - 1, k \in T PROVE k + 1 \in T
  <2>1. PICK f : IsSlow(f, t, ls, cs, k)
    BY <1>2, Zenon
  <2> DEFINE g == [i \in 1 .. k + 1 |-> IF i = k + 1 THEN SlowStep(f[k], ls, cs, k + 1) ELSE f[i]]
  <2>2. \A i \in 1 .. k : f[i] = IF i = 1 THEN [t |-> t, l |-> ls[1]] ELSE SlowStep(f[i - 1], ls, cs, i)
    BY <2>1, Zenon DEF IsSlow
  <2>3. \A i \in 1 .. k : g[i] = f[i]
    OBVIOUS
  <2>4. g[k + 1] = SlowStep(f[k], ls, cs, k + 1) /\ k + 1 - 1 = k /\ k + 1 # 1 /\ k \in 1 .. k
    OBVIOUS
  <2>5. ASSUME NEW i \in 1 .. k + 1
        PROVE  g[i] = IF i = 1 THEN [t |-> t, l |-> ls[1]] ELSE SlowStep(g[i - 1], ls, cs, i)
    <3> HIDE DEF g
    <3>1. CASE i = k + 1
      BY <3>1, <2>3, <2>4
    <3>2. CASE i # k + 1
      <4>1. i \in 1 .. k /\ (i # 1 => i - 1 \in 1 .. k)
        BY <3>2
      <4> QED
        BY <4>1, <2>2, <2>3, Zenon
    <3> QED
      BY <3>1, <3>2, Zenon
  <2>6. g = [i \in 1 .. k + 1 |-> g[i]]
    BY Zenon
  <2>7. IsSlow(g, t, ls, cs, k + 1)
    <3> HIDE DEF g
    <3> QED
      BY <2>5, <2>6, Zenon DEF IsSlow
  <2> QED
    BY <2>7
<1>3. n \in T
  <2> HIDE DEF T
  <2>1. \A k \in 1 .. n : k \in T
    BY <1>1, <1>2, UpTo, Zenon
  <2> QED
    BY <2>1
<1>4. Slow(t, ls, cs, n) = (CHOOSE f : IsSlow(f, t, ls, cs, n))[n]
  BY Zenon DEF Slow, IsSlow
<1>5. \E f : IsSlow(f, t, ls, cs, n)
  BY <1>3, Zenon
<1> QED
  BY <1>4, <1>5, Zenon

(* A label, if it is one, of n bytes in a table that has grown from t. *)
Sized(t, u, n) ==
  /\ Wf(u.t) /\ Grows(t, u.t) /\ u = [t |-> u.t, l |-> u.l]
  /\ u.l \in 0 .. Len(u.t.info)
  /\ u.l # 0 => u.t.info[u.l].size = n

(* The arguments of __taint_union_load. *)
Bytewise(t, ls, cs, n) ==
  /\ \A i \in 1 .. n : ls[i] \in 0 .. Len(t.info) /\ InfoIn(t, ls[i]).size = 1
  /\ \A i \in 1 .. n : cs[i] \in 0 .. Base - 1

(* The entry that a byte adds on the slow path. *)
SlowEntry(u, ls, cs, i) ==
  [op |-> "Concat", l1 |-> u.l, l2 |-> ls[i], size |-> i, op1 |-> 0, op2 |-> IF ls[i] = 0 THEN cs[i] ELSE 0]

(* One turn of the loop makes a label with one byte more. *)
LEMMA SlowStepSized ==
  ASSUME NEW t, Wf(t), NEW n \in 1 .. Cells, NEW ls, NEW cs, Bytewise(t, ls, cs, n),
         NEW i \in 2 .. n, NEW u, Sized(t, u, i - 1)
  PROVE  /\ Sized(t, SlowStep(u, ls, cs, i), i)
         /\ u.l # 0 \/ ls[i] # 0 =>
              /\ SlowEntry(u, ls, cs, i) = Normal(u.l, ls[i], "Concat", i, 0, IF ls[i] = 0 THEN cs[i] ELSE 0)
              /\ Fits(u.t, SlowEntry(u, ls, cs, i), Len(u.t.info) + 1)
              /\ Made(u.t, SlowStep(u, ls, cs, i), SlowEntry(u, ls, cs, i))
<1> DEFINE c == IF ls[i] = 0 THEN cs[i] ELSE 0
           e == [op |-> "Concat", l1 |-> u.l, l2 |-> ls[i], size |-> i, op1 |-> 0, op2 |-> c]
           w == SlowStep(u, ls, cs, i)
<1>1. i \in 1 .. n /\ i \in 1 .. Cells
  BY SizeAssumption
<1>2. ls[i] \in 0 .. Len(t.info) /\ cs[i] \in 0 .. Base - 1
  BY <1>1, Zenon DEF Bytewise
<1>3. Wf(u.t) /\ Grows(t, u.t) /\ Len(u.t.info) >= Len(t.info) /\ Len(t.info) \in Nat /\ Len(u.t.info) \in Nat
  BY WfLen, Zenon DEF Sized, Grows
<1>4. ls[i] \in 0 .. Len(u.t.info) /\ u.l \in 0 .. Len(u.t.info)
  BY <1>2, <1>3 DEF Sized
<1>5. c \in Nat /\ (ls[i] # 0 => c = 0)
  BY <1>2, SizeAssumption
<1>6. w = Union(u.t, u.l, ls[i], "Concat", i, 0, c)
  BY Zenon DEF SlowStep
<1> HIDE DEF c, w
<1>7. CASE u.l # 0 \/ ls[i] # 0
  <2>1. e = Normal(u.l, ls[i], "Concat", i, 0, c) /\ Fits(u.t, e, Len(u.t.info) + 1)
    <3>1. Normal(u.l, ls[i], "Concat", i, 0, c) = e /\ Fits(u.t, Normal(u.l, ls[i], "Concat", i, 0, c), Len(u.t.info) + 1)
      BY <1>1, <1>3, <1>4, <1>5, <1>7, ConcatEntry, Zenon
    <3> HIDE DEF e
    <3> QED
      BY <3>1, Zenon
  <2> HIDE DEF e
  <2>2. Made(u.t, w, e)
    BY <1>3, <1>6, <1>7, <2>1, UnionMade, Zenon
  <2>3. Wf(w.t) /\ Grows(u.t, w.t) /\ w.l \in 1 .. Len(w.t.info) /\ w.t.info[w.l] = e /\ w = [t |-> w.t, l |-> w.l]
    BY <2>2, Zenon DEF Made
  <2>4. Len(w.t.info) \in Nat
    BY <2>3, WfLen, Zenon
  <2>5. Grows(t, w.t)
    BY <1>3, <2>3, <2>4, GrowsTwice, Zenon
  <2>6. e.size = i
    BY Zenon DEF e
  <2>7. Sized(t, w, i)
    BY <2>3, <2>4, <2>5, <2>6 DEF Sized
  <2> QED
    BY <2>1, <2>2, <2>7, Zenon DEF c, e, w, SlowEntry
<1>8. CASE u.l = 0 /\ ls[i] = 0
  <2>1. w = [t |-> u.t, l |-> 0]
    BY <1>6, <1>8, Zenon DEF Union
  <2>2. Sized(t, w, i)
    BY <1>3, <2>1 DEF Sized
  <2> QED
    BY <1>8, <2>2, Zenon DEF w
<1> QED
  BY <1>7, <1>8, Zenon

(* After i turns the label has i bytes. *)
LEMMA SlowSized ==
  ASSUME NEW t, Wf(t), NEW n \in 1 .. Cells, NEW ls, NEW cs, Bytewise(t, ls, cs, n),
         NEW f, IsSlow(f, t, ls, cs, n)
  PROVE  \A i \in 1 .. n : Sized(t, f[i], i)
<1> DEFINE T == {i \in 1 .. n : Sized(t, f[i], i)}
<1>1. \A i \in 1 .. n : f[i] = IF i = 1 THEN [t |-> t, l |-> ls[1]] ELSE SlowStep(f[i - 1], ls, cs, i)
  BY Zenon DEF IsSlow
<1>2. 1 \in T
  <2>0. 1 \in 1 .. n
    OBVIOUS
  <2>1. f[1] = [t |-> t, l |-> ls[1]]
    BY <1>1, <2>0, Zenon
  <2>2. ls[1] \in 0 .. Len(t.info) /\ InfoIn(t, ls[1]).size = 1
    BY <2>0, Zenon DEF Bytewise
  <2>3. Sized(t, f[1], 1)
    BY <2>1, <2>2, WfLen DEF Sized, InfoIn
  <2> QED
    BY <2>0, <2>3, Zenon
<1>3. ASSUME NEW k \in 1 .. n - 1, k \in T PROVE k + 1 \in T
  <2>1. k + 1 \in 2 .. n /\ k + 1 \in 1 .. n /\ k + 1 - 1 = k /\ k + 1 # 1
    OBVIOUS
  <2>2. f[k + 1] = SlowStep(f[k], ls, cs, k + 1)
    BY <1>1, <2>1
  <2>3. Sized(t, f[k], k + 1 - 1)
    BY <1>3, <2>1, Zenon
  <2>4. Sized(t, SlowStep(f[k], ls, cs, k + 1), k + 1)
    BY <2>1, <2>3, SlowStepSized
  <2> QED
    BY <2>1, <2>2, <2>4, Zenon
<1> HIDE DEF T
<1>4. \A k \in 1 .. n : k \in T
  BY <1>2, <1>3, UpTo
<1> QED
  BY <1>4, Zenon DEF T

-----------------------------------------------------------------------------
(* What a label of a well formed table stands for. *)

(* What the entries of the table say. *)
LEMMA ValueOf ==
  ASSUME NEW t, Wf(t), NEW l \in 1 .. Len(t.info)
  PROVE  \A x \in Inputs : t.val[l][x] = Value(t, t.info[l], x)
<1>1. t.val[l] = [x \in Inputs |-> Value(t, t.info[l], x)]
  BY Zenon DEF Wf
<1> QED
  BY <1>1, Zenon

(* A Read entry is the label of a byte of the file. *)
LEMMA RawLabel ==
  ASSUME NEW t, Wf(t), NEW l \in 1 .. Len(t.info), t.info[l].op = "Read"
  PROVE  l \in 1 .. N /\ t.info[l].op1 = l - 1 /\ \A x \in Inputs : t.val[l][x] = x[l - 1]
<1>1. l \in 1 .. N
  <2>1. l \notin N + 1 .. Len(t.info)
    BY Zenon DEF Wf, Fits
  <2> QED
    BY <2>1, WfLen
<1>2. t.info[l] = Raw(l - 1)
  BY <1>1, Zenon DEF Wf
<1>3. \A x \in Inputs : t.val[l][x] = Value(t, t.info[l], x)
  BY ValueOf, Zenon
<1>4. Raw(l - 1).op = "Read" /\ Raw(l - 1).op1 = l - 1
  BY Zenon DEF Raw
<1>5. \A x : Value(t, Raw(l - 1), x) = x[l - 1]
  BY <1>4, Zenon DEF Value
<1> QED
  BY <1>1, <1>2, <1>3, <1>4, <1>5, Zenon

(* Any other entry was made by __taint_union. *)
LEMMA OtherLabel ==
  ASSUME NEW t, Wf(t), NEW l \in 1 .. Len(t.info), t.info[l].op # "Read"
  PROVE  l \in N + 1 .. Len(t.info) /\ Fits(t, t.info[l], l)
<1>1. l \notin 1 .. N
  <2> SUFFICES ASSUME l \in 1 .. N PROVE FALSE
    BY Zenon
  <2>1. t.info[l] = Raw(l - 1)
    BY Zenon DEF Wf
  <2> QED
    BY <2>1 DEF Raw
<1>2. l \in N + 1 .. Len(t.info)
  BY <1>1, WfLen
<1> QED
  BY <1>2, Zenon DEF Wf

(* An Extract entry stands for a byte of its operand. *)
LEMMA PartLabel ==
  ASSUME NEW t, Wf(t), NEW l \in 0 .. Len(t.info), NEW p, NEW k, Part(t, l, p, k)
  PROVE  /\ l \in 1 .. Len(t.info) /\ p \in 1 .. Len(t.info) /\ t.info[p].size > 1
         /\ \A x \in Inputs : t.val[l][x] = (t.val[p][x] \div Base^k) % Base
<1>1. l # 0
  BY Zenon DEF Part, InfoIn, ConstInfo, Raw
<1>2. l \in 1 .. Len(t.info)
  BY <1>1, WfLen
<1>3. t.info[l].op = "Extract" /\ t.info[l].op2 = k /\ t.info[l].l1 = p
  BY <1>1, Zenon DEF Part, InfoIn
<1>4. Fits(t, t.info[l], l)
  BY <1>2, <1>3, OtherLabel, Zenon
<1>5. p \in 1 .. Len(t.info) /\ t.info[p].size > 1
  BY <1>2, <1>3, <1>4, WfLen DEF Fits, InfoRec
<1>6. \A x \in Inputs : t.val[l][x] = Value(t, t.info[l], x)
  BY <1>2, ValueOf, Zenon
<1> QED
  BY <1>2, <1>3, <1>5, <1>6, Zenon DEF Value

(* A load of n bytes returns no label or one of size n, whatever the bytes *)
(* are.                                                                    *)
LEMMA LoadSized ==
  ASSUME NEW t, Wf(t), NEW n \in 1 .. Cells, NEW ls, NEW cs, Bytewise(t, ls, cs, n)
  PROVE  Sized(t, UnionLoad(t, ls, cs, n), n)
<1> DEFINE u == UnionLoad(t, ls, cs, n)
<1>0. 1 \in 1 .. n /\ n \in Nat \ {0} /\ Len(t.info) \in Nat /\ Grows(t, t)
  BY WfLen, SizeAssumption
<1>1. ls[1] \in 0 .. Len(t.info) /\ InfoIn(t, ls[1]).size = 1
  BY <1>0, Zenon DEF Bytewise
<1>2. CASE u = [t |-> t, l |-> 0]
  BY <1>0, <1>2 DEF Sized
<1>3. CASE u = [t |-> t, l |-> ls[1]] /\ n = 1
  BY <1>0, <1>1, <1>3 DEF Sized, InfoIn
<1>4. CASE u = Union(t, ls[1], n, "Load", n, 0, 0) /\ n # 1
  <2>1. n \in 2 .. Cells /\ n # 0
    BY <1>4
  <2> DEFINE e == Normal(ls[1], n, "Load", n, 0, 0)
  <2>2. Fits(t, e, Len(t.info) + 1) /\ e.size = n
    BY <1>1, <2>1, LoadEntry
  <2> HIDE DEF u
  <2>3. Made(t, u, e)
    BY <1>4, <2>1, <2>2, UnionMade, Zenon
  <2> HIDE DEF e
  <2>4. Wf(u.t) /\ Grows(t, u.t) /\ u.l \in 1 .. Len(u.t.info) /\ u.t.info[u.l] = e /\ u = [t |-> u.t, l |-> u.l]
    BY <2>3, Zenon DEF Made
  <2>5. Sized(t, u, n)
    BY <2>2, <2>4, WfLen DEF Sized
  <2> QED
    BY <2>5, Zenon DEF u
<1>5. CASE u = [t |-> t, l |-> Parent(t, ls)] /\ Parts(t, ls, n)
  <2>1. Part(t, ls[1], Parent(t, ls), 0) /\ InfoIn(t, Parent(t, ls)).size = n
    BY <1>0, <1>5 DEF Parts
  <2>2. Parent(t, ls) \in 1 .. Len(t.info)
    BY <1>1, <2>1, PartLabel, Zenon
  <2>3. t.info[Parent(t, ls)].size = n
    BY <2>1, <2>2 DEF InfoIn
  <2> QED
    BY <1>0, <1>5, <2>2, <2>3 DEF Sized
<1>6. CASE u = Slow(t, ls, cs, n)
  <2>1. PICK f : IsSlow(f, t, ls, cs, n) /\ Slow(t, ls, cs, n) = f[n]
    BY <1>0, SlowFunction, Zenon
  <2>2. Sized(t, f[n], n)
    BY <1>0, <2>1, SlowSized
  <2> QED
    BY <1>6, <2>1, <2>2, Zenon
<1> QED
  BY <1>2, <1>3, <1>4, <1>5, <1>6, Zenon DEF UnionLoad

-----------------------------------------------------------------------------
(* __taint_union_load, path by path.  The value loaded is, on every input, *)
(* the number that the bytes in memory make up.                            *)

(* The label l stands for v, a value as a function of the input; s is the  *)
(* seed.                                                                   *)
Means(t, l, v, s) == \A x \in Inputs : v[x] = IF l = 0 THEN v[s] ELSE t.val[l][x]

(* The value that the bytes ms make up on an input. *)
Digits(ms, n, x) == [i \in 1 .. n |-> ms[i][x]]

(* Labels ls, concrete values cs and values ms of n bytes agree. *)
Agree(t, ls, cs, ms, n, s) ==
  \A i \in 1 .. n : ms[i] \in [Inputs -> 0 .. Base - 1] /\ Means(t, ls[i], ms[i], s) /\ cs[i] = ms[i][s]

(* A load that does not lose track. *)
Plain(t, ls, n) ==
  /\ ls[1] = 0 => \A i \in 1 .. n : ls[i] = 0
  /\ ls[1] # 0 /\ Shape(t, ls, n) => \A i \in 1 .. n : ls[i] # 0 /\ InfoIn(t, ls[i]).op = "Read"

(* The bytes are digits. *)
LEMMA DigitsRange ==
  ASSUME NEW t, NEW ls, NEW cs, NEW ms, NEW n \in 1 .. Cells, NEW s, Agree(t, ls, cs, ms, n, s), NEW x \in Inputs
  PROVE  /\ \A i \in 1 .. n : Digits(ms, n, x)[i] = ms[i][x] /\ ms[i][x] \in 0 .. Base - 1
         /\ \A k \in 0 .. n : Number(Digits(ms, n, x), k) \in 0 .. Base^k - 1
<1>1. \A i \in 1 .. n : Digits(ms, n, x)[i] = ms[i][x]
  BY Zenon DEF Digits
<1>2. ASSUME NEW i \in 1 .. n PROVE ms[i][x] \in 0 .. Base - 1
  <2>1. ms[i] \in [Inputs -> 0 .. Base - 1]
    BY Zenon DEF Agree
  <2> QED
    BY <2>1, Zenon
<1>3. n \in 0 .. Cells
  BY SizeAssumption
<1> HIDE DEF Digits
<1> QED
  BY <1>1, <1>2, <1>3, NumberRange, Zenon

(* A load of bytes without labels. *)
LEMMA LoadConcrete ==
  ASSUME NEW t, NEW ls, NEW cs, NEW ms, NEW n \in 1 .. Cells, NEW s \in Inputs, Agree(t, ls, cs, ms, n, s),
         \A i \in 1 .. n : ls[i] = 0, NEW x \in Inputs
  PROVE  Number(Digits(ms, n, x), n) = Number(Digits(ms, n, s), n)
<1>1. \A i \in 1 .. n : ms[i][x] = ms[i][s]
  BY Zenon DEF Agree, Means
<1>2. Digits(ms, n, x) = Digits(ms, n, s)
  BY <1>1, Zenon DEF Digits
<1> QED
  BY <1>2, Zenon

(* A load of one byte. *)
LEMMA LoadByte ==
  ASSUME NEW t, NEW ls, NEW cs, NEW ms, NEW s, Agree(t, ls, cs, ms, 1, s), NEW x \in Inputs
  PROVE  Number(Digits(ms, 1, x), 1) = ms[1][x]
<1> DEFINE d == Digits(ms, 1, x)
<1>0. 1 \in 1 .. 1 /\ 1 \in 1 .. Cells
  BY SizeAssumption
<1>1. d[1] = ms[1][x] /\ ms[1][x] \in 0 .. Base - 1
  BY <1>0, DigitsRange, Zenon
<1>2. Number(d, 1) = Number(d, 1 - 1) + d[1] * Base^(1 - 1) /\ Number(d, 0) = 0
  BY NumberRec
<1> HIDE DEF d
<1>3. Number(d, 1) = d[1]
  BY <1>1, <1>2, Pow, SizeAssumption
<1> QED
  BY <1>1, <1>3, Zenon DEF d

(* A load of input bytes in a row. *)
LEMMA LoadShape ==
  ASSUME NEW t, Wf(t), Typed(t), NEW n \in 2 .. Cells, NEW ls, NEW cs, NEW ms, NEW s, Bytewise(t, ls, cs, n),
         Agree(t, ls, cs, ms, n, s), Shape(t, ls, n), \A i \in 1 .. n : ls[i] # 0 /\ InfoIn(t, ls[i]).op = "Read"
  PROVE  /\ \A x \in Inputs : Value(t, Normal(ls[1], n, "Load", n, 0, 0), x) = Number(Digits(ms, n, x), n)
         /\ TypedEntry(t, Normal(ls[1], n, "Load", n, 0, 0))
         /\ Fits(t, Normal(ls[1], n, "Load", n, 0, 0), Len(t.info) + 1)
<1> DEFINE e == Normal(ls[1], n, "Load", n, 0, 0)
<1>0. 1 \in 1 .. n /\ n \in 1 .. n /\ n \in 2 .. n /\ n \in Nat /\ n \in 1 .. Cells /\ n \in 0 .. n
  OBVIOUS
<1>1. ASSUME NEW i \in 1 .. n
      PROVE  /\ ls[i] \in 1 .. Len(t.info) /\ ls[i] \in 1 .. N /\ InfoIn(t, ls[i]).op1 = ls[i] - 1
             /\ \A x \in Inputs : t.val[ls[i]][x] = x[ls[i] - 1]
  <2>1. ls[i] \in 1 .. Len(t.info)
    BY WfLen DEF Bytewise
  <2>2. InfoIn(t, ls[i]) = t.info[ls[i]] /\ t.info[ls[i]].op = "Read"
    BY Zenon DEF InfoIn
  <2> QED
    BY <2>1, <2>2, RawLabel
<1>2. \A i \in 1 .. n : ls[i] - 1 = ls[1] - 1 + i - 1
  <2>1. \A i \in 2 .. n : ls[i] - 1 = ls[1] - 1 + i - 1
    BY <1>0, <1>1 DEF Shape
  <2> QED
    BY <1>0, <1>1, <2>1
<1>3. e = [op |-> "Load", l1 |-> ls[1], l2 |-> n, size |-> n, op1 |-> 0, op2 |-> 0]
      /\ Fits(t, e, Len(t.info) + 1)
  <2>1. ls[1] \in 0 .. Len(t.info)
    BY <1>0, <1>1, WfLen
  <2> QED
    BY <2>1, LoadEntry, Zenon
<1>4. e.l1 # 0 /\ e.l1 + e.l2 - 1 <= N /\ e.size = n
  <2>1. ls[n] \in 1 .. N /\ ls[1] \in 1 .. N
    BY <1>0, <1>1, Zenon
  <2>2. ls[n] - 1 = ls[1] - 1 + n - 1
    BY <1>0, <1>2, Zenon
  <2>3. e.l1 = ls[1] /\ e.l2 = n /\ e.size = n
    BY <1>3
  <2> QED
    BY <1>0, <2>1, <2>2, <2>3, SizeAssumption
<1>5. ASSUME NEW x \in Inputs PROVE Value(t, e, x) = Number(Digits(ms, n, x), n)
  <2>1. Value(t, e, x) = Bytes(x, InfoIn(t, ls[1]).op1, n)
    <3>1. e.op = "Load" /\ e.l1 = ls[1] /\ e.l2 = n
      BY <1>3
    <3> HIDE DEF e
    <3> QED
      BY <3>1, Zenon DEF Value
  <2>2. InfoIn(t, ls[1]).op1 = ls[1] - 1
    BY <1>0, <1>1, Zenon
  <2>3. ASSUME NEW i \in 1 .. n PROVE ms[i][x] = x[ls[1] - 1 + i - 1]
    <3>1. ls[i] # 0 /\ Means(t, ls[i], ms[i], s)
      BY Zenon DEF Agree
    <3>2. ms[i][x] = t.val[ls[i]][x]
      BY <3>1, Zenon DEF Means
    <3>3. t.val[ls[i]][x] = x[ls[i] - 1]
      BY <1>1, Zenon
    <3> QED
      BY <1>2, <3>2, <3>3, Zenon
  <2>4. Digits(ms, n, x) = [i \in 1 .. n |-> x[ls[1] - 1 + i - 1]]
    BY <2>3, Zenon DEF Digits
  <2> QED
    BY <2>1, <2>2, <2>4, Zenon DEF Bytes
<1>6. \A x \in Inputs : Number(Digits(ms, n, x), n) \in 0 .. Base^n - 1
  BY <1>0, DigitsRange, Zenon
<1> HIDE DEF e
<1>7. TypedEntry(t, e)
  BY <1>4, <1>5, <1>6, Zenon DEF TypedEntry
<1> QED
  BY <1>3, <1>5, <1>7, Zenon DEF e

(* A load of all the bytes of a label. *)
LEMMA LoadParts ==
  ASSUME NEW t, Wf(t), Typed(t), NEW n \in 1 .. Cells, NEW ls, NEW cs, NEW ms, NEW s \in Inputs,
         Bytewise(t, ls, cs, n), Agree(t, ls, cs, ms, n, s), Parts(t, ls, n)
  PROVE  Parent(t, ls) # 0 /\ \A x \in Inputs : Number(Digits(ms, n, x), n) = t.val[Parent(t, ls)][x]
<1> SUFFICES ASSUME NEW x \in Inputs
             PROVE  Parent(t, ls) \in 1 .. Len(t.info) /\ Number(Digits(ms, n, x), n) = t.val[Parent(t, ls)][x]
  BY NotZero, Zenon
<1> DEFINE p == Parent(t, ls)
           d == Digits(ms, n, x)
<1>0. 1 \in 1 .. n /\ n \in 0 .. Cells
  BY SizeAssumption
<1>1. ASSUME NEW i \in 1 .. n
      PROVE  p \in 1 .. Len(t.info) /\ ls[i] # 0 /\ t.val[ls[i]][x] = (t.val[p][x] \div Base^(i - 1)) % Base
  <2>1. ls[i] \in 0 .. Len(t.info) /\ Part(t, ls[i], p, i - 1)
    BY Zenon DEF Bytewise, Parts
  <2> HIDE DEF p
  <2>2. /\ ls[i] \in 1 .. Len(t.info) /\ p \in 1 .. Len(t.info)
        /\ \A y \in Inputs : t.val[ls[i]][y] = (t.val[p][y] \div Base^(i - 1)) % Base
    BY <2>1, PartLabel
  <2> QED
    BY <2>2
<1>2. p \in 1 .. Len(t.info)
  BY <1>0, <1>1, Zenon
<1>3. t.info[p].size = n
  BY <1>2 DEF Parts, InfoIn
<1>4. t.val[p] \in [Inputs -> 0 .. Base^n - 1]
  BY <1>2, <1>3, Zenon DEF Typed
<1>5. t.val[p][x] \in 0 .. Base^n - 1
  BY <1>4, Zenon
<1>6. ASSUME NEW i \in 1 .. n PROVE d[i] = (t.val[p][x] \div Base^(i - 1)) % Base
  <2>1. d[i] = ms[i][x]
    BY Zenon DEF Digits
  <2>2. ms[i][x] = t.val[ls[i]][x]
    BY <1>1, Zenon DEF Agree, Means
  <2> QED
    BY <2>1, <2>2, <1>1, Zenon
<1> HIDE DEF p, d
<1>7. Number(d, n) = t.val[p][x]
  <2> DEFINE v == t.val[p][x]
  <2>1. v \in 0 .. Base^n - 1 /\ \A i \in 1 .. n : d[i] = (v \div Base^(i - 1)) % Base
    BY <1>5, <1>6, Zenon
  <2> HIDE DEF v
  <2>2. Number(d, n) = v
    BY <1>0, <2>1, DigitsNumber, Zenon
  <2> QED
    BY <2>2, Zenon DEF v
<1> QED
  BY <1>2, <1>7, Zenon DEF p, d

-----------------------------------------------------------------------------
(* The slow path again, with values, and the paths together. *)

(* The label u stands for the first i of the bytes ms. *)
Summed(u, ms, n, i) ==
  u.l # 0 /\ Typed(u.t) /\ \A x \in Inputs : u.t.val[u.l][x] = Number(Digits(ms, n, x), i)

(* One byte more on the slow path. *)
LEMMA SlowStepRight ==
  ASSUME NEW t, Wf(t), NEW n \in 1 .. Cells, NEW ls, NEW cs, NEW ms, NEW s \in Inputs, Bytewise(t, ls, cs, n),
         Agree(t, ls, cs, ms, n, s), NEW i \in 2 .. n, NEW u, Sized(t, u, i - 1), Summed(u, ms, n, i - 1)
  PROVE  Summed(SlowStep(u, ls, cs, i), ms, n, i)
<1> DEFINE e == SlowEntry(u, ls, cs, i)
           w == SlowStep(u, ls, cs, i)
<1>0. i \in 1 .. n /\ i \in Nat \ {0} /\ i \in 0 .. n
  OBVIOUS
<1> u.l # 0 /\ Typed(u.t) /\ \A x \in Inputs : u.t.val[u.l][x] = Number(Digits(ms, n, x), i - 1)
  BY Zenon DEF Summed
<1>1. /\ e = Normal(u.l, ls[i], "Concat", i, 0, IF ls[i] = 0 THEN cs[i] ELSE 0)
      /\ Fits(u.t, e, Len(u.t.info) + 1) /\ Made(u.t, w, e)
  BY SlowStepSized, Zenon
<1>2. /\ e.op = "Concat" /\ e.l1 = u.l /\ e.l2 = ls[i] /\ e.size = i
      /\ e.op2 = IF ls[i] = 0 THEN cs[i] ELSE 0
  BY Zenon DEF SlowEntry
<1> HIDE DEF e, w
<1>3. ASSUME NEW x \in Inputs PROVE Value(u.t, e, x) = Number(Digits(ms, n, x), i)
  <2>1. Left(u.t, e, x) = Number(Digits(ms, n, x), i - 1)
    BY <1>2, Zenon DEF Left
  <2>2. LeftSize(u.t, e) = i - 1
    BY <1>2, Zenon DEF LeftSize, Sized
  <2>3. Right(u.t, e, x) = ms[i][x]
    <3>1. Means(t, ls[i], ms[i], s) /\ cs[i] = ms[i][s]
      BY <1>0, Zenon DEF Agree
    <3>2. CASE ls[i] = 0
      BY <1>2, <3>1, <3>2, Zenon DEF Right, Means
    <3>3. CASE ls[i] # 0
      <4>1. ls[i] \in 1 .. Len(t.info)
        BY <1>0, <3>3, WfLen DEF Bytewise
      <4>2. u.t.val[ls[i]] = t.val[ls[i]]
        BY <4>1, Zenon DEF Sized, Grows
      <4>3. ms[i][x] = t.val[ls[i]][x]
        BY <3>1, <3>3, Zenon DEF Means
      <4> QED
        BY <1>2, <3>3, <4>2, <4>3, Zenon DEF Right
    <3> QED
      BY <3>2, <3>3, Zenon
  <2>4. Digits(ms, n, x)[i] = ms[i][x]
    BY <1>0, DigitsRange
  <2>5. Number(Digits(ms, n, x), i) = Number(Digits(ms, n, x), i - 1) + Digits(ms, n, x)[i] * Base^(i - 1)
    BY <1>0, NumberRec, Zenon
  <2>6. Value(u.t, e, x) = Left(u.t, e, x) + Right(u.t, e, x) * Base^LeftSize(u.t, e)
    BY <1>2, Zenon DEF Value
  <2> QED
    BY <2>1, <2>2, <2>3, <2>4, <2>5, <2>6, Zenon
<1>4. \A x \in Inputs : Number(Digits(ms, n, x), i) \in 0 .. Base^i - 1
  BY <1>0, DigitsRange, Zenon
<1>5. TypedEntry(u.t, e)
  BY <1>2, <1>3, <1>4, Zenon DEF TypedEntry
<1>6. Wf(u.t)
  BY Zenon DEF Sized
<1>7. Typed(w.t)
  BY <1>1, <1>5, <1>6, UnionTyped, Zenon DEF w, SlowStep
<1>8. w.l \in 1 .. Len(w.t.info) /\ w.t.val[w.l] = [x \in Inputs |-> Value(u.t, e, x)]
  BY <1>1, Zenon DEF Made
<1>9. w.l # 0 /\ \A x \in Inputs : w.t.val[w.l][x] = Value(u.t, e, x)
  BY <1>8
<1> QED
  BY <1>3, <1>7, <1>9, Zenon DEF w, Summed

(* The slow path adds up the bytes. *)
LEMMA SlowRight ==
  ASSUME NEW t, Wf(t), Typed(t), NEW n \in 1 .. Cells, NEW ls, NEW cs, NEW ms, NEW s \in Inputs,
         Bytewise(t, ls, cs, n), Agree(t, ls, cs, ms, n, s), ls[1] # 0, NEW f, IsSlow(f, t, ls, cs, n)
  PROVE  Summed(f[n], ms, n, n)
<1> DEFINE T == {i \in 1 .. n : Summed(f[i], ms, n, i)}
<1>0. \A i \in 1 .. n : f[i] = IF i = 1 THEN [t |-> t, l |-> ls[1]] ELSE SlowStep(f[i - 1], ls, cs, i)
  BY Zenon DEF IsSlow
<1>1. \A i \in 1 .. n : Sized(t, f[i], i)
  BY SlowSized, Zenon
<1>2. 1 \in T
  <2>0. 1 \in 1 .. n
    OBVIOUS
  <2>1. f[1] = [t |-> t, l |-> ls[1]]
    BY <1>0, <2>0, Zenon
  <2>2. ASSUME NEW x \in Inputs PROVE t.val[ls[1]][x] = Number(Digits(ms, n, x), 1)
    <3> DEFINE d == Digits(ms, n, x)
    <3>1. d[1] = ms[1][x] /\ ms[1][x] \in 0 .. Base - 1
      BY <2>0, DigitsRange, Zenon
    <3>2. Number(d, 1) = Number(d, 1 - 1) + d[1] * Base^(1 - 1) /\ Number(d, 0) = 0
      BY NumberRec
    <3>3. ms[1][x] = t.val[ls[1]][x]
      BY <2>0, Zenon DEF Agree, Means
    <3> HIDE DEF d
    <3>4. Number(d, 1) = d[1]
      BY <3>1, <3>2, Pow, SizeAssumption
    <3> QED
      BY <3>1, <3>3, <3>4, Zenon DEF d
  <2>3. Summed(f[1], ms, n, 1)
    BY <2>1, <2>2 DEF Summed
  <2> QED
    BY <2>0, <2>3, Zenon
<1>3. ASSUME NEW k \in 1 .. n - 1, k \in T PROVE k + 1 \in T
  <2>1. k + 1 \in 2 .. n /\ k + 1 \in 1 .. n /\ k + 1 - 1 = k /\ k + 1 # 1 /\ k \in 1 .. n
    OBVIOUS
  <2> DEFINE i == k + 1
  <2>2. f[i] = SlowStep(f[i - 1], ls, cs, i) /\ i - 1 = k /\ i \in 2 .. n /\ i \in 1 .. n
    BY <1>0, <2>1
  <2>3. Sized(t, f[k], k) /\ Summed(f[k], ms, n, k)
    BY <1>1, <1>3, <2>1, Zenon
  <2> HIDE DEF i
  <2>4. Sized(t, f[i - 1], i - 1) /\ Summed(f[i - 1], ms, n, i - 1)
    BY <2>2, <2>3, Zenon
  <2>5. Summed(f[i], ms, n, i)
    BY <2>2, <2>4, SlowStepRight, Zenon
  <2>6. i \in T
    BY <2>2, <2>5, Zenon
  <2> QED
    BY <2>6, Zenon DEF i
<1> HIDE DEF T
<1>4. \A k \in 1 .. n : k \in T
  BY <1>2, <1>3, UpTo
<1>5. n \in T
  BY <1>4
<1> QED
  BY <1>5, Zenon DEF T

(* __taint_union_load: the label stands for the value that is loaded. *)
LEMMA LoadRight ==
  ASSUME NEW t, Wf(t), Typed(t), NEW n \in 1 .. Cells, NEW ls, NEW cs, NEW ms, NEW s \in Inputs,
         Bytewise(t, ls, cs, n), Agree(t, ls, cs, ms, n, s), Plain(t, ls, n)
  PROVE  /\ Typed(UnionLoad(t, ls, cs, n).t)
         /\ Means(UnionLoad(t, ls, cs, n).t, UnionLoad(t, ls, cs, n).l, [x \in Inputs |-> Number(Digits(ms, n, x), n)], s)
<1> DEFINE u == UnionLoad(t, ls, cs, n)
           v == [x \in Inputs |-> Number(Digits(ms, n, x), n)]
<1>0. 1 \in 1 .. n
  OBVIOUS
<1>1. CASE \A i \in 1 .. n : ls[i] = 0
  <2>1. u = [t |-> t, l |-> 0]
    BY <1>1, Zenon DEF UnionLoad
  <2>2. \A x \in Inputs : v[x] = v[s]
    BY <1>1, LoadConcrete
  <2> HIDE DEF u, v
  <2>3. Typed(u.t) /\ Means(u.t, u.l, v, s)
    BY <2>1, <2>2, Zenon DEF Means
  <2> QED
    BY <2>3, Zenon DEF u, v
<1>2. CASE ls[1] # 0
  <2>0. ~ \A i \in 1 .. n : ls[i] = 0
    BY <1>0, <1>2, Zenon
  <2>1. CASE Shape(t, ls, n) /\ n = 1
    <3>1. u = [t |-> t, l |-> ls[1]]
      BY <2>0, <2>1, Zenon DEF UnionLoad
    <3>2. \A x \in Inputs : v[x] = t.val[ls[1]][x]
      <4>1. \A x \in Inputs : v[x] = ms[1][x]
        BY <2>1, LoadByte
      <4> QED
        BY <1>0, <1>2, <4>1, Zenon DEF Agree, Means
    <3> HIDE DEF u, v
    <3>3. Typed(u.t) /\ Means(u.t, u.l, v, s)
      BY <1>2, <3>1, <3>2, Zenon DEF Means
    <3> QED
      BY <3>3, Zenon DEF u, v
  <2>2. CASE Shape(t, ls, n) /\ n # 1
    <3> DEFINE e == Normal(ls[1], n, "Load", n, 0, 0)
    <3>0. n \in 2 .. Cells /\ \A i \in 1 .. n : ls[i] # 0 /\ InfoIn(t, ls[i]).op = "Read"
      BY <1>2, <2>2 DEF Plain
    <3>1. u = Union(t, ls[1], n, "Load", n, 0, 0)
      BY <2>0, <2>2, Zenon DEF UnionLoad
    <3>2. (\A x \in Inputs : Value(t, e, x) = v[x]) /\ TypedEntry(t, e) /\ Fits(t, e, Len(t.info) + 1)
      BY <2>2, <3>0, LoadShape
    <3>3. Made(t, u, e) /\ Typed(u.t)
      <4> HIDE DEF e, u
      <4>1. /\ Made(t, Union(t, ls[1], n, "Load", n, 0, 0), Normal(ls[1], n, "Load", n, 0, 0))
            /\ Typed(Union(t, ls[1], n, "Load", n, 0, 0).t)
        BY <1>2, <3>2, UnionMade, UnionTyped, Zenon DEF e
      <4> QED
        BY <3>1, <4>1, Zenon DEF e
    <3> HIDE DEF e, u, v
    <3>4. u.l \in 1 .. Len(u.t.info) /\ u.t.val[u.l] = [x \in Inputs |-> Value(t, e, x)]
      BY <3>3, Zenon DEF Made
    <3>5. u.l # 0 /\ \A x \in Inputs : u.t.val[u.l][x] = v[x]
      <4>1. u.l # 0
        BY <3>4, NotZero, Zenon
      <4> QED
        BY <3>2, <3>4, <4>1, Zenon
    <3>6. Means(u.t, u.l, v, s)
      BY <3>5, Zenon DEF Means
    <3> QED
      BY <3>3, <3>6, Zenon DEF u, v
  <2>3. CASE ~ Shape(t, ls, n) /\ Parts(t, ls, n)
    <3>1. u = [t |-> t, l |-> Parent(t, ls)]
      BY <2>0, <2>3, Zenon DEF UnionLoad
    <3>2. Parent(t, ls) # 0 /\ \A x \in Inputs : v[x] = t.val[Parent(t, ls)][x]
      <4>1. Parent(t, ls) # 0 /\ \A x \in Inputs : Number(Digits(ms, n, x), n) = t.val[Parent(t, ls)][x]
        <5> HIDE DEF u, v
        <5> QED
          BY <2>3, LoadParts
      <4> QED
        BY <4>1, Zenon
    <3> HIDE DEF u, v
    <3>3. Typed(u.t) /\ Means(u.t, u.l, v, s)
      BY <3>1, <3>2, Zenon DEF Means
    <3> QED
      BY <3>3, Zenon DEF u, v
  <2>4. CASE ~ Shape(t, ls, n) /\ ~ Parts(t, ls, n)
    <3>1. u = Slow(t, ls, cs, n)
      BY <2>0, <2>4, Zenon DEF UnionLoad
    <3>2. PICK f : IsSlow(f, t, ls, cs, n) /\ Slow(t, ls, cs, n) = f[n]
      BY SlowFunction
    <3>3. Summed(f[n], ms, n, n)
      BY <1>2, <3>2, SlowRight, Zenon
    <3>4. u.l # 0 /\ Typed(u.t) /\ \A x \in Inputs : u.t.val[u.l][x] = v[x]
      BY <3>1, <3>2, <3>3, Zenon DEF Summed
    <3> HIDE DEF u, v
    <3>5. Means(u.t, u.l, v, s)
      BY <3>4, Zenon DEF Means
    <3> QED
      BY <3>4, <3>5, Zenon DEF u, v
  <2> QED
    BY <2>1, <2>2, <2>3, <2>4, Zenon
<1> QED
  BY <1>1, <1>2, Zenon DEF Plain
=============================================================================
