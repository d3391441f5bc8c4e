------------------------------ MODULE MCSolve ------------------------------
(* Three bytes of one bit; conditions of every kind that overlap in their  *)
(* inputs, with two comparisons of the same byte.                          *)
EXTENDS Solve

CONSTANT l

Cond(i, type, bool, ins, site, lab, con) ==
  [id |-> i, type |-> type, bool |-> bool, known |-> TRUE, ins |-> ins, site |-> site, lab |-> lab, con |-> con]

Bit(b) == IF b THEN 1 ELSE 0

(* A single byte has its value, unless it is compared; two bytes are       *)
(* compared with each other.                                               *)
MCVal(c, x, d) ==
  LET lo == CHOOSE o \in c.ins : \A p \in c.ins : o <= p
      hi == CHOOSE o \in c.ins : \A p \in c.ins : o >= p
  IN  IF lo # hi THEN Bit(x[lo] = x[hi]) ELSE IF d = None THEN x[lo] ELSE Bit(x[lo] = d)

Opaque == [Cond(0, "cond", TRUE, {0}, "b", None, None) EXCEPT !.known = FALSE]

MCConds == {
  Cond(1, "cond", TRUE, {1, 2}, "a", None, None),
  Cond(2, "gep", FALSE, {2}, "a", None, None),
  Cond(3, "gep", TRUE, {0, 2}, "a", None, None),
  Cond(4, "offset", TRUE, {1}, "c", None, None),
  Cond(5, "cond", TRUE, {0}, "b", l, 0),
  Cond(6, "cond", TRUE, {0}, "c", l, 1),
  Cond(7, "size", TRUE, {1}, "c", None, None),
  Opaque}
=============================================================================
