------------------------------ MODULE MCTaint ------------------------------
(* Two bytes of input and of memory, bytes of two values. *)
EXTENDS Taint

MCSeeds == {[o \in Offs |-> o]}
=============================================================================
