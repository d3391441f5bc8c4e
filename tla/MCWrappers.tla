----------------------------- MODULE MCWrappers -----------------------------
(* An input of two bytes, two descriptors and two blocks of three bytes.   *)
EXTENDS Wrappers, TLC

CONSTANTS b1, b2

MCBlocks == {b1, b2}
MCSymmetry == Permutations(MCBlocks)
=============================================================================
