------------------------------ MODULE MCCalls -------------------------------
(* Two functions of the program, a library function with a wrapper and one *)
(* without, two labels, and stacks of up to three frames: a handler that   *)
(* interrupts a call and calls a function itself.  The two functions of    *)
(* the program are interchangeable.                                        *)
EXTENDS Calls, TLC

ProgSymmetry == Permutations(Prog)
=============================================================================
