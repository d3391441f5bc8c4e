----------------------------- MODULE MCForksrv ------------------------------
(* Instances of Forksrv for TLC; the configurations give the bounds. *)
EXTENDS Forksrv
=============================================================================
