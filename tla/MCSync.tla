------------------------------- MODULE MCSync -------------------------------
(* AFL's queue of one main node, polled every second time. *)
EXTENDS Sync
=============================================================================
