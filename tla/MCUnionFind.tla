---------------------------- MODULE MCUnionFind -----------------------------
(* Instances of UnionFind for TLC; the configurations give the bounds. *)
EXTENDS UnionFind
=============================================================================
