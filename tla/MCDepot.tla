------------------------------ MODULE MCDepot ------------------------------
(* Small instances of Depot: buffers of one and of two cells. *)
EXTENDS Depot

CONSTANTS b1, b2, b3, b4

MCSize == [b \in Bufs |-> IF b \in {b1, b3} THEN 1 ELSE 2]
OneSeed == <<b1>>
NoSeeds == <<>>
=============================================================================
