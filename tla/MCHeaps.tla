------------------------------- MODULE MCHeaps -------------------------------
(* Instances of CafeHeaps for TLC. *)
EXTENDS CafeHeaps

(* From the beginning of the heap and from its end. *)
BothSides == {1, 4, -1, -4}

(* The end of a heap with mirrored headers and of one without. *)
SmallEnds == [m \in BOOLEAN |-> IF m THEN 15 ELSE 9]
=============================================================================
