------------------------------- MODULE MCEvent -------------------------------
(* Instances of CafeEvent for TLC. *)
EXTENDS CafeEvent

CONSTANTS t1, t2, t3

CallSites == Objects \cup {Guest}
EqualPriority == [t \in Threads |-> 16]
MixedPriority == [t \in Threads |-> IF t = t3 THEN 8 ELSE 16]
=============================================================================
