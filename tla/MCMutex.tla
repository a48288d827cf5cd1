------------------------------- MODULE MCMutex -------------------------------
(* Instances of CafeMutex for TLC. *)
EXTENDS CafeMutex

CONSTANTS t1, t2, t3

CallSites == Objects \cup {Guest}
(* t2 and t3 overtake t1 where it came before them, and can go on doing so.  *)
MixedPriority == [t \in Threads |-> IF t = t1 THEN 16 ELSE 8]
=============================================================================
