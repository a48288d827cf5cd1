---------------------------- MODULE MCMessageQueue ----------------------------
(* Instances of CafeMessageQueue for TLC. *)
EXTENDS CafeMessageQueue, TLC

CONSTANTS t1, t2, t3, a, b

EqualPriority == [t \in Threads |-> 16]
MixedPriority == [t \in Threads |-> IF t = t3 THEN 8 ELSE 16]
OneSlot == [q \in Queues |-> 1]
TwoSlots == [q \in Queues |-> 2]

(* Threads of one priority are alike, and so are messages. *)
Alike == Permutations({t1, t2}) \cup Permutations({a, b})
=============================================================================
