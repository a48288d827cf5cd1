----------------------------- MODULE MCScheduler -----------------------------
(* Instances of CafeScheduler for TLC. Threads are numbered as in threads_;  *)
(* 1 is the title's main thread.                                             *)
EXTENDS CafeScheduler

Three == {1, 2, 3}
Two == {1, 2}
AnyCore == {0, 1, 2}

EqualPriority == [t \in Threads |-> 16]
(* The last thread is the most urgent one. *)
RisingPriority == [t \in Threads |-> 16 - t]

(* Every thread may use every core. *)
Anywhere == [t \in Threads |-> AnyCore]
(* Thread t has a core of its own. *)
OwnCores == [t \in Threads |-> {t - 1}]
(* Core 1 is shared by all, the other cores by some. *)
Overlapping == [t \in Threads |-> IF t = 1 THEN {1} ELSE IF t = 2 THEN {0, 1} ELSE {1, 2}]
(* The waker has a core of its own; the other two share core 0. *)
SharedCore == [t \in Threads |-> IF t = 1 THEN {1} ELSE {0}]

PinnedMasks == {{0, 2}}
=============================================================================
