----------------------------- MODULE CafeWaiters -----------------------------
(***************************************************************************)
(* The wait lists of CafeCoreinit's mutexes, events and message queues     *)
(* (vector<MutexWaiter>). A list is the set of its threads: priority and   *)
(* sequence decide who leaves it first, never its position. wait_sequence_ *)
(* only grows, so it is kept as the order it induces on the threads that   *)
(* are in some list, and needs no bound.                                   *)
(***************************************************************************)
EXTENDS CafeThreads

CONSTANT Priority  (* Thread::priority, lower is better *)

ASSUME PriorityConstant == Priority \in [Threads -> 0..31]

VARIABLE arrived   (* <<t, u>>: both wait, and t's sequence is the smaller *)

WaiterTypeOK == arrived \subseteq Threads \X Threads

WaiterInit == arrived = {}

(* push_back({current, priority, wait_sequence_++}): behind every thread in  *)
(* any list.                                                                 *)
Arrive == arrived' = arrived \cup ({t \in Threads : waitObject[t] # NoObject} \X {current})

(* The records of W are erased. *)
Depart(W) == arrived' = {p \in arrived : p[1] \notin W /\ p[2] \notin W}

(* mutant: the list is a stack *)
WaiterBeforeLast(t, u) == <<u, t>> \in arrived

(* waiter_before. *)
WaiterBefore(t, u) ==
  \/ Priority[t] < Priority[u]
  \/ Priority[t] = Priority[u] /\ <<t, u>> \in arrived

(* min_element of the list S. *)
IsFirst(t, S) == t \in S /\ \A u \in S \ {t} : WaiterBefore(t, u)
=============================================================================
