----------------------------- MODULE CafeChannel -----------------------------
(***************************************************************************)
(* What an OSMessageQueue promises, with no threads in it: a bounded queue *)
(* of messages. A message sent with the high-priority flag goes to the     *)
(* front, any other to the back, and a receive takes the front.            *)
(***************************************************************************)
EXTENDS Naturals, Sequences

CONSTANTS
  Queues,
  Messages,
  Size       (* the capacity OSInitMessageQueue gave each queue *)

VARIABLE contents

Send(q, m) ==
  /\ Len(contents[q]) < Size[q]
  /\ contents' = [contents EXCEPT ![q] = Append(@, m)]

SendUrgent(q, m) ==
  /\ Len(contents[q]) < Size[q]
  /\ contents' = [contents EXCEPT ![q] = <<m>> \o @]

Receive(q) ==
  /\ contents[q] # <<>>
  /\ contents' = [contents EXCEPT ![q] = Tail(@)]

Init == contents = [q \in Queues |-> <<>>]

Next ==
  \E q \in Queues :
    \/ \E m \in Messages : Send(q, m) \/ SendUrgent(q, m)
    \/ Receive(q)

Spec == Init /\ [][Next]_contents
=============================================================================
