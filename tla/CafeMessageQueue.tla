--------------------------- MODULE CafeMessageQueue ---------------------------
(***************************************************************************)
(* OSMessageQueue (cafe_coreinit.cpp): a ring of message slots in guest    *)
(* memory with a list of threads waiting to send and one of threads        *)
(* waiting to receive. A wake is only a hint: the woken thread re-executes *)
(* its call, and any thread that runs before it may take the slot or the   *)
(* message first.                                                          *)
(***************************************************************************)
EXTENDS CafeWaiters

CONSTANTS
  Messages,
  Size,       (* the capacity of each queue                       *)
  Empty       (* what an unused slot holds                        *)

Queues == Objects

(* A blocking call that has to be executed again, with its arguments: they   *)
(* stay in the registers of the blocked context.                             *)
SendCall(q, m, urgent) == [queue |-> q, message |-> m, urgent |-> urgent]
ReceiveCall(q) == [queue |-> q]
BlockingCalls ==
  {ReceiveCall(q) : q \in Queues}
    \cup {SendCall(q, m, urgent) : q \in Queues, m \in Messages, urgent \in BOOLEAN}
CallSites == {Guest} \cup BlockingCalls

ASSUME QueueConstants ==
  /\ Size \in [Queues -> Nat]
  /\ Empty \notin Messages
  /\ Guest \notin BlockingCalls
  /\ Sites = CallSites

VARIABLES
  ring,         (* the message slots                                         *)
  first, used,  (* the words of the guest's OSMessageQueue                   *)
  sendWaiters, recvWaiters

queueVars == <<ring, first, used, sendWaiters, recvWaiters, arrived>>
vars == <<threadVars, queueVars>>

Slots(q) == 0..(Size[q] - 1)

(* Every index stays in the ring, whose bounds the code checks each call     *)
(* ("corrupt message queue ring").                                           *)
TypeOK ==
  /\ ThreadTypeOK
  /\ WaiterTypeOK
  /\ \A q \in Queues :
       /\ ring[q] \in [Slots(q) -> Messages \cup {Empty}]
       /\ first[q] \in Slots(q) \cup {0}
       /\ used[q] \in 0..Size[q]
  /\ sendWaiters \in [Queues -> SUBSET Threads]
  /\ recvWaiters \in [Queues -> SUBSET Threads]

(* OSInitMessageQueue, once for each queue. *)
Init ==
  /\ ThreadInit
  /\ WaiterInit
  /\ ring = [q \in Queues |-> [s \in Slots(q) |-> Empty]]
  /\ first = [q \in Queues |-> 0]
  /\ used = [q \in Queues |-> 0]
  /\ sendWaiters = [q \in Queues |-> {}]
  /\ recvWaiters = [q \in Queues |-> {}]

-----------------------------------------------------------------------------
(* Both calls end alike: the first thread of the opposite list S, if any, is *)
(* woken and the caller gives up the slice. W is what is woken.              *)

WakesFirst(S, W) ==
  IF S = {} THEN W = {} /\ Continue({}, Guest)
  ELSE \E woken \in S :
         W = {woken} /\ IsFirst(woken, S) /\ Reschedule({woken}, Guest)

(* The calling thread blocks, in a list that gets it once. *)
BlockIn(S, q, site) ==
  /\ IF current \in S THEN UNCHANGED arrived ELSE Arrive
  /\ Block(q, site)

Put(q, m, slot) == ring' = [ring EXCEPT ![q][slot] = m]

(* mutant: the slot before the first one is not wrapped *)
SlotForUnwrapped(q, urgent) ==
  IF urgent THEN IF first[q] = 0 THEN 0 ELSE first[q] - 1
  ELSE (first[q] + used[q]) % Size[q]

(* The slot a message goes to; an urgent one becomes the first.              *)
SlotFor(q, urgent) ==
  IF urgent THEN IF first[q] = 0 THEN Size[q] - 1 ELSE first[q] - 1
  ELSE (first[q] + used[q]) % Size[q]

-----------------------------------------------------------------------------
(* send_message. A full queue refuses a non-blocking send, which changes     *)
(* nothing.                                                                  *)

WaitToSend(q, m, urgent) ==
  /\ At(SendCall(q, m, urgent))
  /\ used[q] = Size[q]
  /\ sendWaiters' = [sendWaiters EXCEPT ![q] = @ \cup {current}]
  /\ BlockIn(sendWaiters[q], q, SendCall(q, m, urgent))
  /\ UNCHANGED <<ring, first, used, recvWaiters>>

(* mutant: receivers are woken only by the message that ends emptiness *)
SendWakingOnEmpty(q, m, urgent) ==
  /\ At(SendCall(q, m, urgent))
  /\ used[q] < Size[q]
  /\ Put(q, m, SlotFor(q, urgent))
  /\ first' = IF urgent THEN [first EXCEPT ![q] = SlotFor(q, urgent)] ELSE first
  /\ used' = [used EXCEPT ![q] = @ + 1]
  /\ sendWaiters' = [sendWaiters EXCEPT ![q] = @ \ {current}]
  /\ \E W \in SUBSET recvWaiters[q] :
       /\ WakesFirst(IF used[q] = 0 THEN recvWaiters[q] ELSE {}, W)
       /\ recvWaiters' = [recvWaiters EXCEPT ![q] = @ \ W]
       /\ Depart(W \cup {current})

SendMessage(q, m, urgent) ==
  /\ At(SendCall(q, m, urgent))
  /\ used[q] < Size[q]
  /\ Put(q, m, SlotFor(q, urgent))
  /\ first' = IF urgent THEN [first EXCEPT ![q] = SlotFor(q, urgent)] ELSE first
  /\ used' = [used EXCEPT ![q] = @ + 1]
  /\ sendWaiters' = [sendWaiters EXCEPT ![q] = @ \ {current}]
  /\ \E W \in SUBSET recvWaiters[q] :
       /\ WakesFirst(recvWaiters[q], W)
       /\ recvWaiters' = [recvWaiters EXCEPT ![q] = @ \ W]
       /\ Depart(W \cup {current})

-----------------------------------------------------------------------------
(* receive_message. *)

WaitToReceive(q) ==
  /\ At(ReceiveCall(q))
  /\ used[q] = 0
  /\ recvWaiters' = [recvWaiters EXCEPT ![q] = @ \cup {current}]
  /\ BlockIn(recvWaiters[q], q, ReceiveCall(q))
  /\ UNCHANGED <<ring, first, used, sendWaiters>>

(* mutant: the receiver goes on, and the sender stays in the list *)
ReceiveWithoutErase(q) ==
  /\ At(ReceiveCall(q))
  /\ used[q] > 0
  /\ first' = [first EXCEPT ![q] = (@ + 1) % Size[q]]
  /\ used' = [used EXCEPT ![q] = @ - 1]
  /\ recvWaiters' = [recvWaiters EXCEPT ![q] = @ \ {current}]
  /\ \E W \in SUBSET sendWaiters[q] : WakesFirst(sendWaiters[q], W)
  /\ UNCHANGED <<ring, sendWaiters, arrived>>

(* mutant: no sender is woken *)
ReceiveWithoutWake(q) ==
  /\ At(ReceiveCall(q))
  /\ used[q] > 0
  /\ first' = [first EXCEPT ![q] = (@ + 1) % Size[q]]
  /\ used' = [used EXCEPT ![q] = @ - 1]
  /\ recvWaiters' = [recvWaiters EXCEPT ![q] = @ \ {current}]
  /\ Depart({current})
  /\ Continue({}, Guest)
  /\ UNCHANGED <<ring, sendWaiters>>

ReceiveMessage(q) ==
  /\ At(ReceiveCall(q))
  /\ used[q] > 0
  /\ first' = [first EXCEPT ![q] = (@ + 1) % Size[q]]
  /\ used' = [used EXCEPT ![q] = @ - 1]
  /\ recvWaiters' = [recvWaiters EXCEPT ![q] = @ \ {current}]
  /\ \E W \in SUBSET sendWaiters[q] :
       /\ WakesFirst(sendWaiters[q], W)
       /\ sendWaiters' = [sendWaiters EXCEPT ![q] = @ \ W]
       /\ Depart(W \cup {current})
  /\ UNCHANGED ring

-----------------------------------------------------------------------------
QueueCalls(q) ==
  \/ \E m \in Messages, urgent \in BOOLEAN :
       SendMessage(q, m, urgent) \/ WaitToSend(q, m, urgent)
  \/ ReceiveMessage(q)
  \/ WaitToReceive(q)

Next ==
  \/ (BetweenSlices \/ OtherCalls) /\ UNCHANGED queueVars
  \/ \E q \in Queues : QueueCalls(q)

Spec == Init /\ [][Next]_vars

DispatchThread(t) ==
  \E W \in SUBSET Sleepers : (Dispatch(t, W) \/ BeginCallback(t, W)) /\ UNCHANGED queueVars

(* Slices end, every thread is dispatched again and again, and a woken       *)
(* thread re-executes its call. Nothing makes the guest send or receive.     *)
FairSpec ==
  /\ Spec
  /\ WF_vars(EndSlice /\ UNCHANGED queueVars)
  /\ \A t \in Threads : SF_vars(DispatchThread(t))
  /\ \A q \in Queues : WF_vars(QueueCalls(q) /\ ~InGuest)

-----------------------------------------------------------------------------
(* A thread is in one list of the queue exactly while it is blocked on the   *)
(* queue: wake_thread throws for any other.                                  *)
WaitersBlocked ==
  \A q \in Queues :
    /\ sendWaiters[q] \cup recvWaiters[q] = Blocked(q)
    /\ sendWaiters[q] \cap recvWaiters[q] = {}

(* The ring implements the bounded queue: whatever wraps, barges or waits,   *)
(* no message is lost, overwritten, duplicated or reordered.                 *)
Contents ==
  [q \in Queues |-> [i \in 1..used[q] |-> ring[q][(first[q] + i - 1) % Size[q]]]]
Channel == INSTANCE CafeChannel WITH contents <- Contents
ImplementsChannel == Channel!Spec

(* The contexts that have been woken and have the call still to re-execute.  *)
Woken(Calls, waiting) ==
  Cardinality({t \in Threads : pc[t] \in Calls /\ t \notin waiting})
    + (IF callbackThread # NoThread /\ savedPc \in Calls THEN 1 ELSE 0)

SendCalls(q) == {SendCall(q, m, urgent) : m \in Messages, urgent \in BOOLEAN}

(* No wake is lost: a thread waits to receive only if every message in the   *)
(* queue has a woken receiver coming for it, and waits to send only if every *)
(* free slot has a woken sender coming.                                      *)
NoLostWakeup ==
  \A q \in Queues :
    /\ recvWaiters[q] # {} => used[q] <= Woken({ReceiveCall(q)}, recvWaiters[q])
    /\ sendWaiters[q] # {} => Size[q] - used[q] <= Woken(SendCalls(q), sendWaiters[q])

(* Every wait on a queue is listed, and someone is coming for what it holds. *)
WaitersAccounted == WaitersBlocked /\ NoLostWakeup

(* Threads do not stay blocked on a queue that could serve them, if          *)
(* callbacks do not go on borrowing threads forever.                         *)
Stalled(q) ==
  \/ used[q] > 0 /\ recvWaiters[q] # {}
  \/ used[q] < Size[q] /\ sendWaiters[q] # {}
StallsEnd ==
  <>[](callbackThread = NoThread) => \A q \in Queues : Stalled(q) ~> ~Stalled(q)
=============================================================================
