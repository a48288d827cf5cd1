------------------------ MODULE CafeMessageQueueProofs ------------------------
(***************************************************************************)
(* OSMessageQueue for every set of threads, queues and messages and every  *)
(* capacity: the wait lists are exact, no wake is lost, and the ring       *)
(* implements the bounded channel.                                         *)
(***************************************************************************)
EXTENDS CafeMessageQueue, CafeThreadsProofs, FiniteSetTheorems, SequenceTheorems

(* TypeOK says what the words of each queue are, this that there are no      *)
(* others.                                                                   *)
OneOfEach ==
  /\ ring = [q \in Queues |-> ring[q]]
  /\ first = [q \in Queues |-> first[q]]
  /\ used = [q \in Queues |-> used[q]]

(* A listed thread is blocked in the call that listed it: without it the     *)
(* count of woken receivers could not grow when one of them is woken.        *)
WaitersAtCall ==
  \A q \in Queues :
    /\ \A t \in recvWaiters[q] : pc[t] = ReceiveCall(q)
    /\ \A t \in sendWaiters[q] : pc[t] \in SendCalls(q)

QueueInv ==
  /\ ThreadInv
  /\ TypeOK
  /\ OneOfEach
  /\ WaitersAtCall
  /\ WaitersBlocked
  /\ NoLostWakeup

-----------------------------------------------------------------------------
(* Calls and the threads that are at them. *)

(* The call a context is at tells its queue and whether it sends.            *)
LEMMA CallsApart ==
  ASSUME NEW q \in Queues, NEW x \in Queues, NEW m \in Messages, NEW urgent \in BOOLEAN
  PROVE  /\ ReceiveCall(q) \in Sites \ {Guest}
         /\ SendCall(q, m, urgent) \in Sites \ {Guest}
         /\ SendCalls(q) \subseteq Sites \ {Guest}
         /\ SendCall(q, m, urgent) \in SendCalls(q)
         /\ ReceiveCall(q) \notin SendCalls(x)
         /\ x # q => SendCall(q, m, urgent) \notin SendCalls(x)
         /\ x # q => ReceiveCall(q) # ReceiveCall(x)
<1>1. ReceiveCall(q) \in BlockingCalls /\ SendCall(q, m, urgent) \in SendCalls(q)
  BY DEF BlockingCalls, SendCalls
<1>2. SendCalls(q) \subseteq BlockingCalls
  BY DEF BlockingCalls, SendCalls
<1>3. BlockingCalls \subseteq Sites \ {Guest}
  BY QueueConstants DEF CallSites
<1>4. ASSUME NEW n \in Messages, NEW u \in BOOLEAN
      PROVE  ReceiveCall(q) # SendCall(x, n, u)
  <2>1. "message" \notin DOMAIN ReceiveCall(q) /\ "message" \in DOMAIN SendCall(x, n, u)
    BY DEF ReceiveCall, SendCall
  <2>2. QED
    BY <2>1
<1>5. ReceiveCall(q) \notin SendCalls(x)
  BY <1>4 DEF SendCalls
<1>6. \A n \in Messages, u \in BOOLEAN : SendCall(x, n, u).queue = x
  BY DEF SendCall
<1>7. SendCall(q, m, urgent).queue = q /\ ReceiveCall(q).queue = q /\ ReceiveCall(x).queue = x
  BY DEF SendCall, ReceiveCall
<1>8. x # q => SendCall(q, m, urgent) \notin SendCalls(x) /\ ReceiveCall(q) # ReceiveCall(x)
  BY <1>6, <1>7 DEF SendCalls
<1>9. QED
  BY <1>1, <1>2, <1>3, <1>5, <1>8

(* The threads that are at one of the calls and not in the list.             *)
Callers(position, calls, list) == {t \in Threads : position[t] \in calls /\ t \notin list}

(* Whether the call a callback has set aside is one of the calls.            *)
SetAside(borrowed, saved, calls) == IF borrowed # NoThread /\ saved \in calls THEN 1 ELSE 0

(* Callers are threads, so they can be counted. *)
LEMMA CallersFinite ==
  ASSUME NEW position, NEW calls, NEW list
  PROVE  /\ IsFiniteSet(Callers(position, calls, list))
         /\ Cardinality(Callers(position, calls, list)) \in Nat
<1>1. Callers(position, calls, list) \in SUBSET Threads
  BY DEF Callers
<1>2. IsFiniteSet(Callers(position, calls, list))
  BY <1>1, ThreadsFinite, FS_Subset
<1>3. QED
  BY <1>2, FS_CardinalityType

(* One caller less. *)
LEMMA CallerLeaves ==
  ASSUME NEW before, NEW after, NEW calls, NEW list, NEW t,
         Callers(after, calls, list) = Callers(before, calls, list) \ {t},
         t \in Callers(before, calls, list)
  PROVE  Cardinality(Callers(after, calls, list)) = Cardinality(Callers(before, calls, list)) - 1
<1>1. IsFiniteSet(Callers(before, calls, list))
  BY CallersFinite
<1>2. QED
  BY <1>1, FS_RemoveElement

(* One caller more. *)
LEMMA CallerComes ==
  ASSUME NEW before, NEW after, NEW calls, NEW list, NEW t,
         Callers(after, calls, list) = Callers(before, calls, list) \cup {t},
         t \notin Callers(before, calls, list)
  PROVE  Cardinality(Callers(after, calls, list)) = Cardinality(Callers(before, calls, list)) + 1
<1>1. IsFiniteSet(Callers(before, calls, list))
  BY CallersFinite
<1>2. QED
  BY <1>1, FS_AddElement

(* The woken contexts are the callers and the one that is set aside.         *)
LEMMA WokenCounts ==
  ASSUME NEW calls, NEW list
  PROVE  /\ Woken(calls, list) = Cardinality(Callers(pc, calls, list))
                                   + SetAside(callbackThread, savedPc, calls)
         /\ Woken(calls, list) \in Nat
         /\ SetAside(callbackThread, savedPc, calls) \in Nat
<1>1. Cardinality(Callers(pc, calls, list)) \in Nat
  BY CallersFinite
<1>2. QED
  BY <1>1 DEF Woken, Callers, SetAside

(* Between slices, and in calls that touch no primitive, no call is begun or *)
(* completed: a callback sets its thread's call aside and gives it back.     *)
LEMMA OtherStepsKeepWoken ==
  ASSUME ThreadInv, BetweenSlices \/ OtherCalls,
         NEW calls \in SUBSET (Sites \ {Guest}),
         NEW list \in SUBSET Threads, \A t \in list : waitObject[t] # NoObject
  PROVE  Cardinality(Callers(pc', calls, list)) + SetAside(callbackThread', savedPc', calls)
           = Cardinality(Callers(pc, calls, list)) + SetAside(callbackThread, savedPc, calls)
<1> DEFINE Same ==
      Cardinality(Callers(pc', calls, list)) + SetAside(callbackThread', savedPc', calls)
        = Cardinality(Callers(pc, calls, list)) + SetAside(callbackThread, savedPc, calls)
<1> USE ThreadConstants DEF ThreadInv, ThreadTypeOK
<1>1. ASSUME UNCHANGED <<pc, callbackThread, savedPc>>
      PROVE  Same
  BY <1>1
<1>2. ASSUME InGuest, SetPc(Guest), UNCHANGED <<callbackThread, savedPc>>
      PROVE  Same
  <2>1. pc' = pc
    BY <1>2 DEF InGuest, SetPc
  <2>2. QED
    BY <1>1, <1>2, <2>1
<1>3. ASSUME NEW W \in SUBSET Sleepers, NEW t \in Threads, BeginCallback(t, W)
      PROVE  Same
  <2>1. /\ t \notin list /\ t # NoThread
        /\ callbackThread = NoThread /\ callbackThread' = t
        /\ savedPc' = pc[t] /\ pc' = [pc EXCEPT ![t] = Guest]
    BY <1>3 DEF BeginCallback, Run, WaitObjectsCurrent, Sleepers
  <2>2. CASE pc[t] \in calls
    <3>1. Callers(pc', calls, list) = Callers(pc, calls, list) \ {t} /\ t \in Callers(pc, calls, list)
      BY <2>1, <2>2 DEF Callers
    <3>2. Cardinality(Callers(pc', calls, list)) = Cardinality(Callers(pc, calls, list)) - 1
      BY <3>1, CallerLeaves
    <3>3. SetAside(callbackThread', savedPc', calls) = 1 /\ SetAside(callbackThread, savedPc, calls) = 0
      BY <2>1, <2>2 DEF SetAside
    <3>4. QED
      BY <3>2, <3>3, CallersFinite
  <2>3. CASE pc[t] \notin calls
    <3>1. Callers(pc', calls, list) = Callers(pc, calls, list)
      BY <2>1, <2>3 DEF Callers
    <3>2. SetAside(callbackThread', savedPc', calls) = 0 /\ SetAside(callbackThread, savedPc, calls) = 0
      BY <2>1, <2>3 DEF SetAside
    <3>3. QED
      BY <3>1, <3>2
  <2>4. QED
    BY <2>2, <2>3
<1>4. ASSUME InGuest, ReturnFromCallback
      PROVE  Same
  <2>1. /\ current \in Threads /\ current \notin list /\ callbackThread = current
        /\ callbackThread' = NoThread /\ savedPc' = Guest
        /\ pc[current] = Guest /\ pc' = [pc EXCEPT ![current] = savedPc]
    BY <1>4, CurrentNotWakeable DEF InGuest, InCallback, ReturnFromCallback
  <2>2. CASE savedPc \in calls
    <3>1. /\ Callers(pc', calls, list) = Callers(pc, calls, list) \cup {current}
          /\ current \notin Callers(pc, calls, list)
      BY <2>1, <2>2 DEF Callers
    <3>2. Cardinality(Callers(pc', calls, list)) = Cardinality(Callers(pc, calls, list)) + 1
      BY <3>1, CallerComes
    <3>3. SetAside(callbackThread', savedPc', calls) = 0 /\ SetAside(callbackThread, savedPc, calls) = 1
      BY <2>1, <2>2 DEF SetAside
    <3>4. QED
      BY <3>2, <3>3, CallersFinite
  <2>3. CASE savedPc \notin calls
    <3>1. Callers(pc', calls, list) = Callers(pc, calls, list)
      BY <2>1, <2>3 DEF Callers
    <3>2. SetAside(callbackThread', savedPc', calls) = 0 /\ SetAside(callbackThread, savedPc, calls) = 0
      BY <2>1, <2>3 DEF SetAside
    <3>3. QED
      BY <3>1, <3>2
  <2>4. QED
    BY <2>2, <2>3
<1>5. CASE BetweenSlices
  BY <1>1, <1>3, <1>5 DEF BetweenSlices, WakeSleepers, Dispatch
<1>6. CASE OtherCalls
  BY <1>1, <1>2, <1>4, <1>6
  DEF OtherCalls, EndSlice, Resume, Reschedule, Sleep, Block, Exit, Create, InGuest
<1>7. QED
  BY <1>5, <1>6

(* Queues nobody has used satisfy the invariant. *)
LEMMA QueueStart == Init => QueueInv
<1> SUFFICES ASSUME Init PROVE QueueInv
  OBVIOUS
<1>1. ThreadInv
  BY ThreadStart DEF Init
<1>2. TypeOK /\ OneOfEach
  BY <1>1, QueueConstants
  DEF Init, TypeOK, OneOfEach, ThreadInv, WaiterTypeOK, WaiterInit, Queues, Slots
<1>3. WaitersAtCall /\ WaitersBlocked
  BY ThreadConstants
  DEF Init, ThreadInit, WaitersAtCall, WaitersBlocked, Blocked, Queues
<1>4. NoLostWakeup
  BY DEF Init, NoLostWakeup
<1>5. QED
  BY <1>1, <1>2, <1>3, <1>4 DEF QueueInv

-----------------------------------------------------------------------------
(* Every call of the queue is a step of the thread machine. *)

(* Who is in a list is blocked, and in that list only. *)
LEMMA ListedBlocked ==
  ASSUME QueueInv, NEW q \in Queues
  PROVE  /\ recvWaiters[q] \in SUBSET Wakeable /\ sendWaiters[q] \in SUBSET Wakeable
         /\ recvWaiters[q] \in SUBSET Threads /\ sendWaiters[q] \in SUBSET Threads
         /\ recvWaiters[q] \cap sendWaiters[q] = {}
         /\ \A t \in recvWaiters[q] \cup sendWaiters[q] : waitObject[t] # NoObject
         /\ \A x \in Queues \ {q} : recvWaiters[q] \cap recvWaiters[x] = {}
                                    /\ recvWaiters[q] \cap sendWaiters[x] = {}
                                    /\ sendWaiters[q] \cap sendWaiters[x] = {}
BY ThreadConstants DEF QueueInv, WaitersBlocked, Blocked, Wakeable, Queues

(* The end of a call that has served a message or a slot: it wakes at most   *)
(* one thread of the list S, and one if there is any.                        *)
LEMMA ServeWakes ==
  ASSUME NEW S, NEW W, WakesFirst(S, W)
  PROVE  /\ W \subseteq S
         /\ S # {} => \E woken \in S : W = {woken}
         /\ Continue(W, Guest) \/ Reschedule(W, Guest)
BY DEF WakesFirst

(* Each way through a queue call moves threads as one call of the machine.   *)
LEMMA QueueCallsAreThreadSteps ==
  ASSUME QueueInv, NEW q \in Queues, QueueCalls(q)
  PROVE  ThreadNext
<1>1. Guest \in Sites /\ q \in Objects
  BY ThreadConstants DEF Queues
<1>2. ASSUME NEW W \in SUBSET Wakeable, Continue(W, Guest) \/ Reschedule(W, Guest)
      PROVE  ThreadNext
  BY <1>1, <1>2 DEF ThreadNext, InSlice
<1>3. ASSUME NEW site \in Sites, Block(q, site)
      PROVE  ThreadNext
  BY <1>1, <1>3 DEF ThreadNext, InSlice
<1>4. ASSUME NEW m \in Messages, NEW urgent \in BOOLEAN, SendMessage(q, m, urgent)
      PROVE  ThreadNext
  <2>1. PICK W \in SUBSET recvWaiters[q] : WakesFirst(recvWaiters[q], W)
    BY <1>4 DEF SendMessage
  <2>2. QED
    BY <1>2, <2>1, ServeWakes, ListedBlocked
<1>5. ASSUME ReceiveMessage(q)
      PROVE  ThreadNext
  <2>1. PICK W \in SUBSET sendWaiters[q] : WakesFirst(sendWaiters[q], W)
    BY <1>5 DEF ReceiveMessage
  <2>2. QED
    BY <1>2, <2>1, ServeWakes, ListedBlocked
<1>6. ASSUME NEW m \in Messages, NEW urgent \in BOOLEAN, WaitToSend(q, m, urgent)
      PROVE  ThreadNext
  BY <1>3, <1>6, CallsApart DEF WaitToSend, BlockIn
<1>7. ASSUME WaitToReceive(q)
      PROVE  ThreadNext
  <2>1. ReceiveCall(q) \in Sites
    BY QueueConstants DEF CallSites, BlockingCalls
  <2>2. QED
    BY <1>3, <1>7, <2>1 DEF WaitToReceive, BlockIn
<1>8. QED
  BY <1>4, <1>5, <1>6, <1>7 DEF QueueCalls

(* Every step of the queue guest is a step of the thread machine.            *)
LEMMA NextIsThreadStep ==
  ASSUME QueueInv, [Next]_vars
  PROVE  [ThreadNext]_threadVars
BY QueueCallsAreThreadSteps, OtherStepsAreThreadSteps DEF Next, vars

-----------------------------------------------------------------------------
(* What the calls keep of the lists. *)

(* What the steps below have in common. *)
LEMMA CallFacts ==
  ASSUME QueueInv, current # NoThread
  PROVE  /\ ThreadInv /\ TypeOK /\ OneOfEach /\ WaitersAtCall /\ WaitersBlocked /\ NoLostWakeup
         /\ current \in Threads
         /\ \A q \in Queues : current \notin recvWaiters[q] /\ current \notin sendWaiters[q]
BY CurrentNotWakeable DEF QueueInv, WaitersBlocked, Blocked, Wakeable

(* Threads W that are woken leave the lists of their queue with their wait.  *)
LEMMA ServeKeeps ==
  ASSUME QueueInv, current # NoThread, NEW q \in Queues, NEW W,
         W \subseteq recvWaiters[q] \/ W \subseteq sendWaiters[q],
         Continue(W, Guest) \/ Reschedule(W, Guest),
         recvWaiters' = [recvWaiters EXCEPT ![q] = @ \ W],
         sendWaiters' = [sendWaiters EXCEPT ![q] = @ \ W]
  PROVE  WaitersBlocked' /\ WaitersAtCall'
<1>1. W \in SUBSET Threads
  BY ListedBlocked
<1>2. \A x \in Queues : /\ recvWaiters'[x] = recvWaiters[x] \ W
                        /\ sendWaiters'[x] = sendWaiters[x] \ W
  <2>1. \A x \in Queues \ {q} : recvWaiters[x] = recvWaiters[x] \ W
                                /\ sendWaiters[x] = sendWaiters[x] \ W
    BY ListedBlocked
  <2>2. QED
    BY <2>1, CallFacts DEF TypeOK
<1>3. WaitersBlocked'
  <2>1. \A x \in Queues : Blocked(x)' = Blocked(x) \ W
    BY <1>1, WakeKeeps, CallFacts DEF Queues
  <2>2. QED
    BY <1>2, <2>1, CallFacts DEF WaitersBlocked
<1>4. WaitersAtCall'
  <2>1. \A t \in Threads \ {current} : pc'[t] = pc[t]
    BY CallFacts DEF Continue, Reschedule, SetPc, ThreadInv, ThreadTypeOK
  <2>2. QED
    BY <1>2, <2>1, CallFacts, ListedBlocked DEF WaitersAtCall
<1>5. QED
  BY <1>3, <1>4

(* A thread that blocks is listed as it does so. *)
LEMMA WaitKeeps ==
  ASSUME QueueInv, current # NoThread, NEW q \in Queues, NEW site \in Sites, Block(q, site),
         \/ /\ recvWaiters' = [recvWaiters EXCEPT ![q] = @ \cup {current}]
            /\ site = ReceiveCall(q) /\ sendWaiters' = sendWaiters
         \/ /\ sendWaiters' = [sendWaiters EXCEPT ![q] = @ \cup {current}]
            /\ site \in SendCalls(q) /\ recvWaiters' = recvWaiters
  PROVE  WaitersBlocked' /\ WaitersAtCall'
<1>1. \A x \in Queues :
        Blocked(x)' = IF x = q THEN Blocked(x) \cup {current} ELSE Blocked(x)
  BY BlockKeeps, CallFacts DEF Queues
<1>2. pc'[current] = site /\ \A t \in Threads \ {current} : pc'[t] = pc[t]
  BY BlockKeeps, CallFacts DEF Queues
<1>3. recvWaiters \in [Queues -> SUBSET Threads] /\ sendWaiters \in [Queues -> SUBSET Threads]
  BY CallFacts DEF TypeOK
<1>4. WaitersBlocked'
  BY <1>1, <1>3, CallFacts DEF WaitersBlocked
<1>5. WaitersAtCall'
  <2> SUFFICES ASSUME NEW x \in Queues
               PROVE  /\ \A t \in recvWaiters'[x] : pc'[t] = ReceiveCall(x)
                      /\ \A t \in sendWaiters'[x] : pc'[t] \in SendCalls(x)
    BY DEF WaitersAtCall, SendCalls
  <2>1. /\ \A t \in recvWaiters[x] : t \in Threads \ {current} /\ pc[t] = ReceiveCall(x)
        /\ \A t \in sendWaiters[x] : t \in Threads \ {current} /\ pc[t] \in SendCalls(x)
    BY <1>3, CallFacts DEF WaitersAtCall
  <2>2. QED
    BY <1>2, <1>3, <2>1
<1>6. QED
  BY <1>4, <1>5

-----------------------------------------------------------------------------
(* What the calls keep of the account of wakes. *)

(* The account of one queue, for one direction: amount is what the queue has *)
(* for those in the list, messages for receivers and free slots for senders. *)
Served(calls, list, amount) == list # {} => amount <= Woken(calls, list)

(* The same after the step. *)
ServedNext(calls, list, amount) ==
  list # {} => amount <= Cardinality(Callers(pc', calls, list))
                           + SetAside(callbackThread', savedPc', calls)

(* No wake is lost if every queue is served in both directions.              *)
LEMMA LostWakeupSplits ==
  /\ NoLostWakeup => \A q \in Queues :
       /\ Served({ReceiveCall(q)}, recvWaiters[q], used[q])
       /\ Served(SendCalls(q), sendWaiters[q], Size[q] - used[q])
  /\ (\A q \in Queues :
        /\ ServedNext({ReceiveCall(q)}, recvWaiters'[q], used'[q])
        /\ ServedNext(SendCalls(q), sendWaiters'[q], Size[q] - used'[q]))
     => NoLostWakeup'
BY DEF NoLostWakeup, Served, ServedNext, Woken, Callers, SetAside, SendCalls

(* A step that neither begins nor ends one of the calls, and leaves the list *)
(* and the amount, keeps the account.                                        *)
LEMMA ServedStays ==
  ASSUME NEW calls, NEW list, NEW amount,
         pc' = [pc EXCEPT ![current] = pc'[current]],
         pc \in [Threads -> Sites], current \in Threads,
         pc[current] \notin calls, pc'[current] \notin calls,
         UNCHANGED <<callbackThread, savedPc>>,
         Served(calls, list, amount)
  PROVE  ServedNext(calls, list, amount)
<1>1. Callers(pc', calls, list) = Callers(pc, calls, list)
  BY DEF Callers
<1>2. QED
  BY <1>1, WokenCounts DEF Served, ServedNext

(* The call of one queue serves its opposite list with what it made, while   *)
(* the caller, if it had been woken, uses up what had been made for it.      *)
LEMMA WakePays ==
  ASSUME NEW calls, NEW list \in SUBSET Threads, NEW woken \in list, NEW amount \in Nat,
         NEW next, next = list \ {woken},
         pc' = [pc EXCEPT ![current] = pc'[current]],
         pc \in [Threads -> Sites], current \in Threads \ list,
         pc[current] \notin calls, pc'[current] \notin calls, pc[woken] \in calls,
         UNCHANGED <<callbackThread, savedPc>>,
         Served(calls, list, amount)
  PROVE  ServedNext(calls, next, amount + 1)
<1>1. /\ Callers(pc', calls, next) = Callers(pc, calls, list) \cup {woken}
      /\ woken \notin Callers(pc, calls, list)
  BY DEF Callers
<1>2. Cardinality(Callers(pc, calls, list) \cup {woken}) = Cardinality(Callers(pc, calls, list)) + 1
  BY <1>1, CallersFinite, FS_AddElement
<1>3. amount <= Woken(calls, list)
  BY DEF Served
<1>4. SetAside(callbackThread', savedPc', calls) = SetAside(callbackThread, savedPc, calls)
  OBVIOUS
<1>5. amount + 1 <= Cardinality(Callers(pc', calls, next)) + SetAside(callbackThread', savedPc', calls)
  BY <1>1, <1>2, <1>3, <1>4, WokenCounts, CallersFinite
<1>6. QED
  BY <1>5 DEF ServedNext

(* One caller fewer for one thing fewer. *)
LEMMA CallerUses ==
  ASSUME NEW calls, NEW list, NEW amount \in Nat \ {0},
         pc' = [pc EXCEPT ![current] = pc'[current]],
         pc \in [Threads -> Sites], current \in Threads, pc'[current] \notin calls,
         UNCHANGED <<callbackThread, savedPc>>,
         Served(calls, list, amount)
  PROVE  ServedNext(calls, list, amount - 1)
<1>1. Callers(pc', calls, list) = Callers(pc, calls, list) \ {current}
  BY DEF Callers
<1>2. Cardinality(Callers(pc, calls, list) \ {current}) >= Cardinality(Callers(pc, calls, list)) - 1
  <2> DEFINE C == Callers(pc, calls, list)
  <2>1. IsFiniteSet(C) /\ Cardinality(C) \in Nat
    BY CallersFinite
  <2> HIDE DEF C
  <2>2. Cardinality(C \ {current}) >= Cardinality(C) - 1
    BY ONLY <2>1, FS_RemoveElement
  <2>3. QED
    BY <2>2 DEF C
<1>3. QED
  BY <1>1, <1>2, WokenCounts, CallersFinite DEF Served, ServedNext

(* The thread facts that the account of a call needs.                        *)
LEMMA CallMovesCaller ==
  ASSUME QueueInv, NEW W, NEW o, NEW site,
         current # NoThread,
         Continue(W, site) \/ Reschedule(W, site) \/ Block(o, site)
  PROVE  /\ pc' = [pc EXCEPT ![current] = pc'[current]]
         /\ pc'[current] = site
         /\ pc \in [Threads -> Sites]
         /\ UNCHANGED <<callbackThread, savedPc>>
BY CallFacts DEF Continue, Reschedule, Block, SetPc, ThreadInv, ThreadTypeOK

(* A send makes one message and uses one slot. *)
LEMMA SendKeepsAccount ==
  ASSUME QueueInv, NEW q \in Queues, NEW m \in Messages, NEW urgent \in BOOLEAN,
         SendMessage(q, m, urgent)
  PROVE  NoLostWakeup'
<1>1. /\ current # NoThread /\ pc[current] \in {Guest, SendCall(q, m, urgent)}
      /\ used[q] < Size[q]
      /\ used' = [used EXCEPT ![q] = @ + 1]
      /\ sendWaiters' = [sendWaiters EXCEPT ![q] = @ \ {current}]
  BY DEF SendMessage, At
<1>2. PICK W \in SUBSET recvWaiters[q] :
        WakesFirst(recvWaiters[q], W) /\ recvWaiters' = [recvWaiters EXCEPT ![q] = @ \ W]
  BY DEF SendMessage
<1>3. /\ pc' = [pc EXCEPT ![current] = pc'[current]] /\ pc'[current] = Guest
      /\ pc \in [Threads -> Sites] /\ UNCHANGED <<callbackThread, savedPc>>
  <2>1. Continue(W, Guest) \/ Reschedule(W, Guest)
    BY <1>2, ServeWakes
  <2>2. QED
    BY <1>1, <2>1, CallMovesCaller
<1>4. /\ current \in Threads /\ used[q] \in Nat /\ Size[q] \in Nat
      /\ recvWaiters \in [Queues -> SUBSET Threads] /\ sendWaiters \in [Queues -> SUBSET Threads]
      /\ used = [x \in Queues |-> used[x]]
      /\ \A x \in Queues : current \notin recvWaiters[x] /\ current \notin sendWaiters[x]
  BY <1>1, CallFacts, QueueConstants DEF TypeOK, OneOfEach
<1>5. \A x \in Queues : /\ Served({ReceiveCall(x)}, recvWaiters[x], used[x])
                        /\ Served(SendCalls(x), sendWaiters[x], Size[x] - used[x])
  BY <1>1, CallFacts, LostWakeupSplits
<1>6. ASSUME NEW x \in Queues
      PROVE  /\ pc[current] \notin {ReceiveCall(x)} /\ pc'[current] \notin {ReceiveCall(x)}
             /\ pc'[current] \notin SendCalls(x)
             /\ x # q => pc[current] \notin SendCalls(x)
  <2>1. /\ SendCall(q, m, urgent) # ReceiveCall(x) /\ Guest # ReceiveCall(x)
        /\ Guest \notin SendCalls(x)
        /\ x # q => SendCall(q, m, urgent) \notin SendCalls(x)
    BY CallsApart
  <2>2. QED
    BY <1>1, <1>3, <2>1
<1>7. ASSUME NEW x \in Queues \ {q}
      PROVE  /\ ServedNext({ReceiveCall(x)}, recvWaiters'[x], used'[x])
             /\ ServedNext(SendCalls(x), sendWaiters'[x], Size[x] - used'[x])
  <2>1. recvWaiters'[x] = recvWaiters[x] /\ sendWaiters'[x] = sendWaiters[x] /\ used'[x] = used[x]
    BY <1>1, <1>2, <1>4
  <2>2. /\ ServedNext({ReceiveCall(x)}, recvWaiters[x], used[x])
        /\ ServedNext(SendCalls(x), sendWaiters[x], Size[x] - used[x])
    BY <1>3, <1>4, <1>5, <1>6, ServedStays
  <2>3. QED
    BY <2>1, <2>2
<1>8. ServedNext({ReceiveCall(q)}, recvWaiters'[q], used'[q])
  <2>1. used'[q] = used[q] + 1 /\ recvWaiters'[q] = recvWaiters[q] \ W
    BY <1>1, <1>2, <1>4
  <2>2. CASE recvWaiters[q] = {}
    BY <2>1, <2>2 DEF ServedNext
  <2>3. CASE recvWaiters[q] # {}
    <3>1. PICK woken \in recvWaiters[q] : W = {woken}
      BY <1>2, <2>3, ServeWakes
    <3>2. pc[woken] \in {ReceiveCall(q)}
      BY <1>1, CallFacts DEF WaitersAtCall
    <3>3. ServedNext({ReceiveCall(q)}, recvWaiters'[q], used[q] + 1)
      BY <1>3, <1>4, <1>5, <1>6, <2>1, <3>1, <3>2, WakePays
    <3>4. QED
      BY <2>1, <3>3
  <2>4. QED
    BY <2>2, <2>3
<1>9. ServedNext(SendCalls(q), sendWaiters'[q], Size[q] - used'[q])
  <2>1. used'[q] = used[q] + 1 /\ sendWaiters'[q] = sendWaiters[q]
    BY <1>1, <1>4
  <2>2. Size[q] - used[q] \in Nat \ {0} /\ Size[q] - used'[q] = (Size[q] - used[q]) - 1
    BY <1>1, <1>4, <2>1
  <2>3. ServedNext(SendCalls(q), sendWaiters[q], (Size[q] - used[q]) - 1)
    BY <1>3, <1>4, <1>5, <1>6, <2>2, CallerUses
  <2>4. QED
    BY <2>1, <2>2, <2>3
<1>10. QED
  BY <1>7, <1>8, <1>9, LostWakeupSplits

(* A receive uses one message and makes one slot. *)
LEMMA ReceiveKeepsAccount ==
  ASSUME QueueInv, NEW q \in Queues, ReceiveMessage(q)
  PROVE  NoLostWakeup'
<1>1. /\ current # NoThread /\ pc[current] \in {Guest, ReceiveCall(q)}
      /\ used[q] > 0
      /\ used' = [used EXCEPT ![q] = @ - 1]
      /\ recvWaiters' = [recvWaiters EXCEPT ![q] = @ \ {current}]
  BY DEF ReceiveMessage, At
<1>2. PICK W \in SUBSET sendWaiters[q] :
        WakesFirst(sendWaiters[q], W) /\ sendWaiters' = [sendWaiters EXCEPT ![q] = @ \ W]
  BY DEF ReceiveMessage
<1>3. /\ pc' = [pc EXCEPT ![current] = pc'[current]] /\ pc'[current] = Guest
      /\ pc \in [Threads -> Sites] /\ UNCHANGED <<callbackThread, savedPc>>
  BY <1>1, <1>2, ServeWakes, CallMovesCaller
<1>4. /\ current \in Threads /\ used[q] \in 0..Size[q] /\ Size[q] \in Nat
      /\ recvWaiters \in [Queues -> SUBSET Threads] /\ sendWaiters \in [Queues -> SUBSET Threads]
      /\ used = [x \in Queues |-> used[x]]
      /\ \A x \in Queues : current \notin recvWaiters[x] /\ current \notin sendWaiters[x]
  BY <1>1, CallFacts, QueueConstants DEF TypeOK, OneOfEach
<1>5. \A x \in Queues : /\ Served({ReceiveCall(x)}, recvWaiters[x], used[x])
                        /\ Served(SendCalls(x), sendWaiters[x], Size[x] - used[x])
  BY <1>1, CallFacts, LostWakeupSplits
<1>6. ASSUME NEW x \in Queues
      PROVE  /\ pc[current] \notin SendCalls(x) /\ pc'[current] \notin SendCalls(x)
             /\ pc'[current] \notin {ReceiveCall(x)}
             /\ x # q => pc[current] \notin {ReceiveCall(x)}
  <2>1. /\ ReceiveCall(q) \notin SendCalls(x) /\ Guest \notin SendCalls(x)
        /\ Guest # ReceiveCall(x) /\ (x # q => ReceiveCall(q) # ReceiveCall(x))
    BY <1>4, CallsApart, QueueConstants DEF SendCalls, BlockingCalls, ReceiveCall
  <2>2. QED
    BY <1>1, <1>3, <2>1
<1>7. ASSUME NEW x \in Queues \ {q}
      PROVE  /\ ServedNext({ReceiveCall(x)}, recvWaiters'[x], used'[x])
             /\ ServedNext(SendCalls(x), sendWaiters'[x], Size[x] - used'[x])
  <2>1. recvWaiters'[x] = recvWaiters[x] /\ sendWaiters'[x] = sendWaiters[x] /\ used'[x] = used[x]
    BY <1>1, <1>2, <1>4
  <2>2. /\ ServedNext({ReceiveCall(x)}, recvWaiters[x], used[x])
        /\ ServedNext(SendCalls(x), sendWaiters[x], Size[x] - used[x])
    BY <1>3, <1>4, <1>5, <1>6, ServedStays
  <2>3. QED
    BY <2>1, <2>2
<1>8. ServedNext(SendCalls(q), sendWaiters'[q], Size[q] - used'[q])
  <2>1. /\ used'[q] = used[q] - 1 /\ sendWaiters'[q] = sendWaiters[q] \ W
        /\ Size[q] - used[q] \in Nat /\ Size[q] - used'[q] = (Size[q] - used[q]) + 1
    BY <1>1, <1>2, <1>4
  <2>2. CASE sendWaiters[q] = {}
    BY <2>1, <2>2 DEF ServedNext
  <2>3. CASE sendWaiters[q] # {}
    <3>1. PICK woken \in sendWaiters[q] : W = {woken}
      BY <1>2, <2>3, ServeWakes
    <3>2. pc[woken] \in SendCalls(q)
      BY <1>1, CallFacts DEF WaitersAtCall
    <3>3. ServedNext(SendCalls(q), sendWaiters'[q], (Size[q] - used[q]) + 1)
      BY <1>3, <1>4, <1>5, <1>6, <2>1, <3>1, <3>2, WakePays
    <3>4. QED
      BY <2>1, <3>3
  <2>4. QED
    BY <2>2, <2>3
<1>9. ServedNext({ReceiveCall(q)}, recvWaiters'[q], used'[q])
  <2>1. used'[q] = used[q] - 1 /\ recvWaiters'[q] = recvWaiters[q] /\ used[q] \in Nat \ {0}
    BY <1>1, <1>4
  <2>2. ServedNext({ReceiveCall(q)}, recvWaiters[q], used[q] - 1)
    BY <1>3, <1>4, <1>5, <1>6, <2>1, CallerUses
  <2>3. QED
    BY <2>1, <2>2
<1>10. QED
  BY <1>7, <1>8, <1>9, LostWakeupSplits

(* A thread waits only for what there is none of, so there is nothing to     *)
(* account for in its own direction; in the other nothing changes.           *)
LEMMA WaitKeepsAccount ==
  ASSUME QueueInv, NEW q \in Queues,
         \/ WaitToReceive(q)
         \/ \E m \in Messages, urgent \in BOOLEAN : WaitToSend(q, m, urgent)
  PROVE  NoLostWakeup'
<1>1. current # NoThread /\ used' = used
  BY DEF WaitToReceive, WaitToSend, At
<1>2. /\ current \in Threads /\ used[q] \in Nat /\ Size[q] \in Nat
      /\ recvWaiters \in [Queues -> SUBSET Threads] /\ sendWaiters \in [Queues -> SUBSET Threads]
  BY <1>1, CallFacts, QueueConstants DEF TypeOK
<1>3. \A x \in Queues : /\ Served({ReceiveCall(x)}, recvWaiters[x], used[x])
                        /\ Served(SendCalls(x), sendWaiters[x], Size[x] - used[x])
  BY <1>1, CallFacts, LostWakeupSplits
<1>4. ASSUME NEW calls, NEW list
      PROVE  ServedNext(calls, list, 0)
  BY CallersFinite DEF ServedNext, SetAside
<1>5. CASE WaitToReceive(q)
  <2>1. /\ pc[current] \in {Guest, ReceiveCall(q)} /\ used[q] = 0
        /\ recvWaiters' = [recvWaiters EXCEPT ![q] = @ \cup {current}]
        /\ sendWaiters' = sendWaiters /\ Block(q, ReceiveCall(q))
    BY <1>5 DEF WaitToReceive, At, BlockIn
  <2>2. /\ pc' = [pc EXCEPT ![current] = pc'[current]] /\ pc'[current] = ReceiveCall(q)
        /\ pc \in [Threads -> Sites] /\ UNCHANGED <<callbackThread, savedPc>>
    BY <1>1, <2>1, CallMovesCaller
  <2>3. ASSUME NEW x \in Queues
        PROVE  /\ pc[current] \notin SendCalls(x) /\ pc'[current] \notin SendCalls(x)
               /\ x # q => pc[current] \notin {ReceiveCall(x)} /\ pc'[current] \notin {ReceiveCall(x)}
    <3>1. /\ ReceiveCall(q) \notin SendCalls(x) /\ Guest \notin SendCalls(x)
          /\ Guest # ReceiveCall(x) /\ (x # q => ReceiveCall(q) # ReceiveCall(x))
      BY CallsApart, QueueConstants DEF SendCalls, BlockingCalls, ReceiveCall
    <3>2. QED
      BY <2>1, <2>2, <3>1
  <2>4. ASSUME NEW x \in Queues
        PROVE  ServedNext(SendCalls(x), sendWaiters'[x], Size[x] - used'[x])
    <3>1. ServedNext(SendCalls(x), sendWaiters[x], Size[x] - used[x])
      BY <1>2, <1>3, <2>2, <2>3, ServedStays
    <3>2. QED
      BY <1>1, <2>1, <3>1
  <2>5. ASSUME NEW x \in Queues \ {q}
        PROVE  ServedNext({ReceiveCall(x)}, recvWaiters'[x], used'[x])
    <3>1. ServedNext({ReceiveCall(x)}, recvWaiters[x], used[x])
      BY <1>2, <1>3, <2>2, <2>3, ServedStays
    <3>2. QED
      BY <1>1, <1>2, <2>1, <3>1
  <2>6. ServedNext({ReceiveCall(q)}, recvWaiters'[q], used'[q])
    BY <1>1, <1>4, <2>1
  <2>7. QED
    BY <2>4, <2>5, <2>6, LostWakeupSplits
<1>6. ASSUME NEW m \in Messages, NEW urgent \in BOOLEAN, WaitToSend(q, m, urgent)
      PROVE  NoLostWakeup'
  <2>1. /\ pc[current] \in {Guest, SendCall(q, m, urgent)} /\ used[q] = Size[q]
        /\ sendWaiters' = [sendWaiters EXCEPT ![q] = @ \cup {current}]
        /\ recvWaiters' = recvWaiters /\ Block(q, SendCall(q, m, urgent))
    BY <1>6 DEF WaitToSend, At, BlockIn
  <2>2. /\ pc' = [pc EXCEPT ![current] = pc'[current]] /\ pc'[current] = SendCall(q, m, urgent)
        /\ pc \in [Threads -> Sites] /\ UNCHANGED <<callbackThread, savedPc>>
    BY <1>1, <2>1, CallMovesCaller
  <2>3. ASSUME NEW x \in Queues
        PROVE  /\ pc[current] \notin {ReceiveCall(x)} /\ pc'[current] \notin {ReceiveCall(x)}
               /\ x # q => pc[current] \notin SendCalls(x) /\ pc'[current] \notin SendCalls(x)
    <3>1. /\ SendCall(q, m, urgent) # ReceiveCall(x) /\ Guest # ReceiveCall(x)
          /\ Guest \notin SendCalls(x)
          /\ x # q => SendCall(q, m, urgent) \notin SendCalls(x)
      BY CallsApart
    <3>2. QED
      BY <2>1, <2>2, <3>1
  <2>4. ASSUME NEW x \in Queues
        PROVE  ServedNext({ReceiveCall(x)}, recvWaiters'[x], used'[x])
    <3>1. ServedNext({ReceiveCall(x)}, recvWaiters[x], used[x])
      BY <1>2, <1>3, <2>2, <2>3, ServedStays
    <3>2. QED
      BY <1>1, <2>1, <3>1
  <2>5. ASSUME NEW x \in Queues \ {q}
        PROVE  ServedNext(SendCalls(x), sendWaiters'[x], Size[x] - used'[x])
    <3>1. ServedNext(SendCalls(x), sendWaiters[x], Size[x] - used[x])
      BY <1>2, <1>3, <2>2, <2>3, ServedStays
    <3>2. QED
      BY <1>1, <1>2, <2>1, <3>1
  <2>6. ServedNext(SendCalls(q), sendWaiters'[q], Size[q] - used'[q])
    BY <1>1, <1>2, <1>4, <2>1
  <2>7. QED
    BY <2>4, <2>5, <2>6, LostWakeupSplits
<1>7. QED
  BY <1>5, <1>6

(* Steps that touch no queue. *)
LEMMA OtherStepsKeepAccount ==
  ASSUME QueueInv, BetweenSlices \/ OtherCalls, UNCHANGED queueVars
  PROVE  NoLostWakeup'
<1>1. ASSUME NEW calls \in SUBSET (Sites \ {Guest}), NEW list \in SUBSET Threads, NEW amount,
             \A t \in list : waitObject[t] # NoObject, Served(calls, list, amount)
      PROVE  ServedNext(calls, list, amount)
  BY <1>1, OtherStepsKeepWoken, WokenCounts DEF QueueInv, Served, ServedNext
<1>2. ASSUME NEW x \in Queues
      PROVE  /\ ServedNext({ReceiveCall(x)}, recvWaiters[x], used[x])
             /\ ServedNext(SendCalls(x), sendWaiters[x], Size[x] - used[x])
  <2>1. {ReceiveCall(x)} \in SUBSET (Sites \ {Guest}) /\ SendCalls(x) \in SUBSET (Sites \ {Guest})
    BY QueueConstants DEF CallSites, BlockingCalls, SendCalls
  <2>2. /\ Served({ReceiveCall(x)}, recvWaiters[x], used[x])
        /\ Served(SendCalls(x), sendWaiters[x], Size[x] - used[x])
    BY LostWakeupSplits DEF QueueInv
  <2>3. QED
    BY <1>1, <2>1, <2>2, ListedBlocked
<1>3. QED
  BY <1>2, LostWakeupSplits DEF queueVars

-----------------------------------------------------------------------------
(* The ring. *)

(* An index that runs past the end of a ring by less than a round wraps once. *)
LEMMA WrapsOnce ==
  ASSUME NEW n \in Nat \ {0}, NEW a \in 0..(n - 1), NEW k \in 0..n
  PROVE  /\ (a + k) % n = IF a + k < n THEN a + k ELSE a + k - n
         /\ (a + k) % n \in 0..(n - 1)
<1>1. a + k < n => (a + k) % n = a + k
  OBVIOUS
<1>2. ASSUME a + k >= n
      PROVE  (a + k) % n = a + k - n
  <2>1. \A x \in n..(2 * n - 1) : x % n = x - n
    OBVIOUS
  <2>2. a + k \in n..(2 * n - 1)
    BY <1>2
  <2>3. QED
    BY <2>1, <2>2
<1>3. QED
  BY <1>1, <1>2

(* A message goes to a slot of the ring that holds none. *)
LEMMA SlotIsFree ==
  ASSUME QueueInv, NEW q \in Queues, NEW urgent \in BOOLEAN, used[q] < Size[q]
  PROVE  /\ first[q] \in Slots(q) /\ used[q] \in Nat /\ Size[q] \in Nat \ {0}
         /\ SlotFor(q, urgent) \in Slots(q)
         /\ \A i \in 1..used[q] : /\ (first[q] + i - 1) % Size[q] \in Slots(q)
                                  /\ (first[q] + i - 1) % Size[q] # SlotFor(q, urgent)
<1>1. /\ used[q] \in Nat /\ Size[q] \in Nat \ {0} /\ first[q] \in Slots(q)
  BY QueueConstants DEF QueueInv, TypeOK, Slots
<1>2. \A i \in 1..used[q] :
        /\ (first[q] + i - 1) % Size[q] = IF first[q] + i - 1 < Size[q] THEN first[q] + i - 1
                                          ELSE first[q] + i - 1 - Size[q]
        /\ (first[q] + i - 1) % Size[q] \in Slots(q)
  <2> TAKE i \in 1..used[q]
  <2>1. i - 1 \in 0..Size[q] /\ first[q] + (i - 1) = first[q] + i - 1
    BY <1>1 DEF Slots
  <2>2. QED
    BY <1>1, <2>1, WrapsOnce DEF Slots
<1>3. /\ (first[q] + used[q]) % Size[q] = IF first[q] + used[q] < Size[q] THEN first[q] + used[q]
                                          ELSE first[q] + used[q] - Size[q]
      /\ (first[q] + used[q]) % Size[q] \in Slots(q)
  <2>1. used[q] \in 0..Size[q] /\ first[q] \in 0..(Size[q] - 1)
    BY <1>1 DEF Slots
  <2>2. QED
    BY <1>1, <2>1, WrapsOnce DEF Slots
<1>4. QED
  BY <1>1, <1>2, <1>3 DEF SlotFor, Slots

(* The words of the queue keep their ranges. *)
LEMMA SendKeepsTypes ==
  ASSUME QueueInv, NEW q \in Queues, NEW m \in Messages, NEW urgent \in BOOLEAN,
         SendMessage(q, m, urgent)
  PROVE  /\ \A x \in Queues :
              /\ ring'[x] \in [Slots(x) -> Messages \cup {Empty}]
              /\ first'[x] \in Slots(x) \cup {0}
              /\ used'[x] \in 0..Size[x]
         /\ OneOfEach'
<1>1. /\ used[q] < Size[q]
      /\ ring' = [ring EXCEPT ![q][SlotFor(q, urgent)] = m]
      /\ first' = IF urgent THEN [first EXCEPT ![q] = SlotFor(q, urgent)] ELSE first
      /\ used' = [used EXCEPT ![q] = @ + 1]
  BY DEF SendMessage, Put
<1>2. SlotFor(q, urgent) \in Slots(q) /\ used[q] \in Nat /\ Size[q] \in Nat \ {0}
  BY <1>1, SlotIsFree
<1>3. OneOfEach /\ \A x \in Queues :
        /\ ring[x] \in [Slots(x) -> Messages \cup {Empty}]
        /\ first[x] \in Slots(x) \cup {0}
        /\ used[x] \in 0..Size[x]
  BY DEF QueueInv, TypeOK
<1>4. OneOfEach'
  BY <1>1, <1>3 DEF OneOfEach
<1>5. ASSUME NEW x \in Queues
      PROVE  /\ ring'[x] = IF x = q THEN [ring[q] EXCEPT ![SlotFor(q, urgent)] = m] ELSE ring[x]
             /\ first'[x] = IF urgent /\ x = q THEN SlotFor(q, urgent) ELSE first[x]
             /\ used'[x] = IF x = q THEN used[q] + 1 ELSE used[x]
  BY <1>1, <1>3 DEF OneOfEach
<1>6. QED
  BY <1>1, <1>2, <1>3, <1>4, <1>5

(* Slots are not emptied, only skipped. *)
LEMMA ReceiveKeepsTypes ==
  ASSUME QueueInv, NEW q \in Queues, ReceiveMessage(q)
  PROVE  /\ \A x \in Queues :
              /\ ring'[x] \in [Slots(x) -> Messages \cup {Empty}]
              /\ first'[x] \in Slots(x) \cup {0}
              /\ used'[x] \in 0..Size[x]
         /\ OneOfEach'
<1>1. /\ used[q] > 0 /\ ring' = ring
      /\ first' = [first EXCEPT ![q] = (@ + 1) % Size[q]]
      /\ used' = [used EXCEPT ![q] = @ - 1]
  BY DEF ReceiveMessage
<1>2. OneOfEach /\ \A x \in Queues :
        /\ ring[x] \in [Slots(x) -> Messages \cup {Empty}]
        /\ first[x] \in Slots(x) \cup {0}
        /\ used[x] \in 0..Size[x]
  BY DEF QueueInv, TypeOK
<1>3. Size[q] \in Nat \ {0} /\ used[q] \in 0..Size[q] /\ first[q] \in 0..(Size[q] - 1)
  BY <1>1, <1>2, QueueConstants DEF Slots
<1>4. (first[q] + 1) % Size[q] \in Slots(q)
  <2>1. 1 \in 0..Size[q]
    BY <1>3
  <2>2. QED
    BY <1>3, <2>1, WrapsOnce DEF Slots
<1>5. OneOfEach'
  BY <1>1, <1>2 DEF OneOfEach
<1>6. ASSUME NEW x \in Queues
      PROVE  /\ first'[x] = IF x = q THEN (first[q] + 1) % Size[q] ELSE first[x]
             /\ used'[x] = IF x = q THEN used[q] - 1 ELSE used[x]
  BY <1>1, <1>2 DEF OneOfEach
<1>7. QED
  BY <1>1, <1>2, <1>3, <1>4, <1>5, <1>6

-----------------------------------------------------------------------------
(* The invariant. *)

(* The invariant without its thread part, which ThreadStep keeps.            *)
QueuePart ==
  /\ WaiterTypeOK
  /\ \A q \in Queues :
       /\ ring[q] \in [Slots(q) -> Messages \cup {Empty}]
       /\ first[q] \in Slots(q) \cup {0}
       /\ used[q] \in 0..Size[q]
  /\ sendWaiters \in [Queues -> SUBSET Threads]
  /\ recvWaiters \in [Queues -> SUBSET Threads]
  /\ OneOfEach
  /\ WaitersAtCall
  /\ WaitersBlocked
  /\ NoLostWakeup

(* A send keeps the invariant. *)
LEMMA SendKeeps ==
  ASSUME QueueInv, NEW q \in Queues, NEW m \in Messages, NEW urgent \in BOOLEAN,
         SendMessage(q, m, urgent)
  PROVE  QueuePart'
<1>1. current # NoThread /\ sendWaiters' = [sendWaiters EXCEPT ![q] = @ \ {current}]
  BY DEF SendMessage, At
<1>2. PICK W \in SUBSET recvWaiters[q] :
        /\ WakesFirst(recvWaiters[q], W)
        /\ recvWaiters' = [recvWaiters EXCEPT ![q] = @ \ W]
        /\ Depart(W \cup {current})
  BY DEF SendMessage
<1>3. recvWaiters \in [Queues -> SUBSET Threads] /\ sendWaiters \in [Queues -> SUBSET Threads]
  BY <1>1, CallFacts DEF TypeOK
<1>4. sendWaiters' = [sendWaiters EXCEPT ![q] = @ \ W]
  <2>1. sendWaiters[q] \ {current} = sendWaiters[q] \ W
    BY <1>1, <1>2, CallFacts, ListedBlocked
  <2>2. QED
    BY <1>1, <2>1
<1>5. WaitersBlocked' /\ WaitersAtCall'
  BY <1>1, <1>2, <1>4, ServeWakes, ServeKeeps
<1>6. WaiterTypeOK'
  BY <1>1, <1>2, CallFacts DEF Depart, TypeOK, WaiterTypeOK
<1>7. sendWaiters' \in [Queues -> SUBSET Threads] /\ recvWaiters' \in [Queues -> SUBSET Threads]
  BY <1>1, <1>2, <1>3
<1>8. QED
  BY <1>5, <1>6, <1>7, SendKeepsTypes, SendKeepsAccount DEF QueuePart, Slots

(* A receive keeps the invariant. *)
LEMMA ReceiveKeeps ==
  ASSUME QueueInv, NEW q \in Queues, ReceiveMessage(q)
  PROVE  QueuePart'
<1>1. current # NoThread /\ recvWaiters' = [recvWaiters EXCEPT ![q] = @ \ {current}]
  BY DEF ReceiveMessage, At
<1>2. PICK W \in SUBSET sendWaiters[q] :
        /\ WakesFirst(sendWaiters[q], W)
        /\ sendWaiters' = [sendWaiters EXCEPT ![q] = @ \ W]
        /\ Depart(W \cup {current})
  BY DEF ReceiveMessage
<1>3. recvWaiters \in [Queues -> SUBSET Threads] /\ sendWaiters \in [Queues -> SUBSET Threads]
  BY <1>1, CallFacts DEF TypeOK
<1>4. recvWaiters' = [recvWaiters EXCEPT ![q] = @ \ W]
  <2>1. recvWaiters[q] \ {current} = recvWaiters[q] \ W
    BY <1>1, <1>2, CallFacts, ListedBlocked
  <2>2. QED
    BY <1>1, <2>1
<1>5. WaitersBlocked' /\ WaitersAtCall'
  BY <1>1, <1>2, <1>4, ServeWakes, ServeKeeps
<1>6. WaiterTypeOK'
  BY <1>1, <1>2, CallFacts DEF Depart, TypeOK, WaiterTypeOK
<1>7. sendWaiters' \in [Queues -> SUBSET Threads] /\ recvWaiters' \in [Queues -> SUBSET Threads]
  BY <1>1, <1>2, <1>3
<1>8. QED
  BY <1>5, <1>6, <1>7, ReceiveKeepsTypes, ReceiveKeepsAccount DEF QueuePart, Slots

(* A wait keeps the invariant. *)
LEMMA WaitStepKeeps ==
  ASSUME QueueInv, NEW q \in Queues,
         \/ WaitToReceive(q)
         \/ \E m \in Messages, urgent \in BOOLEAN : WaitToSend(q, m, urgent)
  PROVE  QueuePart'
<1>1. current # NoThread /\ UNCHANGED <<ring, first, used>>
  BY DEF WaitToReceive, WaitToSend, At
<1>2. /\ current \in Threads /\ TypeOK /\ OneOfEach
      /\ recvWaiters \in [Queues -> SUBSET Threads] /\ sendWaiters \in [Queues -> SUBSET Threads]
  BY <1>1, CallFacts DEF TypeOK
<1>3. WaitersBlocked' /\ WaitersAtCall'
  <2>1. CASE WaitToReceive(q)
    <3>1. ReceiveCall(q) \in Sites
      BY QueueConstants DEF CallSites, BlockingCalls
    <3>2. QED
      BY <1>1, <2>1, <3>1, WaitKeeps DEF WaitToReceive, BlockIn
  <2>2. ASSUME NEW m \in Messages, NEW urgent \in BOOLEAN, WaitToSend(q, m, urgent)
        PROVE  WaitersBlocked' /\ WaitersAtCall'
    <3>1. SendCall(q, m, urgent) \in Sites /\ SendCall(q, m, urgent) \in SendCalls(q)
      BY CallsApart
    <3>2. QED
      BY <1>1, <2>2, <3>1, WaitKeeps DEF WaitToSend, BlockIn
  <2>3. QED
    BY <2>1, <2>2
<1>4. WaiterTypeOK' /\ sendWaiters' \in [Queues -> SUBSET Threads]
      /\ recvWaiters' \in [Queues -> SUBSET Threads]
  BY <1>2 DEF WaitToReceive, WaitToSend, BlockIn, Arrive, WaiterTypeOK, TypeOK
<1>5. QED
  BY <1>1, <1>2, <1>3, <1>4, WaitKeepsAccount DEF QueuePart, TypeOK, OneOfEach, Slots

(* Steps that touch no queue. *)
LEMMA OtherStepsKeep ==
  ASSUME QueueInv, BetweenSlices \/ OtherCalls, UNCHANGED queueVars
  PROVE  QueuePart'
<1>1. ThreadInv /\ TypeOK /\ OneOfEach /\ WaitersAtCall /\ WaitersBlocked
  BY DEF QueueInv
<1>2. WaitersBlocked'
  BY <1>1, OtherStepsKeepBlocked DEF WaitersBlocked, queueVars, Queues
<1>3. WaitersAtCall'
  <2>1. \A q \in Queues : \A t \in recvWaiters[q] \cup sendWaiters[q] :
          t \in Threads /\ pc'[t] = pc[t]
    BY <1>1, <1>2, OtherStepsKeepBlocked, ThreadConstants
    DEF StaysAtCall, WaitersBlocked, Blocked, queueVars, Queues
  <2>2. QED
    BY <1>1, <2>1 DEF WaitersAtCall, queueVars
<1>4. QED
  BY <1>1, <1>2, <1>3, OtherStepsKeepAccount
  DEF QueuePart, TypeOK, OneOfEach, Slots, queueVars, WaiterTypeOK

(* One step, or none, keeps the invariant. *)
LEMMA QueueStep ==
  ASSUME QueueInv, [Next]_vars
  PROVE  QueueInv'
<1>1. ThreadInv'
  BY NextIsThreadStep, ThreadStep DEF QueueInv
<1>2. CASE Next
  <2>1. QueuePart'
    BY <1>2, OtherStepsKeep, SendKeeps, ReceiveKeeps, WaitStepKeeps DEF Next, QueueCalls
  <2>2. QED
    BY <1>1, <2>1 DEF QueueInv, QueuePart, TypeOK, ThreadInv
<1>3. CASE UNCHANGED vars
  <2>1. TypeOK' /\ OneOfEach' /\ WaitersAtCall' /\ WaitersBlocked'
    BY <1>3
    DEF vars, queueVars, threadVars, QueueInv, TypeOK, ThreadTypeOK, WaiterTypeOK, OneOfEach,
        WaitersAtCall, WaitersBlocked, Blocked, Slots
  <2>2. NoLostWakeup'
    BY <1>3 DEF vars, queueVars, threadVars, QueueInv, NoLostWakeup, Woken
  <2>3. QED
    BY <1>1, <2>1, <2>2 DEF QueueInv
<1>4. QED
  BY <1>2, <1>3

(* The inductive invariant holds in every state any guest can reach. *)
THEOREM QueueInvariant == Spec => []QueueInv
<1>1. Init => QueueInv
  BY QueueStart
<1>2. QueueInv /\ [Next]_vars => QueueInv'
  BY QueueStep
<1>3. QED
  BY <1>1, <1>2, PTL DEF Spec

(* Every index stays in the ring of its queue, for every capacity.           *)
THEOREM QueueTypes == Spec => []TypeOK
BY QueueInvariant, PTL DEF QueueInv

(* Every wait is listed, and no thread is left waiting for a message or a    *)
(* slot without a woken thread on its way to it: barging threads included,   *)
(* whatever the priorities and however callbacks borrow the woken threads.   *)
THEOREM NoWakeLost == Spec => []WaitersAccounted
BY QueueInvariant, PTL DEF QueueInv, WaitersAccounted

(* A queue is a client of the thread machine and nothing more.               *)
THEOREM QueueImplementsThreads == Spec => ThreadSpec
<1>1. Init => ThreadInit
  BY DEF Init
<1>2. QueueInv /\ [Next]_vars => [ThreadNext]_threadVars
  BY NextIsThreadStep
<1>3. QED
  BY <1>1, <1>2, QueueInvariant, PTL DEF Spec, ThreadSpec

-----------------------------------------------------------------------------
(* The channel. *)

(* What a queue holds is a sequence, with as many messages as its count says. *)
LEMMA ContentsSeq ==
  ASSUME QueueInv, NEW q \in Queues
  PROVE  /\ Contents[q] \in Seq(Messages \cup {Empty})
         /\ Len(Contents[q]) = used[q] /\ used[q] \in Nat
         /\ \A i \in 1..used[q] : Contents[q][i] = ring[q][(first[q] + i - 1) % Size[q]]
         /\ DOMAIN Contents[q] = 1..used[q]
<1>1. used[q] \in 0..Size[q] /\ Size[q] \in Nat /\ used[q] \in Nat
      /\ ring[q] \in [Slots(q) -> Messages \cup {Empty}]
  BY QueueConstants DEF QueueInv, TypeOK
<1>2. Contents[q] = [i \in 1..used[q] |-> ring[q][(first[q] + i - 1) % Size[q]]]
  BY DEF Contents
<1>3. \A i \in 1..used[q] : (first[q] + i - 1) % Size[q] \in Slots(q)
  <2>1. Size[q] = 0 \/ first[q] \in 0..(Size[q] - 1)
    BY <1>1 DEF QueueInv, TypeOK, Slots
  <2>2. ASSUME NEW i \in 1..used[q]
        PROVE  (first[q] + i - 1) % Size[q] \in Slots(q)
    <3>1. /\ Size[q] \in Nat \ {0} /\ first[q] \in 0..(Size[q] - 1) /\ i - 1 \in 0..Size[q]
          /\ first[q] + (i - 1) = first[q] + i - 1
      BY <1>1, <2>1, <2>2
    <3>2. (first[q] + (i - 1)) % Size[q] \in 0..(Size[q] - 1)
      BY <3>1, WrapsOnce
    <3>3. QED
      BY <3>1, <3>2 DEF Slots
  <2>3. QED
    BY <2>2
<1>4. Contents[q] \in [1..used[q] -> Messages \cup {Empty}]
  BY <1>1, <1>2, <1>3
<1>5. Contents[q] \in Seq(Messages \cup {Empty})
  BY <1>1, <1>4, SeqDef
<1>6. Len(Contents[q]) = used[q]
  BY <1>1, <1>4, <1>5, LenProperties
<1>7. QED
  BY <1>1, <1>2, <1>4, <1>5, <1>6

(* Two sequences with the same elements are the same. *)
LEMMA SameContents ==
  ASSUME QueueInv', NEW q \in Queues, NEW s \in Seq(Messages \cup {Empty}),
         Len(s) = used'[q],
         \A i \in 1..Len(s) : s[i] = ring'[q][(first'[q] + i - 1) % Size[q]]
  PROVE  Contents'[q] = s
<1>1. DOMAIN s = 1..Len(s) /\ Len(s) \in Nat /\ s \in [1..Len(s) -> Messages \cup {Empty}]
  BY LenProperties
<1>2. Contents'[q] = [i \in 1..used'[q] |-> ring'[q][(first'[q] + i - 1) % Size[q]]]
  BY DEF Contents
<1>3. s = [i \in 1..Len(s) |-> s[i]]
  BY <1>1
<1>4. QED
  BY <1>2, <1>3

(* Other queues hold what they held. *)
LEMMA OthersUntouched ==
  ASSUME NEW q \in Queues, NEW s,
         \A x \in Queues \ {q} : ring'[x] = ring[x] /\ first'[x] = first[x] /\ used'[x] = used[x],
         Contents'[q] = s
  PROVE  Contents' = [Contents EXCEPT ![q] = s]
<1>1. \A x \in Queues \ {q} : Contents'[x] = Contents[x]
  BY DEF Contents
<1>2. DOMAIN Contents' = Queues /\ Contents' = [x \in Queues |-> Contents'[x]]
  BY DEF Contents
<1>3. DOMAIN Contents = Queues /\ Contents = [x \in Queues |-> Contents[x]]
  BY DEF Contents
<1>4. QED
  BY <1>1, <1>2, <1>3

(* A send of the ring is a send of the channel, at the end the flag says.    *)
LEMMA SendIsChannelStep ==
  ASSUME QueueInv, QueueInv', NEW q \in Queues, NEW m \in Messages, NEW urgent \in BOOLEAN,
         SendMessage(q, m, urgent)
  PROVE  Channel!Send(q, m) \/ Channel!SendUrgent(q, m)
<1>1. /\ used[q] < Size[q]
      /\ ring' = [ring EXCEPT ![q][SlotFor(q, urgent)] = m]
      /\ first' = IF urgent THEN [first EXCEPT ![q] = SlotFor(q, urgent)] ELSE first
      /\ used' = [used EXCEPT ![q] = @ + 1]
  BY DEF SendMessage, Put
<1>2. /\ first[q] \in 0..(Size[q] - 1) /\ used[q] \in Nat /\ Size[q] \in Nat \ {0}
      /\ SlotFor(q, urgent) \in 0..(Size[q] - 1)
      /\ \A i \in 1..used[q] : /\ (first[q] + i - 1) % Size[q] \in 0..(Size[q] - 1)
                               /\ (first[q] + i - 1) % Size[q] # SlotFor(q, urgent)
  BY <1>1, SlotIsFree DEF Slots
<1>3. OneOfEach /\ ring[q] \in [0..(Size[q] - 1) -> Messages \cup {Empty}]
  BY DEF QueueInv, TypeOK, Slots
<1>4. /\ \A k \in 0..(Size[q] - 1) :
           ring'[q][k] = IF k = SlotFor(q, urgent) THEN m ELSE ring[q][k]
      /\ first'[q] = IF urgent THEN SlotFor(q, urgent) ELSE first[q]
      /\ used'[q] = used[q] + 1
      /\ \A x \in Queues \ {q} : ring'[x] = ring[x] /\ first'[x] = first[x] /\ used'[x] = used[x]
  BY <1>1, <1>2, <1>3 DEF OneOfEach
<1>5. /\ Contents[q] \in Seq(Messages \cup {Empty}) /\ Len(Contents[q]) = used[q]
      /\ \A i \in 1..used[q] : Contents[q][i] = ring[q][(first[q] + i - 1) % Size[q]]
  BY ContentsSeq
<1>6. CASE ~urgent
  <2> DEFINE s == Append(Contents[q], m)
  <2>1. /\ s \in Seq(Messages \cup {Empty}) /\ Len(s) = used[q] + 1
        /\ \A i \in 1..used[q] : s[i] = Contents[q][i]
        /\ s[used[q] + 1] = m
    BY <1>2, <1>5, AppendProperties
  <2>2. ASSUME NEW i \in 1..(used[q] + 1)
        PROVE  s[i] = ring'[q][(first'[q] + i - 1) % Size[q]]
    <3>1. CASE i = used[q] + 1
      <4>1. first'[q] + i - 1 = first[q] + used[q]
        BY <1>2, <1>4, <1>6, <3>1
      <4>2. (first'[q] + i - 1) % Size[q] = SlotFor(q, urgent)
        BY <1>6, <4>1 DEF SlotFor
      <4>3. QED
        BY <1>2, <1>4, <2>1, <3>1, <4>2
    <3>2. CASE i \in 1..used[q]
      <4>1. s[i] = ring[q][(first[q] + i - 1) % Size[q]] /\ first'[q] = first[q]
        BY <1>4, <1>5, <1>6, <2>1, <3>2
      <4>2. QED
        BY <1>2, <1>4, <1>6, <3>2, <4>1
    <3>3. i = used[q] + 1 \/ i \in 1..used[q]
      BY <1>2
    <3>4. QED
      BY <3>1, <3>2, <3>3
  <2> HIDE DEF s
  <2>3. Contents'[q] = s
    <3>1. Len(s) = used'[q] /\ 1..Len(s) = 1..(used[q] + 1)
      BY <1>4, <2>1
    <3>2. \A i \in 1..Len(s) : s[i] = ring'[q][(first'[q] + i - 1) % Size[q]]
      BY <2>2, <3>1, Zenon
    <3>3. QED
      BY ONLY QueueInv', q \in Queues, <2>1, <3>1, <3>2, SameContents, Zenon
  <2> USE DEF s
  <2>4. Contents' = [Contents EXCEPT ![q] = Append(@, m)]
    BY <1>4, <2>3, OthersUntouched
  <2>5. QED
    BY <1>1, <1>5, <2>4 DEF Channel!Send
<1>7. CASE urgent
  <2> DEFINE s == <<m>> \o Contents[q]
  <2>1. <<m>> \in Seq(Messages \cup {Empty}) /\ Len(<<m>>) = 1 /\ <<m>>[1] = m
    OBVIOUS
  <2>2. /\ s \in Seq(Messages \cup {Empty}) /\ Len(s) = used[q] + 1
        /\ s[1] = m
        /\ \A i \in 2..(used[q] + 1) : s[i] = Contents[q][i - 1]
    BY <1>2, <1>5, <2>1, ConcatProperties
  <2>3. /\ first'[q] = SlotFor(q, urgent)
        /\ first'[q] = IF first[q] = 0 THEN Size[q] - 1 ELSE first[q] - 1
    BY <1>4, <1>7 DEF SlotFor
  <2>4. ASSUME NEW i \in 1..(used[q] + 1)
        PROVE  s[i] = ring'[q][(first'[q] + i - 1) % Size[q]]
    <3>1. (first'[q] + (i - 1)) % Size[q] = IF first'[q] + (i - 1) < Size[q] THEN first'[q] + (i - 1)
                                           ELSE first'[q] + (i - 1) - Size[q]
      <4>1. i - 1 \in 0..Size[q] /\ first'[q] \in 0..(Size[q] - 1)
        BY <1>1, <1>2, <2>3
      <4>2. QED
        BY <1>2, <4>1, WrapsOnce
    <3>2. first'[q] + (i - 1) = first'[q] + i - 1
      BY <1>2, <2>3
    <3>3. CASE i = 1
      <4>1. i - 1 = 0 /\ first'[q] + (i - 1) = SlotFor(q, urgent)
        BY <1>2, <2>3, <3>3
      <4>2. (first'[q] + i - 1) % Size[q] = SlotFor(q, urgent)
        BY <1>2, <3>1, <3>2, <4>1
      <4>3. ring'[q][SlotFor(q, urgent)] = m
        BY <1>2, <1>4
      <4>4. QED
        BY <2>2, <3>3, <4>2, <4>3
    <3>4. CASE i \in 2..(used[q] + 1)
      <4>1. i - 1 \in 1..used[q] /\ i - 2 \in 0..Size[q]
        BY <1>1, <1>2, <3>4
      <4>2. (first[q] + (i - 2)) % Size[q] = IF first[q] + (i - 2) < Size[q] THEN first[q] + (i - 2)
                                            ELSE first[q] + (i - 2) - Size[q]
        BY <1>2, <4>1, WrapsOnce
      <4>3. (first'[q] + i - 1) % Size[q] = (first[q] + (i - 1) - 1) % Size[q]
        <5>1. first[q] + (i - 1) - 1 = first[q] + (i - 2)
          BY <1>2, <4>1
        <5>2. QED
          BY <1>1, <1>2, <2>3, <3>1, <3>2, <4>1, <4>2, <5>1
      <4>4. /\ (first[q] + (i - 1) - 1) % Size[q] \in 0..(Size[q] - 1)
            /\ (first[q] + (i - 1) - 1) % Size[q] # SlotFor(q, urgent)
        BY <1>2, <4>1
      <4>5. QED
        BY <1>4, <1>5, <2>2, <3>4, <4>1, <4>3, <4>4
    <3>5. i = 1 \/ i \in 2..(used[q] + 1)
      BY <1>2
    <3>6. QED
      BY <3>3, <3>4, <3>5
  <2> HIDE DEF s
  <2>5. Contents'[q] = s
    <3>1. Len(s) = used'[q] /\ 1..Len(s) = 1..(used[q] + 1)
      BY <1>4, <2>2
    <3>2. \A i \in 1..Len(s) : s[i] = ring'[q][(first'[q] + i - 1) % Size[q]]
      BY <2>4, <3>1, Zenon
    <3>3. QED
      BY ONLY QueueInv', q \in Queues, <2>2, <3>1, <3>2, SameContents, Zenon
  <2> USE DEF s
  <2>6. Contents' = [Contents EXCEPT ![q] = <<m>> \o @]
    BY <1>4, <2>5, OthersUntouched
  <2>7. QED
    BY <1>1, <1>5, <2>6 DEF Channel!SendUrgent
<1>8. QED
  BY <1>6, <1>7


(* A receive of the ring takes the front of the channel. *)
LEMMA ReceiveIsChannelStep ==
  ASSUME QueueInv, QueueInv', NEW q \in Queues, ReceiveMessage(q)
  PROVE  Channel!Receive(q)
<1>1. /\ used[q] > 0
      /\ first' = [first EXCEPT ![q] = (@ + 1) % Size[q]]
      /\ used' = [used EXCEPT ![q] = @ - 1]
      /\ ring' = ring
  BY DEF ReceiveMessage
<1>2. /\ used[q] \in 1..Size[q] /\ used[q] \in Nat \ {0} /\ Size[q] \in Nat \ {0}
      /\ first[q] \in 0..(Size[q] - 1)
  BY <1>1, QueueConstants DEF QueueInv, TypeOK, Slots
<1>3. /\ first'[q] = (first[q] + 1) % Size[q] /\ used'[q] = used[q] - 1 /\ ring'[q] = ring[q]
      /\ \A x \in Queues \ {q} : ring'[x] = ring[x] /\ first'[x] = first[x] /\ used'[x] = used[x]
  BY <1>1 DEF QueueInv, OneOfEach
<1>4. /\ Contents[q] \in Seq(Messages \cup {Empty}) /\ Len(Contents[q]) = used[q]
      /\ \A i \in 1..used[q] : Contents[q][i] = ring[q][(first[q] + i - 1) % Size[q]]
  BY ContentsSeq
<1>5. Contents[q] # <<>>
  BY <1>2, <1>4
<1> DEFINE s == Tail(Contents[q])
<1>6. /\ s \in Seq(Messages \cup {Empty}) /\ Len(s) = used[q] - 1
      /\ \A i \in 1..(used[q] - 1) : s[i] = Contents[q][i + 1]
  BY <1>4, <1>5, HeadTailProperties
<1>7. ASSUME NEW i \in 1..(used[q] - 1)
      PROVE  s[i] = ring'[q][(first'[q] + i - 1) % Size[q]]
  <2>1. /\ i + 1 \in 1..used[q] /\ i - 1 \in 0..Size[q] /\ i \in 0..Size[q] /\ 1 \in 0..Size[q]
        /\ first[q] + (i + 1) - 1 = first[q] + i
    BY <1>2
  <2>2. first'[q] = (IF first[q] + 1 < Size[q] THEN first[q] + 1 ELSE first[q] + 1 - Size[q])
        /\ first'[q] \in 0..(Size[q] - 1)
    BY <1>2, <1>3, <2>1, WrapsOnce
  <2>3. (first[q] + i) % Size[q] = IF first[q] + i < Size[q] THEN first[q] + i
                                   ELSE first[q] + i - Size[q]
    BY <1>2, <2>1, WrapsOnce
  <2>4. (first'[q] + (i - 1)) % Size[q] = IF first'[q] + (i - 1) < Size[q] THEN first'[q] + (i - 1)
                                          ELSE first'[q] + (i - 1) - Size[q]
    BY <1>2, <2>1, <2>2, WrapsOnce
  <2>5. first'[q] + (i - 1) = first'[q] + i - 1
    BY <1>2, <2>2
  <2>6. i < Size[q] /\ i >= 1 /\ i \in Int
    BY <1>2
  <2>7. (first'[q] + i - 1) % Size[q] = (first[q] + (i + 1) - 1) % Size[q]
    <3>1. CASE first[q] + 1 < Size[q]
      BY <1>2, <2>1, <2>2, <2>3, <2>4, <2>5, <2>6, <3>1
    <3>2. CASE first[q] + 1 >= Size[q]
      <4>1. first[q] = Size[q] - 1 /\ first'[q] = 0
        BY <1>2, <2>2, <3>2
      <4>2. first'[q] + (i - 1) = i - 1 /\ first[q] + i = Size[q] + i - 1
        BY <1>2, <2>6, <4>1
      <4>3. (first'[q] + (i - 1)) % Size[q] = i - 1
        BY <1>2, <2>4, <2>6, <4>2
      <4>4. (first[q] + i) % Size[q] = i - 1
        BY <1>2, <2>3, <2>6, <4>2
      <4>5. QED
        BY <2>1, <2>5, <4>3, <4>4
    <3>3. QED
      BY <1>2, <3>1, <3>2
  <2>8. QED
    BY <1>3, <1>4, <1>6, <2>1, <2>7
<1>8. Contents'[q] = s
  BY <1>3, <1>6, <1>7, SameContents
<1>9. Contents' = [Contents EXCEPT ![q] = Tail(@)]
  BY <1>3, <1>8, OthersUntouched
<1>10. QED
  BY <1>5, <1>9 DEF Channel!Receive

(* Every other step leaves what the queues hold alone. *)
LEMMA NextIsChannelStep ==
  ASSUME QueueInv, QueueInv', [Next]_vars
  PROVE  [Channel!Next]_Contents
<1>1. ASSUME UNCHANGED <<ring, first, used>>
      PROVE  UNCHANGED Contents
  BY <1>1 DEF Contents
<1>2. CASE UNCHANGED vars
  BY <1>1, <1>2 DEF vars, queueVars
<1>3. CASE (BetweenSlices \/ OtherCalls) /\ UNCHANGED queueVars
  BY <1>1, <1>3 DEF queueVars
<1>4. ASSUME NEW q \in Queues, QueueCalls(q)
      PROVE  [Channel!Next]_Contents
  <2>1. ASSUME NEW m \in Messages, NEW urgent \in BOOLEAN, SendMessage(q, m, urgent)
        PROVE  Channel!Next
    BY <2>1, SendIsChannelStep DEF Channel!Next
  <2>2. ASSUME NEW m \in Messages, NEW urgent \in BOOLEAN, WaitToSend(q, m, urgent)
        PROVE  UNCHANGED Contents
    BY <1>1, <2>2 DEF WaitToSend
  <2>3. CASE ReceiveMessage(q)
    BY <2>3, ReceiveIsChannelStep DEF Channel!Next
  <2>4. CASE WaitToReceive(q)
    BY <1>1, <2>4 DEF WaitToReceive
  <2>5. QED
    BY <1>4, <2>1, <2>2, <2>3, <2>4 DEF QueueCalls
<1>5. QED
  BY <1>2, <1>3, <1>4 DEF Next

(* The ring is a bounded queue: whatever wraps, barges, waits or runs a      *)
(* callback in between, no message is lost, overwritten, duplicated or taken *)
(* out of order.                                                             *)
THEOREM RingImplementsChannel == Spec => ImplementsChannel
<1>1. Init => Channel!Init
  <2>1. ASSUME Init, NEW q \in Queues
        PROVE  Contents[q] = <<>>
    <3>1. used[q] = 0
      BY <2>1 DEF Init
    <3>2. Contents[q] = [i \in {} |-> ring[q][(first[q] + i - 1) % Size[q]]]
      BY <3>1 DEF Contents
    <3>3. QED
      BY <3>2
  <2>2. QED
    BY <2>1 DEF Channel!Init, Contents
<1>2. QueueInv /\ QueueInv' /\ [Next]_vars => [Channel!Next]_Contents
  BY NextIsChannelStep
<1>3. QED
  BY <1>1, <1>2, QueueInvariant, PTL DEF Spec, ImplementsChannel, Channel!Spec
=============================================================================
