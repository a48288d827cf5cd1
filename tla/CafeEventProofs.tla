--------------------------- MODULE CafeEventProofs ---------------------------
(***************************************************************************)
(* OSEvent is safe for every set of threads and events, every priority     *)
(* assignment and every choice of the modes: the invariant of the run      *)
(* event follows from an inductive invariant, and so does the account of   *)
(* the releases.                                                           *)
(***************************************************************************)
EXTENDS CafeEvent, CafeThreadsProofs, FiniteSetTheorems

(* The call a blocked thread is blocked in is the one it will re-execute:    *)
(* without it a signal could grant a release to a thread that is not asking. *)
BlockedAtCall ==
  \A t \in Threads : waitObject[t] # NoObject => pc[t] = waitObject[t]

EventInv ==
  /\ ThreadInv
  /\ TypeOK
  /\ BlockedAtCall
  /\ WaitersBlocked
  /\ SignalledHasNoWaiters
  /\ GrantIsAwaited

(* Events nobody has used satisfy the invariant. *)
LEMMA EventStart == Init => EventInv
<1> SUFFICES ASSUME Init PROVE EventInv
  OBVIOUS
<1>1. ThreadInv
  BY ThreadStart DEF Init
<1>2. TypeOK
  BY <1>1 DEF Init, TypeOK, ThreadInv, WaiterTypeOK, WaiterInit
<1>3. BlockedAtCall /\ WaitersBlocked
  BY ThreadConstants
  DEF Init, ThreadInit, BlockedAtCall, WaitersBlocked, Blocked, Events
<1>4. SignalledHasNoWaiters /\ GrantIsAwaited
  BY DEF Init, SignalledHasNoWaiters, GrantIsAwaited
<1>5. QED
  BY <1>1, <1>2, <1>3, <1>4 DEF EventInv

-----------------------------------------------------------------------------
(* Every call of the event is a step of the thread machine. *)

(* What a signal releases is blocked, so the machine may wake it. *)
LEMMA WaitersWakeable ==
  ASSUME EventInv, NEW e \in Events
  PROVE  waiters[e] \in SUBSET Wakeable
BY DEF EventInv, WaitersBlocked, Blocked, Wakeable

(* Each way through an event call moves threads as one call of the machine.  *)
LEMMA EventCallsAreThreadSteps ==
  ASSUME EventInv, NEW e \in Events,
         WaitEvent(e) \/ SignalEvent(e) \/ SignalEventAll(e) \/ ResetEvent(e)
  PROVE  ThreadNext
<1>1. Guest \in Sites /\ e \in Sites /\ e \in Objects
  BY ThreadConstants, EventConstants DEF Events
<1>2. ASSUME NEW W \in SUBSET Wakeable, Continue(W, Guest) \/ Reschedule(W, Guest)
      PROVE  ThreadNext
  BY <1>1, <1>2 DEF ThreadNext, InSlice
<1>3. ASSUME Continue({}, Guest)
      PROVE  ThreadNext
  BY <1>2, <1>3
<1>4. ASSUME Block(e, e)
      PROVE  ThreadNext
  BY <1>1, <1>4 DEF ThreadNext, InSlice
<1>5. ASSUME NEW woken \in Threads, IsFirst(woken, waiters[e]), Reschedule({woken}, Guest)
      PROVE  ThreadNext
  BY <1>2, <1>5, WaitersWakeable DEF IsFirst
<1>6. ASSUME Reschedule(waiters[e], Guest)
      PROVE  ThreadNext
  BY <1>2, <1>6, WaitersWakeable
<1>7. QED
  BY <1>3, <1>4, <1>5, <1>6
  DEF WaitEvent, TakeGrant, PassSignalled, WaitForSignal, SignalEvent, SignalEventAll,
      SignalNobody, ReleaseFirst, ReleaseAll, ResetEvent

(* Every step of the event guest is a step of the thread machine.            *)
LEMMA NextIsThreadStep ==
  ASSUME EventInv, [Next]_vars
  PROVE  [ThreadNext]_threadVars
BY EventCallsAreThreadSteps, OtherStepsAreThreadSteps DEF Next, vars

-----------------------------------------------------------------------------
(* The calls. *)

(* The invariant without its thread part, which ThreadStep keeps.            *)
EventPart ==
  /\ WaiterTypeOK
  /\ value \in [Events -> BOOLEAN]
  /\ waiters \in [Events -> SUBSET Threads]
  /\ granted \in [Events -> SUBSET Threads]
  /\ BlockedAtCall
  /\ WaitersBlocked
  /\ SignalledHasNoWaiters
  /\ GrantIsAwaited

(* What the steps below have in common. *)
LEMMA CallFacts ==
  ASSUME EventInv, current # NoThread
  PROVE  /\ ThreadInv /\ TypeOK /\ BlockedAtCall /\ WaitersBlocked
         /\ SignalledHasNoWaiters /\ GrantIsAwaited
         /\ current \in Threads
         /\ \A e \in Events : current \notin waiters[e]
BY CurrentNotWakeable DEF EventInv, WaitersBlocked, Blocked, Wakeable

(* A call on e that wakes nobody leaves every grant awaited but one that the *)
(* caller has of e itself.                                                   *)
LEMMA EventReturn ==
  ASSUME EventInv, NEW e \in Events, At(e), Continue({}, Guest)
  PROVE  /\ \A x \in Events : Blocked(x)' = Blocked(x)
         /\ BlockedAtCall'
         /\ \A x \in Events, t \in Threads :
              Awaits(t, x) /\ (InGuest \/ t # current \/ x # e) => Awaits(t, x)'
<1> USE EventConstants DEF Events
<1>1. ThreadInv /\ BlockedAtCall
  BY DEF EventInv
<1>2. BlockedAtCall'
  BY <1>1, ReturnKeeps DEF BlockedAtCall, StaysAtCall
<1>3. \A x \in Events, t \in Threads :
        Awaits(t, x) /\ (InGuest \/ t # current \/ x # e) => Awaits(t, x)'
  BY <1>1, ReturnKeeps DEF StillAwaited, At, InGuest
<1>4. QED
  BY <1>1, <1>2, <1>3, ReturnKeeps

(* The return of a wait that was released uses up the grant and nothing else. *)
LEMMA TakeGrantKeeps ==
  ASSUME EventInv, NEW e \in Events, TakeGrant(e)
  PROVE  EventPart'
<1>1. At(e) /\ current # NoThread /\ Continue({}, Guest)
  BY DEF TakeGrant, At
<1>2. BlockedAtCall' /\ WaitersBlocked'
  BY <1>1, EventReturn, CallFacts DEF TakeGrant, WaitersBlocked
<1>3. SignalledHasNoWaiters'
  BY <1>1, CallFacts DEF TakeGrant, SignalledHasNoWaiters
<1>4. GrantIsAwaited'
  <2> SUFFICES ASSUME NEW x \in Events, NEW t \in granted'[x]
               PROVE  x \in AutoReset /\ t \notin waiters'[x] /\ Awaits(t, x)'
    BY DEF GrantIsAwaited
  <2>1. t \in granted[x] /\ (t # current \/ x # e)
    BY <1>1, CallFacts DEF TakeGrant, TypeOK
  <2>2. t \in Threads /\ x \in AutoReset /\ t \notin waiters[x] /\ Awaits(t, x)
    BY <1>1, <2>1, CallFacts DEF TypeOK, GrantIsAwaited
  <2>3. QED
    BY <1>1, <2>1, <2>2, EventReturn DEF TakeGrant
<1>5. QED
  BY <1>1, <1>2, <1>3, <1>4, CallFacts DEF EventPart, TakeGrant, TypeOK, WaiterTypeOK

(* Calls that leave the grants and lists alone, made by a thread that holds  *)
(* no grant of e or is not re-executing a wait, keep every grant awaited.    *)
LEMMA GrantsStay ==
  ASSUME EventInv, NEW e \in Events, At(e), InGuest \/ current \notin granted[e],
         Continue({}, Guest), UNCHANGED <<waiters, granted>>
  PROVE  BlockedAtCall' /\ WaitersBlocked' /\ GrantIsAwaited'
<1>1. current # NoThread
  BY DEF At
<1>2. BlockedAtCall' /\ WaitersBlocked'
  BY <1>1, EventReturn, CallFacts DEF WaitersBlocked
<1>3. GrantIsAwaited'
  <2> SUFFICES ASSUME NEW x \in Events, NEW t \in granted[x]
               PROVE  x \in AutoReset /\ t \notin waiters[x] /\ Awaits(t, x)'
    BY DEF GrantIsAwaited
  <2>1. t \in Threads /\ x \in AutoReset /\ t \notin waiters[x] /\ Awaits(t, x)
    BY <1>1, CallFacts DEF TypeOK, GrantIsAwaited
  <2>2. QED
    BY <2>1, EventReturn
<1>4. QED
  BY <1>2, <1>3

(* A wait that finds the event signalled resets it if the mode says so.      *)
LEMMA PassSignalledKeeps ==
  ASSUME EventInv, NEW e \in Events, PassSignalled(e)
  PROVE  EventPart'
<1>1. At(e) /\ current # NoThread /\ Continue({}, Guest)
  BY DEF PassSignalled, At
<1>2. BlockedAtCall' /\ WaitersBlocked' /\ GrantIsAwaited'
  BY <1>1, GrantsStay DEF PassSignalled
<1>3. SignalledHasNoWaiters'
  BY <1>1, CallFacts DEF PassSignalled, TypeOK, SignalledHasNoWaiters
<1>4. QED
  BY <1>1, <1>2, <1>3, CallFacts DEF EventPart, PassSignalled, TypeOK, WaiterTypeOK

(* A signal that finds no waiter sets the event. *)
LEMMA SignalNobodyKeeps ==
  ASSUME EventInv, NEW e \in Events, SignalNobody(e)
  PROVE  EventPart'
<1>1. At(e) /\ InGuest /\ current # NoThread /\ Continue({}, Guest)
  BY DEF SignalNobody, At, InGuest
<1>2. BlockedAtCall' /\ WaitersBlocked' /\ GrantIsAwaited'
  BY <1>1, GrantsStay DEF SignalNobody
<1>3. SignalledHasNoWaiters'
  BY <1>1, CallFacts DEF SignalNobody, TypeOK, SignalledHasNoWaiters
<1>4. QED
  BY <1>1, <1>2, <1>3, CallFacts DEF EventPart, SignalNobody, TypeOK, WaiterTypeOK

(* OSResetEvent. *)
LEMMA ResetEventKeeps ==
  ASSUME EventInv, NEW e \in Events, ResetEvent(e)
  PROVE  EventPart'
<1>1. At(e) /\ InGuest /\ current # NoThread /\ Continue({}, Guest)
  BY DEF ResetEvent, At, InGuest
<1>2. BlockedAtCall' /\ WaitersBlocked' /\ GrantIsAwaited'
  BY <1>1, GrantsStay DEF ResetEvent
<1>3. SignalledHasNoWaiters'
  BY <1>1, CallFacts DEF ResetEvent, TypeOK, SignalledHasNoWaiters
<1>4. QED
  BY <1>1, <1>2, <1>3, CallFacts DEF EventPart, ResetEvent, TypeOK, WaiterTypeOK

(* A thread that finds the event reset is in the list as soon as it blocks. *)
LEMMA WaitForSignalKeeps ==
  ASSUME EventInv, NEW e \in Events, WaitForSignal(e)
  PROVE  EventPart'
<1> USE ThreadConstants, EventConstants
<1>1. At(e) /\ current # NoThread /\ Block(e, e)
  BY DEF WaitForSignal, At
<1>2. e \in Objects /\ e \in Sites /\ e # NoObject
  BY DEF Events
<1>3. WaitersBlocked'
  BY <1>1, <1>2, BlockKeeps, CallFacts DEF WaitForSignal, WaitersBlocked, TypeOK, Events
<1>4. BlockedAtCall'
  BY <1>1, <1>2, BlockKeeps, CallFacts DEF BlockedAtCall
<1>5. SignalledHasNoWaiters'
  BY <1>1, CallFacts DEF WaitForSignal, TypeOK, SignalledHasNoWaiters
<1>6. GrantIsAwaited'
  <2> SUFFICES ASSUME NEW x \in Events, NEW t \in granted[x]
               PROVE  x \in AutoReset /\ t \notin waiters'[x] /\ Awaits(t, x)'
    BY DEF GrantIsAwaited, WaitForSignal
  <2>1. t \in Threads /\ x \in AutoReset /\ t \notin waiters[x] /\ Awaits(t, x)
    BY <1>1, CallFacts DEF TypeOK, GrantIsAwaited
  <2>2. t \notin waiters'[x]
    BY <1>1, <2>1, CallFacts DEF WaitForSignal, TypeOK
  <2>3. Awaits(t, x)'
    <3>1. pc[t] # x \/ x = pc'[t] \/ t # current
      BY <1>1, <1>2, BlockKeeps, CallFacts DEF At, WaitForSignal, Events
    <3>2. QED
      BY <1>1, <1>2, <2>1, <3>1, BlockKeeps, CallFacts DEF StillAwaited, Events
  <2>4. QED
    BY <2>1, <2>2, <2>3
<1>7. WaiterTypeOK'
  BY <1>1, CallFacts DEF WaitForSignal, WaiterTypeOK, Arrive, TypeOK
<1>8. QED
  BY <1>1, <1>3, <1>4, <1>5, <1>6, <1>7, CallFacts DEF EventPart, WaitForSignal, TypeOK

(* What a signal that wakes some of the waiters W of e keeps: they leave the *)
(* list and the wait together, and every call of another context stays.      *)
LEMMA ReleaseKeeps ==
  ASSUME EventInv, NEW e \in Events, InGuest, NEW W \in SUBSET waiters[e],
         Reschedule(W, Guest), waiters' = [waiters EXCEPT ![e] = @ \ W]
  PROVE  /\ BlockedAtCall'
         /\ WaitersBlocked'
         /\ \A x \in Events, t \in Threads : Awaits(t, x) => Awaits(t, x)'
         /\ \A t \in W : Awaits(t, e)
<1> USE ThreadConstants, EventConstants
<1>1. current # NoThread /\ pc[current] = Guest
  BY DEF InGuest
<1>2. W \in SUBSET Threads
  BY <1>1, CallFacts DEF TypeOK
<1>3. BlockedAtCall'
  BY <1>1, <1>2, WakeKeeps, CallFacts DEF BlockedAtCall, StaysAtCall
<1>4. WaitersBlocked'
  <2> SUFFICES ASSUME NEW x \in Events
               PROVE  waiters'[x] = Blocked(x)'
    BY DEF WaitersBlocked
  <2>1. Blocked(x)' = Blocked(x) \ W
    BY <1>1, <1>2, WakeKeeps, CallFacts DEF Events
  <2>2. waiters[x] = Blocked(x) /\ waiters[e] = Blocked(e)
    BY <1>1, CallFacts DEF WaitersBlocked
  <2>3. x # e => Blocked(x) \cap W = {}
    BY <2>2 DEF Blocked
  <2>4. waiters'[x] = IF x = e THEN waiters[x] \ W ELSE waiters[x]
    BY <1>1, CallFacts DEF TypeOK
  <2>5. QED
    BY <2>1, <2>2, <2>3, <2>4
<1>5. \A x \in Events, t \in Threads : Awaits(t, x) => Awaits(t, x)'
  BY <1>1, <1>2, WakeKeeps, CallFacts DEF StillAwaited, Events
<1>6. \A t \in W : Awaits(t, e)
  BY <1>1, CallFacts DEF WaitersBlocked, Blocked, BlockedAtCall, Awaits, Events
<1>7. QED
  BY <1>3, <1>4, <1>5, <1>6

(* An auto-reset signal: grant, list and wake move together. *)
LEMMA ReleaseFirstKeeps ==
  ASSUME EventInv, NEW e \in Events, ReleaseFirst(e)
  PROVE  EventPart'
<1>1. InGuest /\ current # NoThread /\ ~value[e] /\ e \in AutoReset /\ value' = value
  BY DEF ReleaseFirst, InGuest
<1>2. PICK woken \in Threads :
        /\ woken \in waiters[e]
        /\ waiters' = [waiters EXCEPT ![e] = @ \ {woken}]
        /\ granted' = [granted EXCEPT ![e] = @ \cup {woken}]
        /\ Depart({woken})
        /\ Reschedule({woken}, Guest)
  BY DEF ReleaseFirst, IsFirst
<1>3. /\ BlockedAtCall' /\ WaitersBlocked'
      /\ \A x \in Events, t \in Threads : Awaits(t, x) => Awaits(t, x)'
      /\ Awaits(woken, e)
  BY <1>1, <1>2, {woken} \in SUBSET waiters[e], ReleaseKeeps
<1>4. SignalledHasNoWaiters'
  BY <1>1, <1>2, CallFacts DEF TypeOK, SignalledHasNoWaiters
<1>5. GrantIsAwaited'
  <2> SUFFICES ASSUME NEW x \in Events, NEW t \in granted'[x]
               PROVE  x \in AutoReset /\ t \notin waiters'[x] /\ Awaits(t, x)'
    BY DEF GrantIsAwaited
  <2>1. CASE t \in granted[x]
    BY <1>1, <1>2, <1>3, <2>1, CallFacts DEF TypeOK, GrantIsAwaited
  <2>2. CASE x = e /\ t = woken
    BY <1>1, <1>2, <1>3, <2>2, CallFacts DEF TypeOK
  <2>3. QED
    BY <1>1, <1>2, <2>1, <2>2, CallFacts DEF TypeOK
<1>6. QED
  BY <1>1, <1>2, <1>3, <1>4, <1>5, CallFacts DEF EventPart, Depart, TypeOK, WaiterTypeOK

(* A signal that empties the list. *)
LEMMA ReleaseAllKeeps ==
  ASSUME EventInv, NEW e \in Events, ReleaseAll(e)
  PROVE  EventPart'
<1>1. /\ InGuest /\ current # NoThread /\ ~value[e]
      /\ waiters' = [waiters EXCEPT ![e] = {}] /\ Reschedule(waiters[e], Guest)
  BY DEF ReleaseAll, InGuest
<1>2. waiters' = [waiters EXCEPT ![e] = @ \ waiters[e]]
  BY <1>1
<1>3. /\ BlockedAtCall' /\ WaitersBlocked'
      /\ \A x \in Events, t \in Threads : Awaits(t, x) => Awaits(t, x)'
      /\ \A t \in waiters[e] : Awaits(t, e)
  BY <1>1, <1>2, ReleaseKeeps
<1>4. SignalledHasNoWaiters'
  BY <1>1, CallFacts DEF ReleaseAll, TypeOK, SignalledHasNoWaiters
<1>5. GrantIsAwaited'
  <2> SUFFICES ASSUME NEW x \in Events, NEW t \in granted'[x]
               PROVE  x \in AutoReset /\ t \notin waiters'[x] /\ Awaits(t, x)'
    BY DEF GrantIsAwaited
  <2>1. CASE t \in granted[x]
    BY <1>1, <1>3, <2>1, CallFacts DEF TypeOK, GrantIsAwaited
  <2>2. CASE x = e /\ e \in AutoReset /\ t \in waiters[e]
    BY <1>1, <1>3, <2>2, CallFacts DEF TypeOK
  <2>3. QED
    BY <1>1, <2>1, <2>2, CallFacts DEF ReleaseAll, TypeOK
<1>6. value' \in [Events -> BOOLEAN] /\ granted' \in [Events -> SUBSET Threads]
  <2>1. /\ value \in [Events -> BOOLEAN] /\ granted \in [Events -> SUBSET Threads]
        /\ waiters[e] \in SUBSET Threads
    BY <1>1, CallFacts DEF TypeOK
  <2>2. CASE e \in AutoReset
    <3>1. granted' = [granted EXCEPT ![e] = @ \cup waiters[e]] /\ value' = value
      BY <2>2 DEF ReleaseAll
    <3>2. QED
      BY ONLY <2>1, <3>1
  <2>3. CASE e \notin AutoReset
    <3>1. value' = [value EXCEPT ![e] = TRUE] /\ granted' = granted
      BY <2>3 DEF ReleaseAll
    <3>2. QED
      BY ONLY <2>1, <3>1
  <2>4. QED
    BY <2>2, <2>3
<1>7. QED
  BY <1>1, <1>3, <1>4, <1>5, <1>6, CallFacts
  DEF EventPart, ReleaseAll, Depart, TypeOK, WaiterTypeOK

(* Steps that touch no event. *)
LEMMA OtherStepsKeep ==
  ASSUME EventInv, BetweenSlices \/ OtherCalls, UNCHANGED eventVars
  PROVE  EventPart'
<1> USE EventConstants DEF Events
<1>1. /\ ThreadInv /\ TypeOK /\ BlockedAtCall /\ WaitersBlocked
      /\ SignalledHasNoWaiters /\ GrantIsAwaited
  BY DEF EventInv
<1>2. BlockedAtCall' /\ WaitersBlocked'
  BY <1>1, OtherStepsKeepBlocked DEF BlockedAtCall, StaysAtCall, WaitersBlocked, eventVars
<1>3. SignalledHasNoWaiters'
  BY <1>1 DEF eventVars, SignalledHasNoWaiters
<1>4. GrantIsAwaited'
  BY <1>1, OtherStepsKeepBlocked DEF eventVars, GrantIsAwaited, TypeOK, Awaits
<1>5. QED
  BY <1>1, <1>2, <1>3, <1>4 DEF EventPart, TypeOK, eventVars, WaiterTypeOK

(* One step, or none, keeps the invariant. *)
LEMMA EventStep ==
  ASSUME EventInv, [Next]_vars
  PROVE  EventInv'
<1>1. ThreadInv'
  BY NextIsThreadStep, ThreadStep DEF EventInv
<1>2. CASE Next
  <2>1. EventPart'
    BY <1>2, OtherStepsKeep, TakeGrantKeeps, PassSignalledKeeps, WaitForSignalKeeps,
       SignalNobodyKeeps, ReleaseFirstKeeps, ReleaseAllKeeps, ResetEventKeeps
    DEF Next, WaitEvent, SignalEvent, SignalEventAll
  <2>2. QED
    BY <1>1, <2>1 DEF EventInv, EventPart, TypeOK, ThreadInv
<1>3. CASE UNCHANGED vars
  BY <1>1, <1>3
  DEF vars, eventVars, threadVars, EventInv, TypeOK, ThreadTypeOK, WaiterTypeOK,
      BlockedAtCall, WaitersBlocked, Blocked, SignalledHasNoWaiters, GrantIsAwaited, Awaits
<1>4. QED
  BY <1>2, <1>3

(* The inductive invariant holds in every state any guest can reach. *)
THEOREM EventInvariant == Spec => []EventInv
<1>1. Init => EventInv
  BY EventStart
<1>2. EventInv /\ [Next]_vars => EventInv'
  BY EventStep
<1>3. QED
  BY <1>1, <1>2, PTL DEF Spec

(* The types, for every instance. *)
THEOREM EventTypes == Spec => []TypeOK
BY EventInvariant, PTL DEF EventInv

(* A thread in the list is blocked and one that is blocked is in the list,   *)
(* nobody waits on a signalled event, and a grant has a thread coming for it. *)
THEOREM NoWakeMissed == Spec => []WaitersAccounted
BY EventInvariant, PTL DEF EventInv, WaitersAccounted

(* An event is a client of the thread machine and nothing more.              *)
THEOREM EventImplementsThreads == Spec => ThreadSpec
<1>1. Init => ThreadInit
  BY DEF Init
<1>2. EventInv /\ [Next]_vars => [ThreadNext]_threadVars
  BY NextIsThreadStep
<1>3. QED
  BY <1>1, <1>2, EventInvariant, PTL DEF Spec, ThreadSpec

-----------------------------------------------------------------------------
(* The account of the releases. *)

(* The grants of an event can be counted. *)
LEMMA GrantsFinite ==
  ASSUME EventInv, NEW e \in Events
  PROVE  /\ IsFiniteSet(granted[e]) /\ Cardinality(granted[e]) \in Nat
         /\ IsFiniteSet(waiters[e])
         /\ Releases(e) \in Nat
<1>1. granted[e] \in SUBSET Threads /\ waiters[e] \in SUBSET Threads
  BY DEF EventInv, TypeOK
<1>2. IsFiniteSet(granted[e]) /\ IsFiniteSet(waiters[e])
  BY <1>1, ThreadsFinite, FS_Subset
<1>3. Cardinality(granted[e]) \in Nat
  BY <1>2, FS_CardinalityType
<1>4. QED
  BY <1>2, <1>3 DEF Releases

(* Only a step that re-executes a wait of e returns from it. *)
LEMMA OnlyWaitsReturn ==
  ASSUME EventInv, [Next]_vars, NEW e \in Events, Returns(e)
  PROVE  TakeGrant(e) \/ PassSignalled(e)
<1> USE EventConstants, ThreadConstants DEF Events
<1>1. /\ current # NoThread /\ ~InGuest /\ current' # NoThread
      /\ pc[current] = e /\ pc' # pc
  BY DEF Returns, InGuest
<1>2. Next
  BY <1>1 DEF vars, threadVars
<1>3. ~BetweenSlices
  BY <1>1 DEF BetweenSlices, WakeSleepers, Dispatch, BeginCallback, Run
<1>4. ~OtherCalls
  BY <1>1 DEF OtherCalls, EndSlice
<1>5. PICK x \in Events : WaitEvent(x) \/ SignalEvent(x) \/ SignalEventAll(x) \/ ResetEvent(x)
  BY <1>2, <1>3, <1>4 DEF Next
<1>6. TakeGrant(x) \/ PassSignalled(x)
  BY <1>1, <1>5
  DEF WaitEvent, WaitForSignal, Block, SignalEvent, SignalEventAll, SignalNobody,
      ReleaseFirst, ReleaseAll, ResetEvent
<1>7. x = e
  BY <1>1, <1>6 DEF TakeGrant, PassSignalled, At
<1>8. QED
  BY <1>6, <1>7

(* A return takes one release: a grant, or the value. *)
LEMMA ReturnTakesOne ==
  ASSUME EventInv, [Next]_vars, NEW e \in AutoReset, Returns(e)
  PROVE  Releases(e)' = Releases(e) - 1
<1>1. e \in Events
  BY EventConstants DEF Events
<1>2. value \in [Events -> BOOLEAN] /\ granted \in [Events -> SUBSET Threads]
  BY DEF EventInv, TypeOK
<1>3. CASE TakeGrant(e)
  <2>1. granted'[e] = granted[e] \ {current} /\ current \in granted[e] /\ value' = value
    <3>1. /\ granted' = [granted EXCEPT ![e] = @ \ {current}]
          /\ current \in granted[e] /\ value' = value
      BY <1>3 DEF TakeGrant
    <3>2. QED
      BY ONLY <1>1, <1>2, <3>1
  <2>2. Cardinality(granted'[e]) = Cardinality(granted[e]) - 1
    <3>1. IsFiniteSet(granted[e])
      BY <1>1, GrantsFinite
    <3>2. QED
      BY ONLY <2>1, <3>1, FS_RemoveElement
  <2>3. QED
    BY <1>1, <2>1, <2>2, GrantsFinite DEF Releases
<1>4. CASE PassSignalled(e)
  <2>1. granted' = granted /\ value[e] /\ ~value'[e]
    BY <1>1, <1>2, <1>4 DEF PassSignalled
  <2>2. QED
    BY <1>1, <2>1, GrantsFinite DEF Releases
<1>5. QED
  BY <1>1, <1>3, <1>4, OnlyWaitsReturn

(* A step that ends the slice takes no release: a signal adds to them, and   *)
(* whatever else ends a slice leaves them alone.                             *)
LEMMA SliceEndTakesNone ==
  ASSUME EventInv, [Next]_vars, NEW e \in AutoReset, current' = NoThread
  PROVE  Releases(e)' >= Releases(e)
<1>1. e \in Events
  BY EventConstants DEF Events
<1>2. value \in [Events -> BOOLEAN] /\ granted \in [Events -> SUBSET Threads]
  BY DEF EventInv, TypeOK
<1>3. IsFiniteSet(granted'[e])
  BY <1>1, EventStep, ThreadsFinite, FS_Subset DEF EventInv, TypeOK
<1>4. ASSUME value'[e] = value[e], granted[e] \subseteq granted'[e]
      PROVE  Releases(e)' >= Releases(e)
  <2>1. Cardinality(granted[e]) <= Cardinality(granted'[e])
    BY <1>3, <1>4, FS_Subset
  <2>2. Cardinality(granted'[e]) \in Nat
    BY <1>3, FS_CardinalityType
  <2>3. QED
    BY <1>1, <1>4, <2>1, <2>2, GrantsFinite DEF Releases
<1>5. CASE UNCHANGED eventVars
  BY <1>4, <1>5 DEF eventVars
<1>6. ASSUME NEW x \in Events, WaitEvent(x) \/ SignalEvent(x) \/ SignalEventAll(x) \/ ResetEvent(x)
      PROVE  value'[e] = value[e] /\ granted[e] \subseteq granted'[e]
  <2>1. WaitForSignal(x) \/ ReleaseFirst(x) \/ ReleaseAll(x)
    BY <1>6
    DEF WaitEvent, TakeGrant, PassSignalled, SignalEvent, SignalEventAll, SignalNobody,
        ResetEvent, Continue
  <2>2. CASE WaitForSignal(x)
    BY <2>2 DEF WaitForSignal
  <2>3. CASE ReleaseFirst(x)
    BY <1>1, <1>2, <2>3 DEF ReleaseFirst
  <2>4. CASE ReleaseAll(x)
    BY <1>1, <1>2, <2>4 DEF ReleaseAll
  <2>5. QED
    BY <2>1, <2>2, <2>3, <2>4
<1>7. QED
  BY <1>4, <1>5, <1>6 DEF Next, vars

(* No release is lost and none lets two waits through, whatever callbacks    *)
(* and other waits come between the signal and the return.                   *)
THEOREM ReleasesAccounted == Spec => EachReleaseOnce
<1> DEFINE Account == \A e \in AutoReset :
                        /\ Returns(e) => Releases(e)' = Releases(e) - 1
                        /\ current' = NoThread => Releases(e)' >= Releases(e)
<1>1. EventInv /\ [Next]_vars => [Account]_vars
  BY ReturnTakesOne, SliceEndTakesNone
<1>2. QED
  BY <1>1, EventInvariant, PTL DEF Spec, EachReleaseOnce
=============================================================================
