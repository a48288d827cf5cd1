--------------------------- MODULE CafeMutexProofs ---------------------------
(***************************************************************************)
(* OSMutex is safe for every set of threads and mutexes, every priority    *)
(* assignment and every recursion limit: the invariants of the run         *)
(* mutex follow from an inductive invariant.                        *)
(***************************************************************************)
EXTENDS CafeMutex, CafeThreadsProofs

(* The call a blocked thread is blocked in is the one it will re-execute:    *)
(* without it a hand-off could grant a mutex to a thread that is not asking. *)
BlockedAtCall ==
  \A t \in Threads : waitObject[t] # NoObject => pc[t] = waitObject[t]

MutexInv ==
  /\ ThreadInv
  /\ TypeOK
  /\ BlockedAtCall
  /\ WaitersBlocked
  /\ HoldersOwn
  /\ RecursionCounts
  /\ FreeHasNoWaiters
  /\ GrantIsAwaited

(* A mutex nobody has used satisfies the invariant. *)
LEMMA MutexStart == Init => MutexInv
<1> SUFFICES ASSUME Init PROVE MutexInv
  OBVIOUS
<1>1. ThreadInv
  BY ThreadStart DEF Init
<1>2. TypeOK
  BY <1>1, MutexConstants DEF Init, TypeOK, ThreadInv, WaiterTypeOK, WaiterInit, Mutexes
<1>3. BlockedAtCall /\ WaitersBlocked
  BY ThreadConstants
  DEF Init, ThreadInit, BlockedAtCall, WaitersBlocked, Blocked, Mutexes
<1>4. HoldersOwn /\ RecursionCounts /\ FreeHasNoWaiters /\ GrantIsAwaited
  BY ThreadConstants
  DEF Init, HoldersOwn, RecursionCounts, FreeHasNoWaiters, GrantIsAwaited, Mutexes
<1>5. QED
  BY <1>1, <1>2, <1>3, <1>4 DEF MutexInv

-----------------------------------------------------------------------------
(* Every call of the mutex is a step of the thread machine. *)

(* Each way through a mutex call moves threads as one call of the machine.   *)
LEMMA MutexCallsAreThreadSteps ==
  ASSUME MutexInv, NEW m \in Mutexes,
         LockMutex(m) \/ TryLockMutex(m) \/ UnlockMutex(m)
  PROVE  ThreadNext
<1>1. Guest \in Sites /\ m \in Sites /\ m \in Objects
  BY ThreadConstants, MutexConstants DEF Mutexes
<1>2. ASSUME Continue({}, Guest)
      PROVE  ThreadNext
  BY <1>1, <1>2 DEF ThreadNext, InSlice
<1>3. ASSUME Block(m, m)
      PROVE  ThreadNext
  BY <1>1, <1>3 DEF ThreadNext, InSlice
<1>4. ASSUME NEW woken \in waiters[m], Continue({woken}, Guest)
      PROVE  ThreadNext
  <2>1. {woken} \in SUBSET Wakeable
    BY DEF MutexInv, WaitersBlocked, Blocked, Wakeable
  <2>2. QED
    BY <1>1, <1>4, <2>1 DEF ThreadNext, InSlice
<1>5. QED
  BY <1>2, <1>3, <1>4
  DEF LockMutex, AcquireFree, TakeGrant, LockAgain, WaitFor, TryLockMutex,
      UnlockMutex, UnlockInner, Free, HandOff, IsFirst

(* Every step of the mutex guest is a step of the thread machine.            *)
LEMMA NextIsThreadStep ==
  ASSUME MutexInv, [Next]_vars
  PROVE  [ThreadNext]_threadVars
BY MutexCallsAreThreadSteps, OtherStepsAreThreadSteps DEF Next, vars

-----------------------------------------------------------------------------
(* The calls. *)

(* A call on m that wakes W and returns: only the caller's own call on m is  *)
(* no longer to be executed again.                                           *)
LEMMA MutexContinue ==
  ASSUME MutexInv, NEW m \in Mutexes, At(m), NEW W \in SUBSET Threads, Continue(W, Guest)
  PROVE  /\ \A x \in Mutexes : Blocked(x)' = Blocked(x) \ W
         /\ BlockedAtCall'
         /\ \A x \in Mutexes, t \in Threads :
              Awaits(t, x) /\ (InGuest \/ t # current \/ x # m) => Awaits(t, x)'
<1> USE MutexConstants DEF Mutexes
<1>1. ThreadInv /\ BlockedAtCall
  BY DEF MutexInv
<1>2. BlockedAtCall'
  BY <1>1, WakeKeeps DEF BlockedAtCall, StaysAtCall
<1>3. \A x \in Mutexes, t \in Threads :
        Awaits(t, x) /\ (InGuest \/ t # current \/ x # m) => Awaits(t, x)'
  BY <1>1, WakeKeeps DEF StillAwaited, At, InGuest
<1>4. QED
  BY <1>1, <1>2, <1>3, WakeKeeps

(* The same where nobody is woken. *)
LEMMA MutexReturn ==
  ASSUME MutexInv, NEW m \in Mutexes, At(m), Continue({}, Guest)
  PROVE  /\ \A x \in Mutexes : Blocked(x)' = Blocked(x)
         /\ BlockedAtCall'
         /\ \A x \in Mutexes, t \in Threads :
              Awaits(t, x) /\ (InGuest \/ t # current \/ x # m) => Awaits(t, x)'
<1>1. {} \in SUBSET Threads /\ \A x : Blocked(x) \ {} = Blocked(x)
  OBVIOUS
<1>2. QED
  BY <1>1, MutexContinue

(* What the steps below have in common. *)
LEMMA CallFacts ==
  ASSUME MutexInv, current # NoThread
  PROVE  /\ TypeOK /\ BlockedAtCall /\ WaitersBlocked /\ HoldersOwn
         /\ RecursionCounts /\ FreeHasNoWaiters /\ GrantIsAwaited
         /\ current \in Threads
         /\ \A m \in Mutexes : current \notin waiters[m]
BY CurrentNotWakeable DEF MutexInv, WaitersBlocked, Blocked, Wakeable

(* The invariant without its thread part, which ThreadStep keeps.            *)
MutexPart ==
  /\ WaiterTypeOK
  /\ owner \in [Mutexes -> Threads \cup {NoThread}]
  /\ recursion \in [Mutexes -> 0..MaxRecursion]
  /\ granted \in [Mutexes -> Threads \cup {NoThread}]
  /\ waiters \in [Mutexes -> SUBSET Threads]
  /\ held \in [Mutexes -> [Threads -> 0..MaxRecursion]]
  /\ BlockedAtCall
  /\ WaitersBlocked
  /\ HoldersOwn
  /\ RecursionCounts
  /\ FreeHasNoWaiters
  /\ GrantIsAwaited

(* lock_mutex on a free mutex keeps the invariant. *)
LEMMA AcquireFreeKeeps ==
  ASSUME MutexInv, NEW m \in Mutexes, AcquireFree(m)
  PROVE  MutexPart'
<1> USE ThreadConstants, MutexConstants
<1>1. At(m) /\ current # NoThread /\ Continue({}, Guest)
  BY DEF AcquireFree, At
<1>2. held[m][current] = 0
  BY <1>1, CallFacts DEF AcquireFree, HoldersOwn, TypeOK
<1>3. BlockedAtCall'
  BY <1>1, MutexReturn
<1>4. WaitersBlocked'
  BY <1>1, MutexReturn, CallFacts DEF AcquireFree, WaitersBlocked
<1>5. HoldersOwn' /\ RecursionCounts'
  BY <1>1, <1>2, CallFacts
  DEF AcquireFree, Returns, TypeOK, HoldersOwn, RecursionCounts
<1>6. FreeHasNoWaiters'
  BY <1>1, CallFacts DEF AcquireFree, TypeOK, FreeHasNoWaiters
<1>7. GrantIsAwaited'
  <2> SUFFICES ASSUME NEW x \in Mutexes, granted'[x] # NoThread
               PROVE  owner'[x] = granted'[x] /\ Awaits(granted[x], x)'
    BY DEF GrantIsAwaited, Awaits
  <2>1. x # m /\ granted'[x] = granted[x] /\ owner'[x] = owner[x]
    BY <1>1, CallFacts DEF AcquireFree, TypeOK
  <2>2. QED
    BY <1>1, <2>1, MutexReturn, CallFacts DEF TypeOK, GrantIsAwaited
<1>8. QED
  BY <1>1, <1>2, <1>3, <1>4, <1>5, <1>6, <1>7, CallFacts
  DEF MutexPart, AcquireFree, Returns, TypeOK, WaiterTypeOK

(* The owner's return from its wait uses up the grant and nothing else. *)
LEMMA TakeGrantKeeps ==
  ASSUME MutexInv, NEW m \in Mutexes, TakeGrant(m)
  PROVE  MutexPart'
<1> USE ThreadConstants, MutexConstants
<1>1. At(m) /\ current # NoThread /\ Continue({}, Guest)
  BY DEF TakeGrant, At
<1>2. BlockedAtCall'
  BY <1>1, MutexReturn
<1>3. WaitersBlocked'
  BY <1>1, MutexReturn, CallFacts DEF TakeGrant, WaitersBlocked
<1>4. HoldersOwn' /\ RecursionCounts'
  BY <1>1, CallFacts
  DEF TakeGrant, Returns, TypeOK, HoldersOwn, RecursionCounts
<1>5. FreeHasNoWaiters'
  BY <1>1, CallFacts DEF TakeGrant, TypeOK, FreeHasNoWaiters
<1>6. GrantIsAwaited'
  <2> SUFFICES ASSUME NEW x \in Mutexes, granted'[x] # NoThread
               PROVE  owner'[x] = granted'[x] /\ Awaits(granted[x], x)'
    BY DEF GrantIsAwaited, Awaits
  <2>1. x # m /\ granted'[x] = granted[x] /\ owner'[x] = owner[x]
    BY <1>1, CallFacts DEF TakeGrant, TypeOK
  <2>2. QED
    BY <1>1, <2>1, MutexReturn, CallFacts DEF TypeOK, GrantIsAwaited
<1>7. held' \in [Mutexes -> [Threads -> 0..MaxRecursion]]
  BY <1>1, CallFacts
  DEF TakeGrant, Returns, TypeOK, HoldersOwn, RecursionCounts
<1>8. QED
  BY <1>1, <1>2, <1>3, <1>4, <1>5, <1>6, <1>7, CallFacts
  DEF MutexPart, TakeGrant, TypeOK, WaiterTypeOK

(* A recursive lock counts one more on both sides of the account. *)
LEMMA LockAgainKeeps ==
  ASSUME MutexInv, NEW m \in Mutexes, LockAgain(m)
  PROVE  MutexPart'
<1> USE ThreadConstants, MutexConstants
<1>1. At(m) /\ current # NoThread /\ Continue({}, Guest)
  BY DEF LockAgain, At
<1>2. BlockedAtCall'
  BY <1>1, MutexReturn
<1>3. WaitersBlocked'
  BY <1>1, MutexReturn, CallFacts DEF LockAgain, WaitersBlocked
<1>4. HoldersOwn' /\ RecursionCounts'
  BY <1>1, CallFacts
  DEF LockAgain, Returns, TypeOK, HoldersOwn, RecursionCounts
<1>5. FreeHasNoWaiters'
  BY <1>1, CallFacts DEF LockAgain, TypeOK, FreeHasNoWaiters
<1>6. GrantIsAwaited'
  <2> SUFFICES ASSUME NEW x \in Mutexes, granted'[x] # NoThread
               PROVE  owner'[x] = granted'[x] /\ Awaits(granted[x], x)'
    BY DEF GrantIsAwaited, Awaits
  <2>1. granted'[x] = granted[x] /\ owner'[x] = owner[x] /\ (granted[x] # current \/ x # m)
    BY DEF LockAgain
  <2>2. QED
    BY <1>1, <2>1, MutexReturn, CallFacts DEF TypeOK, GrantIsAwaited
<1>7. held' \in [Mutexes -> [Threads -> 0..MaxRecursion]]
  BY <1>1, CallFacts
  DEF LockAgain, Returns, TypeOK, HoldersOwn, RecursionCounts
<1>8. QED
  BY <1>1, <1>2, <1>3, <1>4, <1>5, <1>6, <1>7, CallFacts
  DEF MutexPart, LockAgain, TypeOK, WaiterTypeOK

(* OSTryLockMutex keeps the invariant, taken or refused. *)
LEMMA TryLockMutexKeeps ==
  ASSUME MutexInv, NEW m \in Mutexes, TryLockMutex(m)
  PROVE  MutexPart'
<1> USE ThreadConstants, MutexConstants
<1>1. At(m) /\ current # NoThread /\ Continue({}, Guest)
  BY DEF TryLockMutex, At, InGuest
<1>2. BlockedAtCall'
  BY <1>1, MutexReturn
<1>3. WaitersBlocked'
  BY <1>1, MutexReturn, CallFacts DEF TryLockMutex, WaitersBlocked
<1>4. HoldersOwn' /\ RecursionCounts'
  BY <1>1, CallFacts
  DEF TryLockMutex, Returns, TypeOK, HoldersOwn, RecursionCounts
<1>5. FreeHasNoWaiters'
  BY <1>1, CallFacts DEF TryLockMutex, TypeOK, FreeHasNoWaiters
<1>6. GrantIsAwaited'
  <2> SUFFICES ASSUME NEW x \in Mutexes, granted'[x] # NoThread
               PROVE  owner'[x] = granted'[x] /\ Awaits(granted[x], x)'
    BY DEF GrantIsAwaited, Awaits
  <2>1. granted'[x] = granted[x] /\ owner'[x] = owner[x]
    BY <1>1, CallFacts DEF TryLockMutex, TypeOK
  <2>2. InGuest
    BY DEF TryLockMutex
  <2>3. QED
    BY <1>1, <2>1, <2>2, MutexReturn, CallFacts DEF TypeOK, GrantIsAwaited
<1>7. held' \in [Mutexes -> [Threads -> 0..MaxRecursion]]
  BY <1>1, CallFacts
  DEF TryLockMutex, Returns, TypeOK, HoldersOwn, RecursionCounts
<1>8. /\ owner' \in [Mutexes -> Threads \cup {NoThread}]
      /\ recursion' \in [Mutexes -> 0..MaxRecursion]
      /\ granted' \in [Mutexes -> Threads \cup {NoThread}]
  <2>1. /\ owner \in [Mutexes -> Threads \cup {NoThread}]
        /\ recursion \in [Mutexes -> 0..MaxRecursion]
        /\ granted \in [Mutexes -> Threads \cup {NoThread}]
        /\ current \in Threads
    BY <1>1, CallFacts DEF TypeOK
  <2>2. CASE owner[m] = NoThread
    BY <1>1, <2>1, <2>2 DEF TryLockMutex
  <2>3. CASE owner[m] = current
    <3>1. recursion' = [recursion EXCEPT ![m] = @ + 1] /\ UNCHANGED <<owner, granted>>
      BY <1>1, <2>3 DEF TryLockMutex
    <3>2. recursion[m] + 1 \in 0..MaxRecursion
      BY <1>1, <2>1, <2>3 DEF TryLockMutex
    <3>3. QED
      BY <2>1, <3>1, <3>2
  <2>4. QED
    BY <2>2, <2>3 DEF TryLockMutex
<1>9. waiters' \in [Mutexes -> SUBSET Threads] /\ WaiterTypeOK'
  BY <1>1, CallFacts DEF TryLockMutex, TypeOK, WaiterTypeOK
<1>10. QED
  BY <1>2, <1>3, <1>4, <1>5, <1>6, <1>7, <1>8, <1>9 DEF MutexPart

(* An unlock that leaves the mutex held counts one less on both sides. *)
LEMMA UnlockInnerKeeps ==
  ASSUME MutexInv, NEW m \in Mutexes, UnlockInner(m)
  PROVE  MutexPart'
<1> USE ThreadConstants, MutexConstants
<1>1. At(m) /\ current # NoThread /\ Continue({}, Guest)
  BY DEF UnlockInner, Releases, At, InGuest
<1>2. BlockedAtCall'
  BY <1>1, MutexReturn
<1>3. WaitersBlocked'
  BY <1>1, MutexReturn, CallFacts DEF UnlockInner, WaitersBlocked
<1>4. HoldersOwn' /\ RecursionCounts'
  BY <1>1, CallFacts
  DEF UnlockInner, Releases, TypeOK, HoldersOwn, RecursionCounts
<1>5. FreeHasNoWaiters'
  BY <1>1, CallFacts DEF UnlockInner, TypeOK, FreeHasNoWaiters
<1>6. GrantIsAwaited'
  <2> SUFFICES ASSUME NEW x \in Mutexes, granted'[x] # NoThread
               PROVE  owner'[x] = granted'[x] /\ Awaits(granted[x], x)'
    BY DEF GrantIsAwaited, Awaits
  <2>1. InGuest /\ granted'[x] = granted[x] /\ owner'[x] = owner[x]
    BY DEF UnlockInner, Releases
  <2>2. QED
    BY <1>1, <2>1, MutexReturn, CallFacts DEF TypeOK, GrantIsAwaited
<1>7. held' \in [Mutexes -> [Threads -> 0..MaxRecursion]]
  BY <1>1, CallFacts
  DEF UnlockInner, Releases, TypeOK, HoldersOwn, RecursionCounts
<1>8. QED
  BY <1>1, <1>2, <1>3, <1>4, <1>5, <1>6, <1>7, CallFacts
  DEF MutexPart, UnlockInner, TypeOK, WaiterTypeOK

(* The last unlock with an empty list frees the mutex. *)
LEMMA FreeKeeps ==
  ASSUME MutexInv, NEW m \in Mutexes, Free(m)
  PROVE  MutexPart'
<1> USE ThreadConstants, MutexConstants
<1>1. At(m) /\ current # NoThread /\ Continue({}, Guest)
  BY DEF Free, Releases, At, InGuest
<1>2. BlockedAtCall'
  BY <1>1, MutexReturn
<1>3. WaitersBlocked'
  BY <1>1, MutexReturn, CallFacts DEF Free, WaitersBlocked
<1>4. HoldersOwn' /\ RecursionCounts'
  BY <1>1, CallFacts
  DEF Free, Releases, TypeOK, HoldersOwn, RecursionCounts
<1>5. FreeHasNoWaiters'
  BY <1>1, CallFacts DEF Free, TypeOK, FreeHasNoWaiters
<1>6. GrantIsAwaited'
  <2> SUFFICES ASSUME NEW x \in Mutexes, granted'[x] # NoThread
               PROVE  owner'[x] = granted'[x] /\ Awaits(granted[x], x)'
    BY DEF GrantIsAwaited, Awaits
  <2>1. InGuest /\ granted'[x] = granted[x] /\ owner'[x] = owner[x]
    BY CallFacts DEF Free, Releases, TypeOK
  <2>2. QED
    BY <1>1, <2>1, MutexReturn, CallFacts DEF TypeOK, GrantIsAwaited
<1>7. held' \in [Mutexes -> [Threads -> 0..MaxRecursion]]
  BY <1>1, CallFacts
  DEF Free, Releases, TypeOK, HoldersOwn, RecursionCounts
<1>8. QED
  BY <1>1, <1>2, <1>3, <1>4, <1>5, <1>6, <1>7, CallFacts
  DEF MutexPart, Free, TypeOK, WaiterTypeOK

(* A thread that finds the mutex taken is in the list as soon as it blocks. *)
LEMMA WaitForKeeps ==
  ASSUME MutexInv, NEW m \in Mutexes, WaitFor(m)
  PROVE  MutexPart'
<1> USE ThreadConstants, MutexConstants
<1>1. At(m) /\ current # NoThread /\ Block(m, m)
  BY DEF WaitFor, At
<1>2. ThreadInv
  BY DEF MutexInv
<1>3. \A x \in Mutexes : Blocked(x)' = IF x = m THEN Blocked(x) \cup {current} ELSE Blocked(x)
  BY <1>1, <1>2, CurrentNotWakeable
  DEF Block, Blocked, ThreadInv, ThreadTypeOK, ThreadStates, Mutexes
<1>4. WaitersBlocked'
  BY <1>3, CallFacts, <1>1 DEF WaitFor, WaitersBlocked, TypeOK
<1>5. BlockedAtCall'
  BY <1>1, <1>2, CallFacts
  DEF Block, SetPc, BlockedAtCall, ThreadInv, ThreadTypeOK, Mutexes
<1>6. HoldersOwn' /\ RecursionCounts'
  BY <1>1, CallFacts DEF WaitFor, HoldersOwn, RecursionCounts
<1>7. FreeHasNoWaiters'
  BY <1>1, CallFacts DEF WaitFor, TypeOK, FreeHasNoWaiters
<1>8. GrantIsAwaited'
  <2>1. \A x \in Mutexes, t \in Threads : Awaits(t, x) => Awaits(t, x)'
    BY <1>1, <1>2, CallFacts
    DEF At, Block, SetPc, Awaits, ThreadInv, ThreadTypeOK, Mutexes
  <2> SUFFICES ASSUME NEW x \in Mutexes, granted'[x] # NoThread
               PROVE  owner'[x] = granted'[x] /\ Awaits(granted[x], x)'
    BY DEF GrantIsAwaited, Awaits
  <2>2. granted'[x] = granted[x] /\ owner'[x] = owner[x]
    BY DEF WaitFor
  <2>3. QED
    BY <1>1, <2>1, <2>2, CallFacts DEF TypeOK, GrantIsAwaited
<1>9. WaiterTypeOK'
  BY <1>1, CallFacts DEF WaitFor, WaiterTypeOK, Arrive, TypeOK
<1>10. QED
  BY <1>1, <1>4, <1>5, <1>6, <1>7, <1>8, <1>9, CallFacts DEF MutexPart, WaitFor, TypeOK

(* The last unlock with waiters: owner, grant, list and wake move together. *)
LEMMA HandOffKeeps ==
  ASSUME MutexInv, NEW m \in Mutexes, HandOff(m)
  PROVE  MutexPart'
<1> USE ThreadConstants, MutexConstants
<1>1. At(m) /\ InGuest /\ current # NoThread /\ current \in Threads
  BY CallFacts DEF HandOff, Releases, At, InGuest
<1>2. PICK woken \in Threads :
        /\ woken \in waiters[m]
        /\ owner' = [owner EXCEPT ![m] = woken]
        /\ granted' = [granted EXCEPT ![m] = woken]
        /\ waiters' = [waiters EXCEPT ![m] = @ \ {woken}]
        /\ Depart({woken})
        /\ Continue({woken}, Guest)
  BY DEF HandOff, IsFirst
<1>3. woken # current /\ woken # NoThread /\ pc[woken] = m
  BY <1>1, <1>2, CallFacts, CurrentNotWakeable
  DEF WaitersBlocked, Blocked, BlockedAtCall, Mutexes
<1>4. BlockedAtCall'
  BY <1>1, <1>2, MutexContinue
<1>5. WaitersBlocked'
  <2>1. \A x \in Mutexes : Blocked(x)' = Blocked(x) \ {woken}
    BY <1>1, <1>2, MutexContinue
  <2>2. \A x \in Mutexes : x # m => woken \notin Blocked(x)
    BY <1>1, <1>2, CallFacts DEF WaitersBlocked, Blocked
  <2>3. ASSUME NEW x \in Mutexes
        PROVE  waiters'[x] = Blocked(x)'
    <3>1. waiters[x] = Blocked(x)
      BY <1>1, CallFacts DEF WaitersBlocked
    <3>2. waiters'[x] = IF x = m THEN waiters[x] \ {woken} ELSE waiters[x]
      BY <1>1, <1>2, CallFacts DEF TypeOK
    <3>3. QED
      BY <2>1, <2>2, <3>1, <3>2
  <2>4. QED
    BY <2>3 DEF WaitersBlocked
<1>6. held[m][current] = 1 /\ held[m][woken] = 0
  BY <1>1, <1>3, CallFacts DEF HandOff, Releases, HoldersOwn, RecursionCounts, TypeOK
<1>7. HoldersOwn' /\ RecursionCounts'
  BY <1>1, <1>2, <1>3, <1>6, CallFacts
  DEF HandOff, Releases, HoldersOwn, RecursionCounts, TypeOK
<1>8. FreeHasNoWaiters'
  BY <1>1, <1>2, <1>3, CallFacts DEF FreeHasNoWaiters, TypeOK
<1>9. GrantIsAwaited'
  <2>1. \A x \in Mutexes, t \in Threads : Awaits(t, x) => Awaits(t, x)'
    BY <1>1, <1>2, MutexContinue
  <2> SUFFICES ASSUME NEW x \in Mutexes, granted'[x] # NoThread
               PROVE  owner'[x] = granted'[x] /\ Awaits(granted[x], x)'
    BY DEF GrantIsAwaited, Awaits
  <2>2. CASE x = m
    <3>1. Awaits(woken, m)
      BY <1>3 DEF Awaits
    <3>2. owner'[x] = woken /\ granted'[x] = woken
      BY <1>1, <1>2, <2>2, CallFacts DEF TypeOK
    <3>3. QED
      BY <2>1, <2>2, <3>1, <3>2 DEF Awaits
  <2>3. CASE x # m
    <3>1. granted'[x] = granted[x] /\ owner'[x] = owner[x]
      BY <1>2, <2>3, <1>1, CallFacts DEF TypeOK
    <3>2. granted[x] \in Threads /\ owner[x] = granted[x] /\ Awaits(granted[x], x)
      BY <1>1, <3>1, CallFacts DEF TypeOK, GrantIsAwaited
    <3>3. QED
      BY <2>1, <3>1, <3>2 DEF Awaits
  <2>4. QED
    BY <2>2, <2>3
<1>10. held' \in [Mutexes -> [Threads -> 0..MaxRecursion]]
  BY <1>1, <1>6, CallFacts DEF HandOff, Releases, TypeOK
<1>11. QED
  BY <1>1, <1>2, <1>4, <1>5, <1>7, <1>8, <1>9, <1>10, CallFacts
  DEF MutexPart, HandOff, Depart, TypeOK, WaiterTypeOK

(* Steps that touch no mutex. *)
LEMMA OtherStepsKeep ==
  ASSUME MutexInv, BetweenSlices \/ OtherCalls, UNCHANGED mutexVars
  PROVE  MutexPart'
<1>1. TypeOK /\ WaitersBlocked /\ HoldersOwn /\ RecursionCounts
      /\ FreeHasNoWaiters /\ GrantIsAwaited
  BY DEF MutexInv
<1>2. BlockedAtCall' /\ WaitersBlocked'
  BY <1>1, OtherStepsKeepBlocked
  DEF MutexInv, BlockedAtCall, StaysAtCall, WaitersBlocked, mutexVars, Mutexes
<1>3. HoldersOwn' /\ RecursionCounts' /\ FreeHasNoWaiters'
  BY <1>1 DEF mutexVars, HoldersOwn, RecursionCounts, FreeHasNoWaiters
<1>4. GrantIsAwaited'
  <2>1. ThreadInv /\ Mutexes \subseteq Sites \ {Guest}
    BY MutexConstants DEF MutexInv, Mutexes
  <2>2. QED
    BY <1>1, <2>1, OtherStepsKeepBlocked DEF mutexVars, GrantIsAwaited, TypeOK, Awaits
<1>5. QED
  BY <1>1, <1>2, <1>3, <1>4 DEF MutexPart, TypeOK, mutexVars, WaiterTypeOK

(* One step, or none, keeps the invariant. *)
LEMMA MutexStep ==
  ASSUME MutexInv, [Next]_vars
  PROVE  MutexInv'
<1>1. ThreadInv'
  BY NextIsThreadStep, ThreadStep DEF MutexInv
<1>2. CASE Next
  <2>1. MutexPart'
    BY <1>2, OtherStepsKeep, AcquireFreeKeeps, TakeGrantKeeps, LockAgainKeeps,
       WaitForKeeps, TryLockMutexKeeps, UnlockInnerKeeps, FreeKeeps, HandOffKeeps
    DEF Next, LockMutex, UnlockMutex
  <2>2. QED
    BY <1>1, <2>1 DEF MutexInv, MutexPart, TypeOK, ThreadInv
<1>3. CASE UNCHANGED vars
  <2>1. /\ TypeOK' /\ BlockedAtCall' /\ WaitersBlocked' /\ HoldersOwn'
        /\ RecursionCounts' /\ FreeHasNoWaiters'
    BY <1>3
    DEF vars, mutexVars, threadVars, MutexInv, TypeOK, ThreadTypeOK, WaiterTypeOK,
        BlockedAtCall, WaitersBlocked, Blocked, HoldersOwn, RecursionCounts, FreeHasNoWaiters
  <2>2. GrantIsAwaited'
    BY <1>3 DEF vars, mutexVars, threadVars, MutexInv, GrantIsAwaited, Awaits
  <2>3. QED
    BY <1>1, <2>1, <2>2 DEF MutexInv
<1>4. QED
  BY <1>2, <1>3

(* The inductive invariant holds in every state any guest can reach. *)
THEOREM MutexInvariant == Spec => []MutexInv
<1>1. Init => MutexInv
  BY MutexStart
<1>2. MutexInv /\ [Next]_vars => MutexInv'
  BY MutexStep
<1>3. QED
  BY <1>1, <1>2, PTL DEF Spec

(* The types, for every instance. *)
THEOREM MutexTypes == Spec => []TypeOK
BY MutexInvariant, PTL DEF MutexInv

(* No two threads are ever inside one mutex, and an unlock by a thread that  *)
(* holds it is never refused.                                                *)
THEOREM MutualExclusion == Spec => []HoldersOwn
BY MutexInvariant, PTL DEF MutexInv

(* The recursion count never drifts from the guest's locks and unlocks.      *)
THEOREM MutexCounts == Spec => []RecursionCounts
BY MutexInvariant, PTL DEF MutexInv

(* A thread in the list is blocked and one that is blocked is in the list, a *)
(* free mutex has no waiters, and a grant has a thread coming for it.        *)
THEOREM NoWaiterForgotten == Spec => []WaitersAccounted
BY MutexInvariant, PTL DEF MutexInv, WaitersAccounted

(* A mutex is a client of the thread machine and nothing more: its calls     *)
(* never move a thread in a way the machine does not allow.                  *)
THEOREM MutexImplementsThreads == Spec => ThreadSpec
<1>1. Init => ThreadInit
  BY DEF Init
<1>2. MutexInv /\ [Next]_vars => [ThreadNext]_threadVars
  BY NextIsThreadStep
<1>3. QED
  BY <1>1, <1>2, MutexInvariant, PTL DEF Spec, ThreadSpec
=============================================================================
