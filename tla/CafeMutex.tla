------------------------------ MODULE CafeMutex ------------------------------
(***************************************************************************)
(* OSMutex (cafe_coreinit.cpp): recursive, with hand-off. An unlock that   *)
(* finds waiters makes the first one the owner at once and marks it        *)
(* granted; the woken thread re-executes OSLockMutex and finds the mutex   *)
(* already its own. Ownership is by thread, and a callback runs on a       *)
(* borrowed thread, so its locks and the borrowed thread's are one account. *)
(***************************************************************************)
EXTENDS CafeWaiters

CONSTANT MaxRecursion  (* the recursion count at which a further lock faults *)

ASSUME MutexConstants ==
  /\ Objects \subseteq Sites \ {Guest}
  /\ MaxRecursion \in Nat \ {0}

Mutexes == Objects

VARIABLES
  owner,      (* MutexState::owner                                           *)
  recursion,  (* MutexState::recursion                                       *)
  granted,    (* MutexState::granted, the hand-off not yet picked up         *)
  waiters,    (* MutexState::waiters                                         *)
  held        (* what the guest knows: returned locks minus unlocks          *)

mutexVars == <<owner, recursion, granted, waiters, held, arrived>>
vars == <<threadVars, mutexVars>>

TypeOK ==
  /\ ThreadTypeOK
  /\ WaiterTypeOK
  /\ owner \in [Mutexes -> Threads \cup {NoThread}]
  /\ recursion \in [Mutexes -> 0..MaxRecursion]
  /\ granted \in [Mutexes -> Threads \cup {NoThread}]
  /\ waiters \in [Mutexes -> SUBSET Threads]
  /\ held \in [Mutexes -> [Threads -> 0..MaxRecursion]]

(* OSInitMutex, once for each mutex. *)
Init ==
  /\ ThreadInit
  /\ WaiterInit
  /\ owner = [m \in Mutexes |-> NoThread]
  /\ recursion = [m \in Mutexes |-> 0]
  /\ granted = [m \in Mutexes |-> NoThread]
  /\ waiters = [m \in Mutexes |-> {}]
  /\ held = [m \in Mutexes |-> [t \in Threads |-> 0]]

Returns(m) == held' = [held EXCEPT ![m][current] = @ + 1]

-----------------------------------------------------------------------------
(* lock_mutex, one action for each way through it. *)

AcquireFree(m) ==
  /\ At(m)
  /\ owner[m] = NoThread
  /\ owner' = [owner EXCEPT ![m] = current]
  /\ recursion' = [recursion EXCEPT ![m] = 1]
  /\ granted' = [granted EXCEPT ![m] = NoThread]
  /\ Returns(m)
  /\ Continue({}, Guest)
  /\ UNCHANGED <<waiters, arrived>>

(* mutant: granted stays set *)
TakeGrantAgain(m) ==
  /\ At(m)
  /\ owner[m] = current /\ granted[m] = current
  /\ Returns(m)
  /\ Continue({}, Guest)
  /\ UNCHANGED <<owner, recursion, granted, waiters, arrived>>

(* The owner returns from its wait: the grant stands for this lock. Also the *)
(* lock of a callback whose borrowed thread has a grant it has not seen yet. *)
TakeGrant(m) ==
  /\ At(m)
  /\ owner[m] = current /\ granted[m] = current
  /\ granted' = [granted EXCEPT ![m] = NoThread]
  /\ Returns(m)
  /\ Continue({}, Guest)
  /\ UNCHANGED <<owner, recursion, waiters, arrived>>

(* mutant: no overflow check *)
LockAgainPastLimit(m) ==
  /\ At(m)
  /\ owner[m] = current /\ granted[m] # current
  /\ recursion' = [recursion EXCEPT ![m] = @ + 1]
  /\ Returns(m)
  /\ Continue({}, Guest)
  /\ UNCHANGED <<owner, granted, waiters, arrived>>

(* mutant: granted is not looked at, and the grant is counted again *)
LockAgainOverGrant(m) ==
  /\ At(m)
  /\ owner[m] = current
  /\ recursion[m] < MaxRecursion
  /\ recursion' = [recursion EXCEPT ![m] = @ + 1]
  /\ granted' = [granted EXCEPT ![m] = NoThread]
  /\ Returns(m)
  /\ Continue({}, Guest)
  /\ UNCHANGED <<owner, waiters, arrived>>

(* mutex recursion overflow faults the guest. *)
LockAgain(m) ==
  /\ At(m)
  /\ owner[m] = current /\ granted[m] # current
  /\ recursion[m] < MaxRecursion
  /\ recursion' = [recursion EXCEPT ![m] = @ + 1]
  /\ Returns(m)
  /\ Continue({}, Guest)
  /\ UNCHANGED <<owner, granted, waiters, arrived>>

WaitFor(m) ==
  /\ At(m)
  /\ owner[m] \notin {NoThread, current}
  /\ waiters' = [waiters EXCEPT ![m] = @ \cup {current}]
  /\ IF current \in waiters[m] THEN UNCHANGED arrived ELSE Arrive
  /\ Block(m, m)
  /\ UNCHANGED <<owner, recursion, granted, held>>

LockMutex(m) == AcquireFree(m) \/ TakeGrant(m) \/ LockAgain(m) \/ WaitFor(m)

(* try_lock_mutex where it succeeds; it does not look at granted. Where it   *)
(* fails it changes nothing and returns to the caller.                       *)
TryLockMutex(m) ==
  /\ InGuest
  /\ \/ /\ owner[m] = NoThread
        /\ owner' = [owner EXCEPT ![m] = current]
        /\ recursion' = [recursion EXCEPT ![m] = 1]
        /\ granted' = [granted EXCEPT ![m] = NoThread]
     \/ /\ owner[m] = current
        /\ recursion[m] < MaxRecursion
        /\ recursion' = [recursion EXCEPT ![m] = @ + 1]
        /\ UNCHANGED <<owner, granted>>
  /\ Returns(m)
  /\ Continue({}, Guest)
  /\ UNCHANGED <<waiters, arrived>>

-----------------------------------------------------------------------------
(* unlock_mutex. The guest unlocks only what it has locked.                  *)

Releases(m) ==
  /\ InGuest
  /\ held[m][current] > 0
  /\ held' = [held EXCEPT ![m][current] = @ - 1]

UnlockInner(m) ==
  /\ Releases(m)
  /\ owner[m] = current
  /\ recursion[m] > 1
  /\ recursion' = [recursion EXCEPT ![m] = @ - 1]
  /\ Continue({}, Guest)
  /\ UNCHANGED <<owner, granted, waiters, arrived>>

(* mutant: waiters are not looked at *)
FreeRegardless(m) ==
  /\ Releases(m)
  /\ owner[m] = current
  /\ recursion[m] <= 1
  /\ owner' = [owner EXCEPT ![m] = NoThread]
  /\ recursion' = [recursion EXCEPT ![m] = 0]
  /\ granted' = [granted EXCEPT ![m] = NoThread]
  /\ Continue({}, Guest)
  /\ UNCHANGED <<waiters, arrived>>

Free(m) ==
  /\ Releases(m)
  /\ owner[m] = current
  /\ recursion[m] <= 1
  /\ waiters[m] = {}
  /\ owner' = [owner EXCEPT ![m] = NoThread]
  /\ recursion' = [recursion EXCEPT ![m] = 0]
  /\ granted' = [granted EXCEPT ![m] = NoThread]
  /\ Continue({}, Guest)
  /\ UNCHANGED <<waiters, arrived>>

(* mutant: handed over by the first unlock of a recursive lock *)
HandOffFromInside(m) ==
  /\ Releases(m)
  /\ owner[m] = current
  /\ \E woken \in Threads :
       /\ IsFirst(woken, waiters[m])
       /\ owner' = [owner EXCEPT ![m] = woken]
       /\ granted' = [granted EXCEPT ![m] = woken]
       /\ waiters' = [waiters EXCEPT ![m] = @ \ {woken}]
       /\ Depart({woken})
       /\ Continue({woken}, Guest)
  /\ recursion' = [recursion EXCEPT ![m] = 1]

(* mutant: the woken thread stays in the list *)
HandOffWithoutErase(m) ==
  /\ Releases(m)
  /\ owner[m] = current
  /\ recursion[m] <= 1
  /\ \E woken \in Threads :
       /\ IsFirst(woken, waiters[m])
       /\ owner' = [owner EXCEPT ![m] = woken]
       /\ granted' = [granted EXCEPT ![m] = woken]
       /\ Continue({woken}, Guest)
  /\ recursion' = [recursion EXCEPT ![m] = 1]
  /\ UNCHANGED <<waiters, arrived>>

(* wake_thread returns here, so the unlocking thread keeps running. *)
HandOff(m) ==
  /\ Releases(m)
  /\ owner[m] = current
  /\ recursion[m] <= 1
  /\ \E woken \in Threads :
       /\ IsFirst(woken, waiters[m])
       /\ owner' = [owner EXCEPT ![m] = woken]
       /\ granted' = [granted EXCEPT ![m] = woken]
       /\ waiters' = [waiters EXCEPT ![m] = @ \ {woken}]
       /\ Depart({woken})
       /\ Continue({woken}, Guest)
  /\ recursion' = [recursion EXCEPT ![m] = 1]

UnlockMutex(m) == UnlockInner(m) \/ Free(m) \/ HandOff(m)

-----------------------------------------------------------------------------
Next ==
  \/ (BetweenSlices \/ OtherCalls) /\ UNCHANGED mutexVars
  \/ \E m \in Mutexes : LockMutex(m) \/ TryLockMutex(m) \/ UnlockMutex(m)

Spec == Init /\ [][Next]_vars

(* A slice ends, a re-executed lock runs, and the guest leaves every         *)
(* critical section it enters, callbacks included. That threads are          *)
(* dispatched is not assumed here: priorities differ.                        *)
FairSpec ==
  /\ Spec
  /\ WF_vars(EndSlice /\ UNCHANGED mutexVars)
  /\ \A m \in Mutexes : WF_vars(LockMutex(m) /\ ~InGuest)
  /\ \A m \in Mutexes, t \in Threads :
       /\ SF_vars(current = t /\ UnlockInner(m))
       /\ SF_vars(current = t /\ (Free(m) \/ HandOff(m)))

-----------------------------------------------------------------------------
(* A thread blocked on a mutex is in its list, and everything in the list is *)
(* blocked on it. wake_thread throws std::invalid_argument for any other.    *)
WaitersBlocked == \A m \in Mutexes : waiters[m] = Blocked(m)

(* A thread that holds a mutex is its owner, so no two threads are ever      *)
(* inside, and an unlock by a holder is never "mutex unlock by non-owner".   *)
HoldersOwn ==
  \A m \in Mutexes, t \in Threads : held[m][t] > 0 => owner[m] = t

(* The recursion count is the locks the guest has had returned, and one for  *)
(* a grant not picked up: try_lock on a granted mutex, a callback that takes *)
(* its thread's grant, and nested unlocks leave no lock behind or missing.   *)
RecursionCounts ==
  \A m \in Mutexes :
    IF owner[m] = NoThread THEN recursion[m] = 0
    ELSE recursion[m] = held[m][owner[m]] + (IF granted[m] = owner[m] THEN 1 ELSE 0)

(* No thread waits for a mutex that nobody owns: the wake was not lost.      *)
FreeHasNoWaiters ==
  \A m \in Mutexes : owner[m] = NoThread => waiters[m] = {}

(* A grant is picked up: the granted thread still has the OSLockMutex call   *)
(* to re-execute, in its own context or in the one a callback set aside.     *)
GrantIsAwaited ==
  \A m \in Mutexes : granted[m] # NoThread =>
    /\ owner[m] = granted[m]
    /\ Awaits(granted[m], m)

(* Every wait and every grant is accounted for: a blocked thread is listed,  *)
(* a listed one waits for an owner, and a granted one comes for its grant.   *)
WaitersAccounted == WaitersBlocked /\ FreeHasNoWaiters /\ GrantIsAwaited

(* A thread blocked in OSLockMutex is held up by nothing but the order of    *)
(* the wait list: it gets the mutex if no more urgent thread goes on         *)
(* queueing for it. Two such threads can pass the mutex to each other for    *)
(* ever, since the hand-off takes the most urgent waiter and not the one     *)
(* that has waited longest (cafe_coreinit.cpp:635-640, 759). This is with    *)
(* threads that all get to run, callbacks that stop, an owner that does not  *)
(* exit holding the mutex, and short of the recursion fault.                 *)
NoThreadStarves == \A t \in Threads : []<>(state[t] # "ready" /\ t \notin Sleepers)
MoreUrgentWait(t, m) == \E u \in waiters[m] : Priority[u] < Priority[t]
Orphaned(m) == owner[m] # NoThread /\ state[owner[m]] = "moribund"
Overflows(m) ==
  current # NoThread /\ owner[m] = current /\ pc[current] = m /\ recursion[m] = MaxRecursion
LockIsGranted ==
  <>[](callbackThread = NoThread) /\ NoThreadStarves =>
    \A m \in Mutexes, t \in Threads :
      <>[]~MoreUrgentWait(t, m) =>
        ((t \in waiters[m]) ~> (held[m][t] > 0 \/ Orphaned(m) \/ Overflows(m)))
=============================================================================
