----------------------------- MODULE CafeThreads -----------------------------
(***************************************************************************)
(* The cooperative thread machine every Cafe primitive is written against, *)
(* seen from outside the scheduler: which thread executes, what every other *)
(* thread is doing, and the one callback that may be borrowing a thread.   *)
(* It leaves open WHICH ready thread runs next; CafeScheduler decides that *)
(* the way the code does and implements this specification.                *)
(*                                                                         *)
(* One host thread runs everything (machine.cpp, Machine::run), so a guest *)
(* call is one step, and threads interleave only where a slice ends.       *)
(***************************************************************************)
EXTENDS Naturals, FiniteSets

CONSTANTS
  Threads,    (* Cafe threads, by OSThread address                           *)
  NoThread,   (* the null thread address                                     *)
  Objects,    (* addresses a thread can block on: mutexes, events, queues... *)
  NoObject,   (* wait_object 0: not blocked, or sleeping                     *)
  Sites,      (* where a thread's pc can be, as far as the model cares       *)
  Guest       (* the pc is in guest code, at no blocking Cafe call           *)

ASSUME ThreadConstants ==
  /\ NoThread \notin Threads
  /\ NoObject \notin Objects
  /\ Guest \in Sites

(* Threads are told apart by a 32-bit address. *)
ASSUME ThreadsFinite == IsFiniteSet(Threads)

VARIABLES
  current,        (* Machine::current_                                       *)
  state,          (* Thread::state                                           *)
  waitObject,     (* Thread::wait_object                                     *)
  pc,             (* the Cafe call a thread re-executes when it next runs    *)
  callbackThread, (* callback_thread_address_, the borrowed thread           *)
  savedPc         (* the pc inside callback_saved_context_                   *)

threadVars == <<current, state, waitObject, pc, callbackThread, savedPc>>

(* "absent" is a thread OSCreateThread has not made yet. *)
ThreadStates == {"absent", "suspended", "ready", "running", "waiting", "moribund"}

ThreadTypeOK ==
  /\ current \in Threads \cup {NoThread}
  /\ state \in [Threads -> ThreadStates]
  /\ waitObject \in [Threads -> Objects \cup {NoObject}]
  /\ pc \in [Threads -> Sites]
  /\ callbackThread \in Threads \cup {NoThread}
  /\ savedPc \in Sites

(* The main thread and any other the title starts with are ready; the rest  *)
(* are created later.                                                       *)
ThreadInit ==
  /\ current = NoThread
  /\ state \in [Threads -> {"ready", "absent"}]
  /\ waitObject = [t \in Threads |-> NoObject]
  /\ pc = [t \in Threads |-> Guest]
  /\ callbackThread = NoThread
  /\ savedPc = Guest

Sleepers == {t \in Threads : state[t] = "waiting" /\ waitObject[t] = NoObject}
Blocked(o) == {t \in Threads : state[t] = "waiting" /\ waitObject[t] = o}
InCallback == current # NoThread /\ current = callbackThread

-----------------------------------------------------------------------------
(* Parts of a step. *)

(* Machine::enqueue on every thread of W. *)
EnqueueAll(W) ==
  waitObject' = [t \in Threads |-> IF t \in W THEN NoObject ELSE waitObject[t]]

(* The chosen thread becomes current_ once the sleepers W have been woken.  *)
Run(t, W) ==
  /\ current = NoThread
  /\ W \subseteq Sleepers
  /\ state[t] = "ready" \/ t \in W
  /\ current' = t
  /\ state' = [u \in Threads |-> IF u = t THEN "running"
                                 ELSE IF u \in W THEN "ready" ELSE state[u]]
  /\ EnqueueAll(W)

SetPc(site) == pc' = [pc EXCEPT ![current] = site]

-----------------------------------------------------------------------------
(* Between slices. *)

Dispatch(t, W) ==
  /\ Run(t, W)
  /\ UNCHANGED <<pc, callbackThread, savedPc>>

(* begin_callback: the callback runs on t, whose context is set aside. *)
BeginCallback(t, W) ==
  /\ callbackThread = NoThread
  /\ Run(t, W)
  /\ callbackThread' = t
  /\ savedPc' = pc[t]
  /\ pc' = [pc EXCEPT ![t] = Guest]

(* No thread can run: the clock jumps and sleepers become ready. *)
WakeSleepers(W) ==
  /\ current = NoThread
  /\ W \subseteq Sleepers
  /\ state' = [u \in Threads |-> IF u \in W THEN "ready" ELSE state[u]]
  /\ EnqueueAll(W)
  /\ UNCHANGED <<current, pc, callbackThread, savedPc>>

-----------------------------------------------------------------------------
(* Inside a slice: the running thread executes guest code or a Cafe call.   *)

(* The call wakes W and returns to the guest, which keeps running. *)
Continue(W, site) ==
  /\ current # NoThread
  /\ state' = [u \in Threads |-> IF u \in W THEN "ready" ELSE state[u]]
  /\ EnqueueAll(W)
  /\ SetPc(site)
  /\ UNCHANGED <<current, callbackThread, savedPc>>

(* The call wakes W and ends the slice; the caller is enqueued again. Also  *)
(* the end of a quantum and OSYieldThread, which wake nobody.               *)
Reschedule(W, site) ==
  /\ current # NoThread
  /\ state' = [u \in Threads |-> IF u \in W \cup {current} THEN "ready" ELSE state[u]]
  /\ EnqueueAll(W)
  /\ SetPc(site)
  /\ current' = NoThread
  /\ UNCHANGED <<callbackThread, savedPc>>

(* block_current: pc stays on the call, which runs again after the wake.    *)
Block(o, site) ==
  /\ current # NoThread
  /\ state' = [state EXCEPT ![current] = "waiting"]
  /\ waitObject' = [waitObject EXCEPT ![current] = o]
  /\ SetPc(site)
  /\ current' = NoThread
  /\ UNCHANGED <<callbackThread, savedPc>>

(* sleep_current waits on no object; OSSleepTicks has already moved the pc. *)
Sleep == Block(NoObject, Guest)

(* OSExitThread outside a callback. *)
Exit ==
  /\ current # NoThread
  /\ ~InCallback
  /\ state' = [state EXCEPT ![current] = "moribund"]
  /\ current' = NoThread
  /\ UNCHANGED <<waitObject, pc, callbackThread, savedPc>>

(* OSExitThread, or the callback's final blr, inside a callback. *)
ReturnFromCallback ==
  /\ InCallback
  /\ state' = [state EXCEPT ![current] = "ready"]
  /\ pc' = [pc EXCEPT ![current] = savedPc]
  /\ current' = NoThread
  /\ callbackThread' = NoThread
  /\ savedPc' = Guest
  /\ UNCHANGED waitObject

Create(t) ==
  /\ current # NoThread
  /\ state[t] = "absent"
  /\ state' = [state EXCEPT ![t] = "suspended"]
  /\ UNCHANGED <<current, waitObject, pc, callbackThread, savedPc>>

(* OSResumeThread takes the suspend count from 1 to 0. *)
Resume(t) == state[t] = "suspended" /\ Reschedule({t}, Guest)

-----------------------------------------------------------------------------
(* What a client module's own calls start from, and the calls that touch no  *)
(* primitive: the end of a quantum and OSYieldThread, OSSleepTicks,          *)
(* OSExitThread, OSCreateThread, OSResumeThread.                             *)

InGuest == current # NoThread /\ pc[current] = Guest

(* The running thread makes the call, or re-executes it after a wake.        *)
At(site) == current # NoThread /\ pc[current] \in {Guest, site}

(* t has the call at site to execute again, in its own context or in the one *)
(* a callback has set aside.                                                 *)
Awaits(t, site) ==
  \/ pc[t] = site
  \/ callbackThread = t /\ savedPc = site

EndSlice == InGuest /\ Reschedule({}, Guest)

OtherCalls ==
  \/ EndSlice
  \/ InGuest /\ (Sleep \/ Exit \/ ReturnFromCallback)
  \/ InGuest /\ \E t \in Threads : Create(t) \/ Resume(t)

-----------------------------------------------------------------------------
(* Any client of the machine: a wake targets blocked threads, or suspended   *)
(* ones (OSResumeThread), and nothing else.                                  *)

Wakeable == {t \in Threads : state[t] \in {"waiting", "suspended"}}

BetweenSlices ==
  \E W \in SUBSET Sleepers :
    \/ WakeSleepers(W)
    \/ \E t \in Threads : Dispatch(t, W) \/ BeginCallback(t, W)

InSlice ==
  \/ \E W \in SUBSET Wakeable, site \in Sites : Continue(W, site) \/ Reschedule(W, site)
  \/ \E o \in Objects, site \in Sites : Block(o, site)
  \/ Sleep
  \/ Exit
  \/ ReturnFromCallback
  \/ \E t \in Threads : Create(t)

ThreadNext == BetweenSlices \/ InSlice

ThreadSpec == ThreadInit /\ [][ThreadNext]_threadVars

-----------------------------------------------------------------------------
(* Properties every client inherits. *)

(* Exactly the current thread is running: select_ready, the wakes and the    *)
(* slice end never leave two threads marked running, nor current_ pointing   *)
(* at a thread that blocked, exited or was enqueued.                         *)
OneRunning == \A t \in Threads : state[t] = "running" <=> t = current

(* A borrowed thread can always come back: while a callback holds its saved  *)
(* context it is neither moribund nor suspended (OSExitThread inside a       *)
(* callback returns from it instead of ending the thread it borrows), and    *)
(* nothing is set aside when no callback is active.                          *)
BorrowedThreadLives ==
  /\ callbackThread # NoThread => state[callbackThread] \in {"ready", "running", "waiting"}
  /\ callbackThread = NoThread => savedPc = Guest

(* Only a waiting thread has a wait object, so a stale wait_object can never *)
(* make wake_waiters or the sleeper scan pick a thread that is not blocked.  *)
WaitObjectsCurrent ==
  \A t \in Threads : waitObject[t] # NoObject => state[t] = "waiting"
=============================================================================
