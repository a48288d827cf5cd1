-------------------------- MODULE CafeThreadsProofs --------------------------
(***************************************************************************)
(* The properties of the thread machine, for every set of threads and of   *)
(* objects. Every client's step is a step of ThreadNext, so a client gets  *)
(* them by citing ThreadStep.                                              *)
(***************************************************************************)
EXTENDS CafeThreads, TLAPS

(* The inductive invariant: OneRunning needs the types, BorrowedThreadLives  *)
(* needs OneRunning (nobody but the current thread exits), and               *)
(* WaitObjectsCurrent needs it too (a wake never hits the current thread).   *)
ThreadInv ==
  /\ ThreadTypeOK
  /\ OneRunning
  /\ BorrowedThreadLives
  /\ WaitObjectsCurrent

(* A machine that has not run satisfies the invariant. *)
LEMMA ThreadStart == ThreadInit => ThreadInv
BY ThreadConstants
DEF ThreadInit, ThreadInv, ThreadTypeOK, OneRunning, BorrowedThreadLives,
    WaitObjectsCurrent, ThreadStates

(* What every way of choosing the next thread keeps (Machine::run). *)
LEMMA RunKeeps ==
  ASSUME ThreadInv, NEW t \in Threads, NEW W \in SUBSET Sleepers, Run(t, W)
  PROVE  /\ current' \in Threads \cup {NoThread}
         /\ state' \in [Threads -> ThreadStates]
         /\ waitObject' \in [Threads -> Objects \cup {NoObject}]
         /\ OneRunning'
         /\ WaitObjectsCurrent'
         /\ \A u \in Threads : state[u] \in {"ready", "running", "waiting"}
                               => state'[u] \in {"ready", "running", "waiting"}
BY ThreadConstants
DEF ThreadInv, ThreadTypeOK, ThreadStates, OneRunning, WaitObjectsCurrent, Run,
    EnqueueAll, Sleepers

(* Every step of Machine::run between two slices keeps the invariant. *)
LEMMA BetweenSlicesKeeps ==
  ASSUME ThreadInv, BetweenSlices
  PROVE  ThreadInv'
<1>1. PICK W \in SUBSET Sleepers :
        \/ WakeSleepers(W)
        \/ \E t \in Threads : Dispatch(t, W) \/ BeginCallback(t, W)
  BY DEF BetweenSlices
<1>2. CASE WakeSleepers(W)
  BY <1>2, ThreadConstants
  DEF ThreadInv, ThreadTypeOK, ThreadStates, OneRunning, BorrowedThreadLives,
      WaitObjectsCurrent, WakeSleepers, EnqueueAll, Sleepers
<1>3. ASSUME NEW t \in Threads, Dispatch(t, W)
      PROVE  ThreadInv'
  <2>1. Run(t, W)
    BY <1>3 DEF Dispatch
  <2>2. QED
    BY <1>3, <2>1, RunKeeps DEF Dispatch, ThreadInv, ThreadTypeOK, BorrowedThreadLives
<1>4. ASSUME NEW t \in Threads, BeginCallback(t, W)
      PROVE  ThreadInv'
  <2>1. Run(t, W)
    BY <1>4 DEF BeginCallback
  <2>2. state'[t] = "running"
    BY <2>1 DEF Run, ThreadInv, ThreadTypeOK
  <2>3. ThreadTypeOK' /\ BorrowedThreadLives'
    BY <1>4, <2>1, <2>2, RunKeeps, ThreadConstants
    DEF BeginCallback, ThreadInv, ThreadTypeOK, BorrowedThreadLives
  <2>4. QED
    BY <2>1, <2>3, RunKeeps DEF ThreadInv
<1>5. QED
  BY <1>1, <1>2, <1>3, <1>4

(* A wake inside a Cafe call never hits the running thread. *)
LEMMA CurrentNotWakeable ==
  ASSUME ThreadInv, current # NoThread
  PROVE  /\ current \in Threads
         /\ state[current] = "running"
         /\ current \notin Wakeable
         /\ waitObject[current] = NoObject
BY DEF ThreadInv, ThreadTypeOK, OneRunning, WaitObjectsCurrent, Wakeable

(* Every Cafe call of the running thread keeps the invariant. *)
LEMMA InSliceKeeps ==
  ASSUME ThreadInv, InSlice
  PROVE  ThreadInv'
<1> USE DEF ThreadInv, ThreadTypeOK, ThreadStates, OneRunning, BorrowedThreadLives,
            WaitObjectsCurrent
<1>1. ASSUME NEW W \in SUBSET Wakeable, NEW site \in Sites, Continue(W, site)
      PROVE  ThreadInv'
  BY <1>1, CurrentNotWakeable DEF Continue, EnqueueAll, SetPc, Wakeable
<1>2. ASSUME NEW W \in SUBSET Wakeable, NEW site \in Sites, Reschedule(W, site)
      PROVE  ThreadInv'
  BY <1>2, CurrentNotWakeable, ThreadConstants
  DEF Reschedule, EnqueueAll, SetPc, Wakeable
<1>3. ASSUME NEW o \in Objects \cup {NoObject}, NEW site \in Sites, Block(o, site)
      PROVE  ThreadInv'
  BY <1>3, CurrentNotWakeable, ThreadConstants DEF Block, SetPc
<1>4. CASE Sleep
  BY <1>3, <1>4, ThreadConstants DEF Sleep
<1>5. CASE Exit
  BY <1>5, CurrentNotWakeable, ThreadConstants DEF Exit, InCallback
<1>6. CASE ReturnFromCallback
  BY <1>6, CurrentNotWakeable, ThreadConstants DEF ReturnFromCallback, InCallback
<1>7. ASSUME NEW t \in Threads, Create(t)
      PROVE  ThreadInv'
  BY <1>7, CurrentNotWakeable DEF Create
<1>8. QED
  BY <1>1, <1>2, <1>3, <1>4, <1>5, <1>6, <1>7 DEF InSlice

(* One step, or none, of the machine. *)
LEMMA ThreadStep ==
  ASSUME ThreadInv, [ThreadNext]_threadVars
  PROVE  ThreadInv'
<1>1. CASE ThreadNext
  BY <1>1, BetweenSlicesKeeps, InSliceKeeps DEF ThreadNext
<1>2. CASE UNCHANGED threadVars
  BY <1>2
  DEF threadVars, ThreadInv, ThreadTypeOK, OneRunning, BorrowedThreadLives,
      WaitObjectsCurrent
<1>3. QED
  BY <1>1, <1>2

(* Steps that touch no primitive are steps of the machine by definition.     *)
LEMMA OtherStepsAreThreadSteps ==
  ASSUME BetweenSlices \/ OtherCalls
  PROVE  ThreadNext
<1>1. {} \in SUBSET Wakeable /\ Guest \in Sites
  BY ThreadConstants
<1>2. ASSUME NEW t \in Threads, Resume(t)
      PROVE  ThreadNext
  <2>1. {t} \in SUBSET Wakeable
    BY <1>2 DEF Resume, Wakeable
  <2>2. QED
    BY <1>1, <1>2, <2>1 DEF Resume, ThreadNext, InSlice
<1>3. QED
  BY <1>1, <1>2 DEF OtherCalls, EndSlice, ThreadNext, InSlice

-----------------------------------------------------------------------------
(* What a step leaves of the calls that threads are blocked in, or have to   *)
(* execute again: the clients' wait lists and grants rest on these.          *)

(* A thread that is still blocked is blocked in the call it was blocked in.  *)
StaysAtCall ==
  \A t \in Threads : waitObject'[t] # NoObject
                     => waitObject'[t] = waitObject[t] /\ pc'[t] = pc[t]

(* Calls to be executed again that the step does not execute: all but the    *)
(* one the running thread's own context is at.                               *)
StillAwaited ==
  \A t \in Threads, site \in Sites :
    Awaits(t, site) /\ (pc[t] # site \/ site = pc'[t] \/ t # current) => Awaits(t, site)'

(* Between slices, and in calls that touch no primitive, who is blocked on   *)
(* what does not change, and no context loses the call it has to re-execute. *)
LEMMA OtherStepsKeepBlocked ==
  ASSUME ThreadInv, BetweenSlices \/ OtherCalls
  PROVE  /\ \A o \in Objects : Blocked(o)' = Blocked(o)
         /\ StaysAtCall
         /\ \A t \in Threads, site \in Sites \ {Guest} : Awaits(t, site) => Awaits(t, site)'
<1> DEFINE Kept == /\ \A o \in Objects : Blocked(o)' = Blocked(o)
                   /\ StaysAtCall
                   /\ \A t \in Threads, site \in Sites \ {Guest} :
                        Awaits(t, site) => Awaits(t, site)'
<1> USE ThreadConstants DEF ThreadInv, ThreadTypeOK, ThreadStates, StaysAtCall
<1>1. ASSUME NEW W \in SUBSET Sleepers, WakeSleepers(W)
      PROVE  Kept
  BY <1>1 DEF WakeSleepers, EnqueueAll, Sleepers, Blocked, Awaits
<1>2. ASSUME NEW W \in SUBSET Sleepers, NEW t \in Threads, Dispatch(t, W)
      PROVE  Kept
  BY <1>2 DEF Dispatch, Run, EnqueueAll, Sleepers, Blocked, Awaits
<1>3. ASSUME NEW W \in SUBSET Sleepers, NEW t \in Threads, BeginCallback(t, W)
      PROVE  Kept
  <2>1. waitObject[t] = NoObject
    BY <1>3 DEF BeginCallback, Run, WaitObjectsCurrent, Sleepers
  <2>2. \A o \in Objects : Blocked(o)' = Blocked(o)
    BY <1>3 DEF BeginCallback, Run, EnqueueAll, Sleepers, Blocked
  <2>3. StaysAtCall
    BY <1>3, <2>1 DEF BeginCallback, Run, EnqueueAll
  <2>4. \A u \in Threads, site \in Sites \ {Guest} : Awaits(u, site) => Awaits(u, site)'
    BY <1>3 DEF BeginCallback, Awaits
  <2>5. QED
    BY <2>2, <2>3, <2>4
<1>4. ASSUME NEW W \in SUBSET {t \in Threads : state[t] = "suspended"},
             InGuest, Reschedule(W, Guest)
      PROVE  Kept
  BY <1>4
  DEF InGuest, Reschedule, EnqueueAll, SetPc, Blocked, Awaits, OneRunning, WaitObjectsCurrent
<1>5. ASSUME InGuest, Sleep
      PROVE  Kept
  BY <1>5 DEF InGuest, Sleep, Block, SetPc, Blocked, Awaits, OneRunning
<1>6. ASSUME InGuest, Exit
      PROVE  Kept
  BY <1>6 DEF Exit, Blocked, Awaits, OneRunning
<1>7. ASSUME InGuest, ReturnFromCallback
      PROVE  Kept
  BY <1>7
  DEF InGuest, InCallback, ReturnFromCallback, Blocked, Awaits, OneRunning, WaitObjectsCurrent
<1>8. ASSUME NEW t \in Threads, Create(t)
      PROVE  Kept
  BY <1>8 DEF Create, Blocked, Awaits
<1>9. QED
  BY <1>1, <1>2, <1>3, <1>4, <1>5, <1>6, <1>7, <1>8
  DEF BetweenSlices, OtherCalls, EndSlice, Resume

(* A call that wakes W and returns, or ends the slice: only the caller's own *)
(* call is no longer to be executed again.                                   *)
LEMMA WakeKeeps ==
  ASSUME ThreadInv, NEW W \in SUBSET Threads, Continue(W, Guest) \/ Reschedule(W, Guest)
  PROVE  /\ \A o \in Objects : Blocked(o)' = Blocked(o) \ W
         /\ StaysAtCall
         /\ StillAwaited
<1> USE ThreadConstants DEF ThreadInv, ThreadTypeOK, ThreadStates
<1>1. \A o \in Objects : Blocked(o)' = Blocked(o) \ W
  BY CurrentNotWakeable DEF Continue, Reschedule, EnqueueAll, Blocked
<1>2. StaysAtCall
  BY CurrentNotWakeable DEF Continue, Reschedule, EnqueueAll, SetPc, StaysAtCall
<1>3. StillAwaited
  BY DEF Continue, Reschedule, SetPc, Awaits, StillAwaited
<1>4. QED
  BY <1>1, <1>2, <1>3

(* The same where nobody is woken. *)
LEMMA ReturnKeeps ==
  ASSUME ThreadInv, Continue({}, Guest)
  PROVE  /\ \A o \in Objects : Blocked(o)' = Blocked(o)
         /\ StaysAtCall
         /\ StillAwaited
<1>1. {} \in SUBSET Threads /\ \A o : Blocked(o) \ {} = Blocked(o)
  OBVIOUS
<1>2. QED
  BY <1>1, WakeKeeps

(* A call that blocks adds its thread to those blocked on the object. *)
LEMMA BlockKeeps ==
  ASSUME ThreadInv, NEW o \in Objects, NEW site \in Sites, Block(o, site)
  PROVE  /\ \A x \in Objects : Blocked(x)' = IF x = o THEN Blocked(x) \cup {current}
                                             ELSE Blocked(x)
         /\ pc'[current] = site /\ waitObject'[current] = o
         /\ \A t \in Threads \ {current} : pc'[t] = pc[t] /\ waitObject'[t] = waitObject[t]
         /\ StillAwaited
<1> USE ThreadConstants DEF ThreadInv, ThreadTypeOK, ThreadStates
<1>1. \A x \in Objects : Blocked(x)' = IF x = o THEN Blocked(x) \cup {current} ELSE Blocked(x)
  BY CurrentNotWakeable DEF Block, Blocked
<1>2. /\ pc'[current] = site /\ waitObject'[current] = o
      /\ \A t \in Threads \ {current} : pc'[t] = pc[t] /\ waitObject'[t] = waitObject[t]
  BY DEF Block, SetPc
<1>3. StillAwaited
  BY <1>2 DEF Block, Awaits, StillAwaited
<1>4. QED
  BY <1>1, <1>2, <1>3

-----------------------------------------------------------------------------
(* At most the current thread is running, a thread lent to a callback can be *)
(* given back, and only blocked threads have a wait object: whatever the     *)
(* guest calls, in whatever order the scheduler runs its threads.            *)
THEOREM ThreadsSafe == ThreadSpec => []ThreadInv
<1>1. ThreadInit => ThreadInv
  BY ThreadStart
<1>2. ThreadInv /\ [ThreadNext]_threadVars => ThreadInv'
  BY ThreadStep
<1>3. QED
  BY <1>1, <1>2, PTL DEF ThreadSpec
=============================================================================
