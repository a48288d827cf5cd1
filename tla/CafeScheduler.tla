---------------------------- MODULE CafeScheduler ----------------------------
(***************************************************************************)
(* Machine (nWiiURuntime/src/machine.cpp): the cooperative scheduler that  *)
(* runs every Cafe thread of three emulated cores on one host thread.      *)
(*                                                                         *)
(* One step between slices is one iteration of Machine::run up to          *)
(* run_slice; one step inside a slice is one Cafe call of the running      *)
(* thread. Wake ticks are kept relative to the clock, and enqueue_sequence *)
(* is kept as the order it induces, so neither counter needs a bound.      *)
(***************************************************************************)
EXTENDS Naturals, Sequences, FiniteSets

CONSTANTS
  Threads,         (* thread numbers, in the order of threads_                *)
  NoThread,
  Objects,         (* objects the guest's primitives block threads on         *)
  NoObject,
  Priority,        (* Thread::priority, lower is better                       *)
  StartAffinity,   (* the affinity each thread is created with                *)
  Started,         (* the threads that exist and are ready when run begins    *)
  Masks,           (* masks the guest passes to OSSetThreadAffinity           *)
  Recorders,       (* threads that record GX2 display lists                   *)
  Registrars,      (* threads that register AX callbacks                      *)
  SleepTimes,      (* the durations of OSSleepTicks                           *)
  MaxSlice,        (* most ticks one slice advances the clock                 *)
  Calls,           (* the Cafe calls the guest makes, a subset of AllCalls    *)
  MaxNesting,      (* bound on nested display lists                           *)
  MaxPending       (* bound on pending_callbacks_                             *)

Cores == 0..2
Slots == 0..2
NoCore == 255

AllCalls == {"quantum", "yield", "block", "unlock", "send", "rendezvous", "sleep",
             "exit", "create", "affinity", "record", "callback", "audio"}

ASSUME SchedulerConstants ==
  /\ Threads \subseteq Nat \ {0} /\ NoThread = 0 /\ IsFiniteSet(Threads)
  /\ NoObject \notin Objects
  /\ Priority \in [Threads -> Nat]
  /\ StartAffinity \in [Threads -> SUBSET Cores]
  /\ Started \subseteq Threads
  /\ Masks \subseteq SUBSET Cores
  /\ Recorders \subseteq Threads /\ Registrars \subseteq Threads
  /\ SleepTimes \subseteq Nat \ {0}
  /\ MaxSlice \in Nat /\ MaxNesting \in Nat /\ MaxPending \in Nat
  /\ Calls \subseteq AllCalls

VARIABLES
  current, state, waitObject, pc, callbackThread, savedPc,  \* as in CafeThreads
  sleeping,       (* Thread::sleeping                                         *)
  remaining,      (* Thread::wake_tick minus the clock, 0 once elapsed        *)
  older,          (* <<t, u>>: t's enqueue_sequence is smaller than u's       *)
  affinity,       (* Thread::affinity                                         *)
  pinnedCore,     (* Thread::pinned_core, NoCore for 0xFF                     *)
  pinnedThreads,  (* pinned_threads_, by core                                 *)
  picker,         (* scheduler_slot_, scheduled_threads_, current_core_ and   *)
                  (* cross_core_wake_: what select_ready reads and writes     *)
  pending,        (* the owner_thread of each pending callback                *)
  listDepth,      (* open display lists of each core (Gx2DisplayListContext)  *)
  stopped         (* why run returned: "no", "deadlock", or "threw"           *)

threadVars == <<current, state, waitObject, pc, callbackThread, savedPc>>
vars == <<threadVars, sleeping, remaining, older, affinity, pinnedCore,
          pinnedThreads, picker, pending, listDepth, stopped>>

ThreadStates == {"absent", "suspended", "ready", "running", "waiting", "moribund"}
Sites == {"guest", "call"}
AnyThread == Threads \cup {NoThread}
NoneScheduled == [s \in Slots |-> NoThread]

TypeOK ==
  /\ current \in AnyThread
  /\ state \in [Threads -> ThreadStates]
  /\ waitObject \in [Threads -> Objects \cup {NoObject}]
  /\ pc \in [Threads -> Sites]
  /\ callbackThread \in AnyThread
  /\ savedPc \in Sites
  /\ sleeping \in [Threads -> BOOLEAN]
  /\ remaining \in [Threads -> Nat]
  /\ older \subseteq Threads \X Threads
  /\ affinity \in [Threads -> SUBSET Cores]
  /\ pinnedCore \in [Threads -> Cores \cup {NoCore}]
  /\ pinnedThreads \in [Cores -> AnyThread]
  /\ picker \in [slot : Slots, scheduled : [Slots -> AnyThread],
                 core : Cores, wake : AnyThread]
  /\ pending \in Seq(AnyThread)
  /\ listDepth \in [Cores -> Nat]
  /\ stopped \in {"no", "deadlock", "threw"}

Init ==
  /\ current = NoThread
  /\ state = [t \in Threads |-> IF t \in Started THEN "ready" ELSE "absent"]
  /\ waitObject = [t \in Threads |-> NoObject]
  /\ pc = [t \in Threads |-> "guest"]
  /\ callbackThread = NoThread
  /\ savedPc = "guest"
  /\ sleeping = [t \in Threads |-> FALSE]
  /\ remaining = [t \in Threads |-> 0]
  /\ older = {p \in Threads \X Threads : p[1] < p[2]}
  /\ affinity = StartAffinity
  /\ pinnedCore = [t \in Threads |-> NoCore]
  /\ pinnedThreads = [c \in Cores |-> NoThread]
  /\ picker = [slot |-> 0, scheduled |-> NoneScheduled, core |-> 0, wake |-> NoThread]
  /\ pending = <<>>
  /\ listDepth = [c \in Cores |-> 0]
  /\ stopped = "no"

-----------------------------------------------------------------------------
(* enqueue: the threads of W become ready, one after another in threads_     *)
(* order, each behind every thread enqueued before it.                       *)

EnqueuedInPlace(order, W) == order  \* mutant: no new sequence number

EnqueuedAfter(order, W) ==
  {p \in order : p[1] \notin W /\ p[2] \notin W}
    \cup ((Threads \ W) \X W)
    \cup {p \in W \X W : p[1] < p[2]}

(* mutant: enqueue leaves wait_object behind *)
EnqueueKeepingObject(W) ==
  /\ UNCHANGED waitObject
  /\ sleeping' = [t \in Threads |-> t \notin W /\ sleeping[t]]
  /\ older' = EnqueuedAfter(older, W)

(* enqueue on W, where state' is left to the caller. *)
EnqueueAll(W) ==
  /\ waitObject' = [t \in Threads |-> IF t \in W THEN NoObject ELSE waitObject[t]]
  /\ sleeping' = [t \in Threads |-> t \notin W /\ sleeping[t]]
  /\ older' = EnqueuedAfter(older, W)

Readied(W) == [t \in Threads |-> IF t \in W THEN "ready" ELSE state[t]]

-----------------------------------------------------------------------------
(* select_ready, on a picker p and the given ready threads and order.        *)

CoreAlwaysAvailable(t, c) == TRUE  \* mutant: pins are not looked at

CoreAvailable(t, c) == pinnedThreads[c] \in {NoThread, t}

CoreOrder == [s \in Slots |-> IF s = 0 THEN 1 ELSE IF s = 1 THEN 0 ELSE 2]

(* mutant: the slot runs past the end of scheduled_threads_ *)
SchedulePastEnd(p, t, c) ==
  [p EXCEPT !.slot = (p.slot + 1) % 4, !.core = c, !.scheduled = [@ EXCEPT ![p.slot] = t]]

(* The lambda schedule: t takes the current slot, whatever core it runs on.  *)
Schedule(p, t, c) ==
  LET next == (p.slot + 1) % 3
  IN  [p EXCEPT !.slot = next, !.core = c,
                !.scheduled = IF next = 0 THEN NoneScheduled
                              ELSE [@ EXCEPT ![p.slot] = t]]

(* k slots in a row found nobody and were recorded empty. *)
Skip(p, k) ==
  [p EXCEPT !.slot = (p.slot + k) % 3,
            !.scheduled = IF p.slot + k >= 3 THEN NoneScheduled
                          ELSE [s \in Slots |-> IF s \in p.slot..(p.slot + k - 1)
                                                THEN NoThread ELSE @[s]]]

(* mutant: a pinned thread may run on any core *)
EligibleOffItsPin(p, ready, excluded) ==
  {t \in ready \ {excluded} : /\ CoreOrder[p.slot] \in affinity[t]
                              /\ \A s \in Slots : p.scheduled[s] # t}

Eligible(p, ready, excluded) ==
  LET c == CoreOrder[p.slot]
  IN  {t \in ready \ {excluded} :
         /\ c \in affinity[t]
         /\ pinnedCore[t] \in {NoCore, c}
         /\ CoreAvailable(t, c)
         /\ \A s \in Slots : p.scheduled[s] # t}

(* mutant: first come, first served *)
PrecedesFifo(order, t, u) == <<t, u>> \in order

(* Lowest priority number first, then longest in the queue. *)
Precedes(order, t, u) ==
  \/ Priority[t] < Priority[u]
  \/ Priority[t] = Priority[u] /\ <<t, u>> \in order

OneRoundOfTries == 0..2  \* mutant: one try for each core

Tries == 0..5

(* <<k, t>>: the k-th slot from here is the first to find anyone, and finds t. *)
Winners(p, ready, order, excluded) ==
  {w \in Tries \X ready :
     LET found == Eligible(Skip(p, w[1]), ready, excluded)
     IN  /\ w[2] \in found
         /\ \A u \in found \ {w[2]} : Precedes(order, w[2], u)
         /\ \A j \in 0..(w[1] - 1) : Eligible(Skip(p, j), ready, excluded) = {}}

(* What a selection can return: one element, since the order is total. *)
SelectInRound(p, ready, order, excluded) ==
  LET winners == Winners(p, ready, order, excluded)
  IN  IF winners = {} THEN {[thread |-> NoThread, picker |-> Skip(p, 6)]}
      ELSE {[thread |-> w[2],
             picker |-> Schedule(Skip(p, w[1]), w[2], CoreOrder[(p.slot + w[1]) % 3])]
              : w \in winners}

(* mutant: the first free core, whatever the affinity *)
WakeCoreFirstFree(p, w) ==
  LET free == {c \in Cores : CoreAvailable(w, c)}
  IN  IF free = {} THEN NoCore ELSE CHOOSE c \in free : \A d \in free : c <= d

(* The core a cross-core wake runs w on: its pinned core, else the first     *)
(* free core of its affinity other than the waker's, else the waker's core   *)
(* if that is free.                                                          *)
WakeCore(p, w) ==
  LET others == {c \in affinity[w] \ {p.core} : CoreAvailable(w, c)}
  IN  IF pinnedCore[w] # NoCore /\ CoreAvailable(w, pinnedCore[w]) THEN pinnedCore[w]
      ELSE IF others # {} THEN CHOOSE c \in others : \A d \in others : c <= d
      ELSE IF CoreAvailable(w, p.core) THEN p.core
      ELSE NoCore

SelectReady(p, ready, order, excluded) ==
  LET w == p.wake
      wakes == w # NoThread /\ w # excluded
      q == IF wakes THEN [p EXCEPT !.wake = NoThread] ELSE p
      c == IF wakes /\ w \in ready /\ affinity[w] # {} THEN WakeCore(p, w) ELSE NoCore
  IN  IF c # NoCore THEN {[thread |-> w, picker |-> Schedule(q, w, c)]}
      ELSE SelectInRound(q, ready, order, excluded)

-----------------------------------------------------------------------------
(* One iteration of Machine::run up to run_slice.                            *)

Sleepers == {t \in Threads : state[t] = "waiting" /\ sleeping[t]}

(* mutant: only the first elapsed sleeper is woken *)
DueFirst == {t \in Sleepers : remaining[t] = 0 /\ \A u \in Sleepers : t <= u}

(* wake_elapsed_sleepers comes first in every iteration. *)
Due == {t \in Sleepers : remaining[t] = 0}
ReadyNow == {t \in Threads : state[t] = "ready"} \cup Due
Select(p, excluded) == SelectReady(p, ReadyNow, EnqueuedAfter(older, Due), excluded)
FirstPicks == Select(picker, NoThread)

(* mutant: a callback without an owner never finds it blocked *)
OwnedCallbackMayStart ==
  /\ pending # <<>>
  /\ callbackThread = NoThread
  /\ Head(pending) \in Threads \ ReadyNow

(* The callback at the front may start only while its owner is blocked. *)
CallbackMayStart ==
  /\ pending # <<>>
  /\ callbackThread = NoThread
  /\ Head(pending) \notin ReadyNow
CallbackPicks(first) == Select(first.picker, Head(pending))

(* t runs the slice. *)
RunSlice(t) ==
  /\ current' = t
  /\ state' = [Readied(Due) EXCEPT ![t] = "running"]
  /\ EnqueueAll(Due)

(* The picked thread runs, unless a callback starts on a second one. When    *)
(* the second select_ready finds nobody its effect on the round stays.       *)
Dispatch ==
  /\ current = NoThread /\ stopped = "no"
  /\ \E first \in FirstPicks :
       /\ first.thread # NoThread
       /\ RunSlice(first.thread)
       /\ IF CallbackMayStart
          THEN \E second \in CallbackPicks(first) :
                 second.thread = NoThread /\ picker' = second.picker
          ELSE picker' = first.picker
  /\ UNCHANGED <<pc, callbackThread, savedPc, remaining, affinity, pinnedCore,
                 pinnedThreads, pending, listDepth, stopped>>

(* begin_callback on the second thread: the first keeps its slot but does    *)
(* not run.                                                                  *)
BeginCallback ==
  /\ current = NoThread /\ stopped = "no"
  /\ CallbackMayStart
  /\ \E first \in FirstPicks : \E second \in CallbackPicks(first) :
       /\ first.thread # NoThread /\ second.thread # NoThread
       /\ RunSlice(second.thread)
       /\ picker' = second.picker
       /\ callbackThread' = second.thread
       /\ savedPc' = pc[second.thread]
       /\ pc' = [pc EXCEPT ![second.thread] = "guest"]
  /\ pending' = Tail(pending)
  /\ UNCHANGED <<remaining, affinity, pinnedCore, pinnedThreads, listDepth, stopped>>

(* Nobody can run on any core. *)
NobodyToRun ==
  /\ current = NoThread /\ stopped = "no"
  /\ \E none \in FirstPicks : none.thread = NoThread /\ picker' = none.picker

Earliest(S) ==
  CHOOSE t \in S : \A u \in S : \/ remaining[t] < remaining[u]
                                \/ remaining[t] = remaining[u] /\ t <= u

(* wake_earliest_sleeper: nobody can run, so the clock jumps. *)
JumpClock ==
  LET late == Sleepers \ Due
      t == Earliest(late)
  IN  /\ NobodyToRun
      /\ late # {}
      /\ state' = Readied(Due \cup {t})
      /\ waitObject' = [u \in Threads |-> IF u \in Due \cup {t} THEN NoObject ELSE waitObject[u]]
      /\ sleeping' = [u \in Threads |-> u \notin Due \cup {t} /\ sleeping[u]]
      /\ older' = EnqueuedAfter(EnqueuedAfter(older, Due), {t})
      /\ remaining' = [u \in Threads |-> IF u \in late THEN remaining[u] - remaining[t] ELSE 0]
      /\ UNCHANGED <<current, pc, callbackThread, savedPc, affinity, pinnedCore,
                     pinnedThreads, pending, listDepth, stopped>>

(* scheduler_stop with StopCategory::deadlock. *)
Deadlock ==
  /\ NobodyToRun
  /\ Sleepers \ Due = {}
  /\ stopped' = "deadlock"
  /\ state' = Readied(Due)
  /\ EnqueueAll(Due)
  /\ UNCHANGED <<current, pc, callbackThread, savedPc, remaining, affinity,
                 pinnedCore, pinnedThreads, pending, listDepth>>

(* CafeRuntime::service_audio_frame, called by the host at a buffer swap:    *)
(* the callback has no owner. It may come while a thread runs or between     *)
(* slices.                                                                   *)
ServiceAudioFrame ==
  /\ "audio" \in Calls /\ stopped = "no"
  /\ Len(pending) < MaxPending
  /\ pending' = Append(pending, NoThread)
  /\ UNCHANGED <<threadVars, sleeping, remaining, older, affinity, pinnedCore,
                 pinnedThreads, picker, listDepth, stopped>>

-----------------------------------------------------------------------------
(* Cafe calls of the running thread. *)

Running(call) == current # NoThread /\ stopped = "no" /\ call \in Calls
InGuest(call) == Running(call) /\ pc[current] = "guest"

(* advance_ticks after a slice of e instructions. *)
Elapse(e) ==
  remaining' = [t \in Threads |-> IF remaining[t] > e THEN remaining[t] - e ELSE 0]

schedulerOnly == <<affinity, pinnedCore, pinnedThreads, pending, listDepth, stopped>>

(* The end of a slice that leaves the thread running: run enqueues it. *)
Preempt ==
  /\ current' = NoThread
  /\ state' = [state EXCEPT ![current] = "ready"]
  /\ EnqueueAll({current})

(* SliceCategory::quantum: the slice ran all of its instructions. A thread   *)
(* woken inside a call re-executes the call before it can use any of them.   *)
EndQuantum ==
  /\ InGuest("quantum")
  /\ Preempt
  /\ Elapse(MaxSlice)
  /\ UNCHANGED <<pc, callbackThread, savedPc, picker, schedulerOnly>>

YieldThread ==
  /\ InGuest("yield")
  /\ Preempt
  /\ \E e \in 0..MaxSlice : Elapse(e)
  /\ UNCHANGED <<pc, callbackThread, savedPc, picker, schedulerOnly>>

(* A blocking call, made or re-executed after a wake, that has to wait.      *)
BlockCurrent(o) ==
  /\ Running("block")
  /\ current' = NoThread
  /\ state' = [state EXCEPT ![current] = "waiting"]
  /\ waitObject' = [waitObject EXCEPT ![current] = o]
  /\ pc' = [pc EXCEPT ![current] = "call"]
  /\ \E e \in 0..MaxSlice : Elapse(e)
  /\ UNCHANGED <<callbackThread, savedPc, sleeping, older, picker, schedulerOnly>>

(* The re-executed call finds what it waited for and returns to the guest.   *)
CompleteCall ==
  /\ Running("block")
  /\ pc[current] = "call"
  /\ pc' = [pc EXCEPT ![current] = "guest"]
  /\ UNCHANGED <<current, state, waitObject, callbackThread, savedPc, sleeping,
                 remaining, older, picker, schedulerOnly>>

(* wake_thread's record of a thread that could run on another core. *)
WakeHint(u) ==
  IF picker.wake = NoThread /\ affinity[u] \ {picker.core} # {}
  THEN [picker EXCEPT !.wake = u] ELSE picker

(* A primitive wakes u and returns to its caller: mutex hand-off. *)
UnlockWakes(u) ==
  /\ InGuest("unlock")
  /\ state[u] = "waiting" /\ waitObject[u] # NoObject
  /\ state' = Readied({u})
  /\ EnqueueAll({u})
  /\ picker' = WakeHint(u)
  /\ UNCHANGED <<current, pc, callbackThread, savedPc, remaining, schedulerOnly>>

(* A primitive wakes u and gives up the slice: event signal, message queues. *)
SendWakes(u) ==
  /\ InGuest("send")
  /\ state[u] = "waiting" /\ waitObject[u] # NoObject
  /\ current' = NoThread
  /\ state' = Readied({u, current})
  /\ waitObject' = [waitObject EXCEPT ![u] = NoObject]
  /\ sleeping' = [sleeping EXCEPT ![u] = FALSE]
  /\ older' = EnqueuedAfter(EnqueuedAfter(older, {u}), {current})
  /\ picker' = WakeHint(u)
  /\ \E e \in 0..MaxSlice : Elapse(e)
  /\ UNCHANGED <<pc, callbackThread, savedPc, schedulerOnly>>

(* wake_waiters: every thread blocked on o, and no cross-core hint. *)
WakeWaiters(o) ==
  /\ InGuest("rendezvous")
  /\ LET W == {t \in Threads : state[t] = "waiting" /\ waitObject[t] = o}
     IN  W # {} /\ state' = Readied(W) /\ EnqueueAll(W)
  /\ UNCHANGED <<current, pc, callbackThread, savedPc, remaining, picker, schedulerOnly>>

(* sleep_current: from the thread's own time, so exactly d ticks are left    *)
(* when the slice's instructions have been added to the clock.               *)
SleepCurrent(d) ==
  /\ InGuest("sleep")
  /\ current' = NoThread
  /\ state' = [state EXCEPT ![current] = "waiting"]
  /\ waitObject' = [waitObject EXCEPT ![current] = NoObject]
  /\ sleeping' = [sleeping EXCEPT ![current] = TRUE]
  /\ \E e \in 0..MaxSlice :
       remaining' = [t \in Threads |-> IF t = current THEN d
                                       ELSE IF remaining[t] > e THEN remaining[t] - e ELSE 0]
  /\ UNCHANGED <<pc, callbackThread, savedPc, older, picker, schedulerOnly>>

(* The test of return_from_callback, made by OSExitThread. *)
InCallback == current = callbackThread

(* OSExitThread of a thread that runs no callback. A pinned core stays so.   *)
ExitCurrent ==
  /\ InGuest("exit")
  /\ ~InCallback
  /\ current' = NoThread
  /\ state' = [state EXCEPT ![current] = "moribund"]
  /\ \E e \in 0..MaxSlice : Elapse(e)
  /\ UNCHANGED <<waitObject, pc, callbackThread, savedPc, sleeping, older, picker,
                 schedulerOnly>>

(* OSExitThread with return_from_callback: the borrowed context comes back.  *)
ReturnFromCallback ==
  /\ current # NoThread /\ stopped = "no"
  /\ InCallback
  /\ pc[current] = "guest"
  /\ Preempt
  /\ \E e \in 0..MaxSlice : Elapse(e)
  /\ pc' = [pc EXCEPT ![current] = savedPc]
  /\ callbackThread' = NoThread
  /\ savedPc' = "guest"
  /\ UNCHANGED <<picker, schedulerOnly>>

(* OSCreateThread makes a suspended thread; OSResumeThread takes its suspend *)
(* count from 1 to 0, enqueues it and gives up the slice.                    *)
CreateThread(u) ==
  /\ InGuest("create")
  /\ state[u] = "absent"
  /\ state' = [state EXCEPT ![u] = "suspended"]
  /\ UNCHANGED <<current, waitObject, pc, callbackThread, savedPc, sleeping, remaining,
                 older, picker, schedulerOnly>>

ResumeThread(u) ==
  /\ InGuest("create")
  /\ state[u] = "suspended"
  /\ current' = NoThread
  /\ state' = Readied({u, current})
  /\ waitObject' = [waitObject EXCEPT ![u] = NoObject]
  /\ sleeping' = [sleeping EXCEPT ![u] = FALSE]
  /\ older' = EnqueuedAfter(EnqueuedAfter(older, {u}), {current})
  /\ \E e \in 0..MaxSlice : Elapse(e)
  /\ UNCHANGED <<pc, callbackThread, savedPc, picker, schedulerOnly>>

SetThreadAffinity(u, mask) ==
  /\ InGuest("affinity")
  /\ state[u] # "absent"
  /\ affinity' = [affinity EXCEPT ![u] = mask]
  /\ UNCHANGED <<threadVars, sleeping, remaining, older, pinnedCore, pinnedThreads,
                 picker, pending, listDepth, stopped>>

(* queue_callback from a thread, as in AXRegisterAppFrameCallback. *)
QueueCallback ==
  /\ InGuest("callback")
  /\ current \in Registrars
  /\ Len(pending) < MaxPending
  /\ pending' = Append(pending, current)
  /\ UNCHANGED <<threadVars, sleeping, remaining, older, affinity, pinnedCore,
                 pinnedThreads, picker, listDepth, stopped>>

-----------------------------------------------------------------------------
(* GX2 display lists: the first one a core opens pins its thread there, and  *)
(* the matching end unpins it. Nesting follows the core's list, not the      *)
(* thread. A logic_error from the machine escapes run: stopped = "threw".    *)

PinThrows ==
  \/ pinnedCore[current] # NoCore /\ pinnedCore[current] # picker.core
  \/ pinnedThreads[picker.core] # NoThread /\ pinnedThreads[picker.core] # current

UnpinThrows ==
  pinnedCore[current] # picker.core \/ pinnedThreads[picker.core] # current

UnpinForgetsCore ==  \* mutant
  pinnedCore' = [pinnedCore EXCEPT ![current] = NoCore] /\ UNCHANGED pinnedThreads

PinCurrentCore ==
  /\ pinnedCore' = [pinnedCore EXCEPT ![current] = picker.core]
  /\ pinnedThreads' = [pinnedThreads EXCEPT ![picker.core] = current]

UnpinCurrentCore ==
  /\ pinnedThreads' = [pinnedThreads EXCEPT ![picker.core] = NoThread]
  /\ pinnedCore' = [pinnedCore EXCEPT ![current] = NoCore]

EndsAnyList == TRUE  \* mutant: the end of a nested list unpins too

EndsOutermostList == listDepth[picker.core] <= 1

recorderSteady == <<threadVars, sleeping, remaining, older, affinity, picker, pending>>

BeginDisplayList ==
  /\ InGuest("record")
  /\ current \in Recorders \ {callbackThread}
  /\ listDepth[picker.core] < MaxNesting
  /\ IF listDepth[picker.core] = 0 /\ PinThrows
     THEN stopped' = "threw" /\ UNCHANGED <<listDepth, pinnedCore, pinnedThreads>>
     ELSE /\ listDepth' = [listDepth EXCEPT ![picker.core] = @ + 1]
          /\ IF listDepth[picker.core] = 0
             THEN PinCurrentCore
             ELSE UNCHANGED <<pinnedCore, pinnedThreads>>
          /\ UNCHANGED stopped
  /\ UNCHANGED recorderSteady

(* The guest ends only lists it began: a recorder that holds a pin. *)
EndDisplayList ==
  /\ InGuest("record")
  /\ current \in Recorders \ {callbackThread}
  /\ pinnedCore[current] # NoCore
  /\ IF EndsOutermostList /\ UnpinThrows
     THEN stopped' = "threw" /\ UNCHANGED <<pinnedCore, pinnedThreads>>
     ELSE /\ IF EndsOutermostList
             THEN UnpinCurrentCore
             ELSE UNCHANGED <<pinnedCore, pinnedThreads>>
          /\ UNCHANGED stopped
  /\ listDepth' = [listDepth EXCEPT ![picker.core] = IF @ = 0 THEN 0 ELSE @ - 1]
  /\ UNCHANGED recorderSteady

-----------------------------------------------------------------------------
BetweenSlices == Dispatch \/ BeginCallback \/ JumpClock \/ Deadlock \/ ServiceAudioFrame

InSlice ==
  \/ EndQuantum
  \/ YieldThread
  \/ \E o \in Objects : BlockCurrent(o) \/ WakeWaiters(o)
  \/ CompleteCall
  \/ \E u \in Threads : UnlockWakes(u) \/ SendWakes(u) \/ CreateThread(u) \/ ResumeThread(u)
  \/ \E d \in SleepTimes : SleepCurrent(d)
  \/ ExitCurrent
  \/ ReturnFromCallback
  \/ \E u \in Threads, mask \in Masks : SetThreadAffinity(u, mask)
  \/ QueueCallback
  \/ BeginDisplayList
  \/ EndDisplayList

Next == BetweenSlices \/ InSlice

Spec == Init /\ [][Next]_vars

(* run keeps iterating, a running thread keeps executing, and every slice    *)
(* ends: run_slice stops at its instruction endpoint.                        *)
FairSpec ==
  /\ Spec
  /\ WF_vars(Dispatch \/ BeginCallback \/ JumpClock \/ Deadlock)
  /\ WF_vars(InSlice)
  /\ WF_vars(EndQuantum)

-----------------------------------------------------------------------------
(* Safety. *)

(* pinned_threads_ and Thread::pinned_core are two records of one fact and   *)
(* never disagree, whatever the interleaving of display lists and wakes.     *)
PinsAgree ==
  \A t \in Threads, c \in Cores : pinnedThreads[c] = t <=> pinnedCore[t] = c

(* "a pinned core runs only its owning Cafe thread" (machine_test.cpp:196),  *)
(* and a pinned thread runs nowhere else: the reason pins exist, since a     *)
(* display list is recorded per core.                                        *)
PinExclusive ==
  current # NoThread =>
    /\ pinnedThreads[picker.core] \in {NoThread, current}
    /\ pinnedCore[current] \in {NoCore, picker.core}

(* A core has an open display list exactly while some thread is pinned to    *)
(* it, so no thread can record into, or close, a list another one opened.    *)
ListsPinned ==
  \A c \in Cores : listDepth[c] > 0 <=> pinnedThreads[c] # NoThread

(* The records of a pin - the thread's, the core's and the open lists - tell *)
(* one story, and the running thread fits it.                                *)
PinsConsistent == PinsAgree /\ PinExclusive /\ ListsPinned

(* pin_current_core and unpin_current_core never throw for guests that end   *)
(* what they began: their logic_error would leave Machine::run.              *)
NeverThrows == stopped # "threw"

(* A thread that some core may run. *)
Runnable(t) ==
  /\ state[t] = "ready"
  /\ \E c \in affinity[t] : pinnedCore[t] \in {NoCore, c} /\ CoreAvailable(t, c)

(* The scheduler reports a deadlock only when no core may run any ready      *)
(* thread: the six tries of select_ready, from any slot and whatever this    *)
(* round has recorded, look at every core without the round's exclusions.    *)
NoFalseDeadlock ==
  stopped = "deadlock" => \A t \in Threads : ~Runnable(t)

(* A thread gets a core outside its affinity only by a cross-core wake that  *)
(* finds all of its own cores pinned by others (machine.cpp:167), or because *)
(* it opened a display list on such a core and is pinned there.              *)
AffinityUnlessPinnedOut ==
  [][current = NoThread /\ current' # NoThread =>
       \/ picker'.core \in affinity[current'] \cup {pinnedCore[current']}
       \/ \A c \in affinity[current'] : ~CoreAvailable(current', c)]_vars

(* No slice starts while a sleeper whose wake tick has passed still sleeps.  *)
SleepersOnTime ==
  current # NoThread => \A t \in Sleepers : remaining[t] > 0

(* "lowest numeric priority wins on the same CPU" (machine_test.cpp:110): a  *)
(* thread is not given a core while a better one that this round has not     *)
(* run yet is ready for that same core. Only the thread that cross_core_wake_ *)
(* names, and only in the first selection after the wake, may pass a better  *)
(* one (machine.cpp:157-183). (A callback has no priority of its own: it     *)
(* borrows the second pick.)                                                 *)
LowestPriorityWins ==
  [][current = NoThread /\ current' \notin {NoThread, picker.wake} /\ UNCHANGED callbackThread =>
       \A u \in Threads :
         (/\ state'[u] = "ready" /\ Priority[u] < Priority[current']
          /\ picker'.core \in affinity[u] /\ pinnedCore[u] \in {NoCore, picker'.core}
          /\ CoreAvailable(u, picker'.core))
         => \E s \in Slots : picker.scheduled[s] = u]_vars

(* The scheduler implements the abstract thread machine. *)
ThreadMachine == INSTANCE CafeThreads WITH Guest <- "guest"
RefinesThreads == ThreadMachine!ThreadSpec

-----------------------------------------------------------------------------
(* Liveness. *)

(* "lower-priority work progresses on another CPU" (machine_test.cpp:125): a *)
(* thread with a core no other thread may use always gets to run.            *)
OwnsACore(t) ==
  \E c \in affinity[t] : \A u \in Threads \ {t} : c \notin affinity[u]
OwnCoreProgress ==
  \A t \in Threads : (OwnsACore(t) /\ state[t] = "ready") ~> (current = t)

(* With no cross-core wakes, among threads of one priority, every runnable   *)
(* thread eventually runs, once callbacks stop coming: while they come, the  *)
(* thread whose slot a callback takes (BeginCallback) can be the same one    *)
(* every time.                                                               *)
ReadyThreadsRun ==
  \A t \in Threads :
    <>[](callbackThread = NoThread) => (Runnable(t) ~> (current = t))

(* The front of pending_callbacks_ holds up what is behind it: one that has  *)
(* an owner starts only while that thread is blocked (machine.cpp:329-335).  *)
(* If every callback returns, and every owner of a queued one blocks again   *)
(* and again while no callback runs, then whenever callbacks are queued the  *)
(* front one is started, so that each gets its turn, an audio callback       *)
(* behind a guest's included. If the guest's owner never blocks, it and all  *)
(* behind it wait for ever. Not promised either where every thread is        *)
(* blocked: run stops although the callback might have woken one             *)
(* (machine.cpp:322-328).                                                    *)
OwnersBlock ==
  \A t \in Threads :
    []<>((\E i \in DOMAIN pending : pending[i] = t)
           => callbackThread = NoThread /\ state[t] \in {"waiting", "suspended", "moribund"}
              /\ ~sleeping[t])
AudioCallbacksStart ==
  []<>(callbackThread = NoThread) /\ OwnersBlock =>
    ((pending # <<>> /\ callbackThread = NoThread)
       ~> (callbackThread # NoThread \/ stopped = "deadlock"))
=============================================================================
