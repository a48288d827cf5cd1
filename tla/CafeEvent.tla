------------------------------ MODULE CafeEvent ------------------------------
(***************************************************************************)
(* OSEvent (cafe_coreinit.cpp). A manual-reset event stays signalled until *)
(* it is reset; an auto-reset one releases a single wait. The signal       *)
(* decides which blocked threads return: it records them as granted, and   *)
(* each one re-executes OSWaitEvent and finds its grant. A manual event    *)
(* records nothing: its woken threads look at the value again.             *)
(***************************************************************************)
EXTENDS CafeWaiters

CONSTANTS
  AutoReset,         (* the events initialised with mode 1; others have mode 0 *)
  SignalledAtStart  (* the events OSInitEvent makes signalled               *)

ASSUME EventConstants ==
  /\ Objects \subseteq Sites \ {Guest}
  /\ AutoReset \subseteq Objects
  /\ SignalledAtStart \subseteq Objects

Events == Objects

VARIABLES
  value,    (* the signalled word of the guest's OSEvent                     *)
  waiters,  (* EventState::waiters                                           *)
  granted   (* EventState::granted; a thread is in it at most once           *)

eventVars == <<value, waiters, granted, arrived>>
vars == <<threadVars, eventVars>>

TypeOK ==
  /\ ThreadTypeOK
  /\ WaiterTypeOK
  /\ value \in [Events -> BOOLEAN]
  /\ waiters \in [Events -> SUBSET Threads]
  /\ granted \in [Events -> SUBSET Threads]

(* OSInitEvent, once for each event. *)
Init ==
  /\ ThreadInit
  /\ WaiterInit
  /\ value = [e \in Events |-> e \in SignalledAtStart]
  /\ waiters = [e \in Events |-> {}]
  /\ granted = [e \in Events |-> {}]

-----------------------------------------------------------------------------
(* wait_event. *)

(* mutant: the grant is not used up *)
TakeGrantAgain(e) ==
  /\ At(e)
  /\ current \in granted[e]
  /\ Continue({}, Guest)
  /\ UNCHANGED eventVars

(* mutant: a set value is looked at before the grants *)
TakeGrantUnlessSignalled(e) ==
  /\ At(e)
  /\ current \in granted[e]
  /\ granted' = IF value[e] THEN granted ELSE [granted EXCEPT ![e] = @ \ {current}]
  /\ Continue({}, Guest)
  /\ UNCHANGED <<value, waiters, arrived>>

(* A grant comes before the value, which another signal may have set.        *)
TakeGrant(e) ==
  /\ At(e)
  /\ current \in granted[e]
  /\ granted' = [granted EXCEPT ![e] = @ \ {current}]
  /\ Continue({}, Guest)
  /\ UNCHANGED <<value, waiters, arrived>>

PassSignalled(e) ==
  /\ At(e)
  /\ current \notin granted[e]
  /\ value[e]
  /\ value' = IF e \in AutoReset THEN [value EXCEPT ![e] = FALSE] ELSE value
  /\ Continue({}, Guest)
  /\ UNCHANGED <<waiters, granted, arrived>>

WaitForSignal(e) ==
  /\ At(e)
  /\ current \notin granted[e]
  /\ ~value[e]
  /\ waiters' = [waiters EXCEPT ![e] = @ \cup {current}]
  /\ IF current \in waiters[e] THEN UNCHANGED arrived ELSE Arrive
  /\ Block(e, e)
  /\ UNCHANGED <<value, granted>>

WaitEvent(e) == TakeGrant(e) \/ PassSignalled(e) \/ WaitForSignal(e)

-----------------------------------------------------------------------------
(* signal_event. On a signalled event it does nothing. *)

(* mutant: the value is set whether or not anybody waits *)
SetRegardless(e) ==
  /\ InGuest
  /\ ~value[e]
  /\ value' = [value EXCEPT ![e] = TRUE]
  /\ Continue({}, Guest)
  /\ UNCHANGED <<waiters, granted, arrived>>

SignalNobody(e) ==
  /\ InGuest
  /\ ~value[e]
  /\ waiters[e] = {}
  /\ value' = [value EXCEPT ![e] = TRUE]
  /\ Continue({}, Guest)
  /\ UNCHANGED <<waiters, granted, arrived>>

(* mutant: the released waiter stays in the list *)
ReleaseWithoutErase(e) ==
  /\ InGuest
  /\ ~value[e] /\ e \in AutoReset
  /\ \E woken \in Threads :
       /\ IsFirst(woken, waiters[e])
       /\ granted' = [granted EXCEPT ![e] = @ \cup {woken}]
       /\ Reschedule({woken}, Guest)
  /\ UNCHANGED <<value, waiters, arrived>>

(* The signaller gives up the slice behind the thread it woke. *)
ReleaseFirst(e) ==
  /\ InGuest
  /\ ~value[e] /\ e \in AutoReset
  /\ \E woken \in Threads :
       /\ IsFirst(woken, waiters[e])
       /\ waiters' = [waiters EXCEPT ![e] = @ \ {woken}]
       /\ granted' = [granted EXCEPT ![e] = @ \cup {woken}]
       /\ Depart({woken})
       /\ Reschedule({woken}, Guest)
  /\ UNCHANGED value

(* OSSignalEventAll, and OSSignalEvent of a manual-reset event. *)
ReleaseAll(e) ==
  /\ InGuest
  /\ ~value[e]
  /\ waiters[e] # {}
  /\ IF e \in AutoReset
     THEN granted' = [granted EXCEPT ![e] = @ \cup waiters[e]] /\ UNCHANGED value
     ELSE value' = [value EXCEPT ![e] = TRUE] /\ UNCHANGED granted
  /\ waiters' = [waiters EXCEPT ![e] = {}]
  /\ Depart(waiters[e])
  /\ Reschedule(waiters[e], Guest)

SignalEvent(e) ==
  \/ SignalNobody(e)
  \/ ReleaseFirst(e)
  \/ e \notin AutoReset /\ ReleaseAll(e)

SignalEventAll(e) == SignalNobody(e) \/ ReleaseAll(e)

ResetEvent(e) ==
  /\ InGuest
  /\ value[e]
  /\ value' = [value EXCEPT ![e] = FALSE]
  /\ Continue({}, Guest)
  /\ UNCHANGED <<waiters, granted, arrived>>

-----------------------------------------------------------------------------
Next ==
  \/ (BetweenSlices \/ OtherCalls) /\ UNCHANGED eventVars
  \/ \E e \in Events : \/ WaitEvent(e) \/ SignalEvent(e) \/ SignalEventAll(e)
                       \/ ResetEvent(e)

Spec == Init /\ [][Next]_vars

DispatchThread(t) ==
  \E W \in SUBSET Sleepers : (Dispatch(t, W) \/ BeginCallback(t, W)) /\ UNCHANGED eventVars

(* As in CafeMutex: slices end, every thread is dispatched again and again,  *)
(* a woken thread re-executes its wait.                                      *)
FairSpec ==
  /\ Spec
  /\ WF_vars(EndSlice /\ UNCHANGED eventVars)
  /\ \A t \in Threads : SF_vars(DispatchThread(t))
  /\ \A e \in Events : WF_vars(WaitEvent(e) /\ ~InGuest)

-----------------------------------------------------------------------------
(* A thread in an event's list is blocked on the event, and every thread     *)
(* blocked on it is in the list: wake_thread throws for any other.           *)
WaitersBlocked == \A e \in Events : waiters[e] = Blocked(e)

(* No thread is blocked on a signalled event: a wait that tests the value    *)
(* and a signal that tests the list never miss each other.                   *)
SignalledHasNoWaiters == \A e \in Events : value[e] => waiters[e] = {}

(* A grant belongs to a thread that was woken and has its OSWaitEvent call   *)
(* still to re-execute, in its own context or the one a callback set aside:  *)
(* no grant is left over to let a later wait through.                        *)
GrantIsAwaited ==
  \A e \in Events : \A t \in granted[e] :
    /\ e \in AutoReset
    /\ t \notin waiters[e]
    /\ Awaits(t, e)

(* Every wait and every grant of an event is accounted for.                  *)
WaitersAccounted == WaitersBlocked /\ SignalledHasNoWaiters /\ GrantIsAwaited

(* A wait of an auto-reset event that returns takes exactly one of the       *)
(* releases that signals have made, and only a signal makes them: they are   *)
(* the value and the grants. None is lost and none is used twice.            *)
Releases(e) == Cardinality(granted[e]) + (IF value[e] THEN 1 ELSE 0)
Returns(e) == current # NoThread /\ current' = current /\ pc[current] = e /\ pc'[current] = Guest
EachReleaseOnce ==
  [][\A e \in AutoReset :
       /\ Returns(e) => Releases(e)' = Releases(e) - 1
       /\ current' = NoThread => Releases(e)' >= Releases(e)]_vars

(* A thread that a signal released returns from its wait, if callbacks do    *)
(* not go on borrowing threads forever.                                      *)
ReleasedReturns ==
  <>[](callbackThread = NoThread) =>
    \A e \in Events, t \in Threads : (t \in granted[e]) ~> (t \notin granted[e])

(* "AX callback runs asynchronously and restores its borrowed thread"        *)
(* (machine_test.cpp:571): a thread whose wait a signal has completed still  *)
(* has its grant when a callback gives it back.                              *)
BorrowedWaitRestored ==
  [][\A t \in Threads :
       (callbackThread = t /\ callbackThread' = NoThread /\ savedPc \in AutoReset)
       => t \in granted[savedPc]]_vars
=============================================================================
