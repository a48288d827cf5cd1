-------------------------- MODULE CafeSchedulerProofs --------------------------
(***************************************************************************)
(* The scheduler's properties for every set of threads, every affinity,    *)
(* priority and length of slice, and every choice of calls the guest may   *)
(* make.                                                                   *)
(***************************************************************************)
EXTENDS CafeScheduler, FiniteSetTheorems, WellFoundedInduction, TLAPS

-----------------------------------------------------------------------------
(* The inductive invariant. *)

Pickers == [slot : Slots, scheduled : [Slots -> AnyThread], core : Cores, wake : AnyThread]

(* What the thread machine keeps: one thread runs, only a waiting thread has *)
(* a wait object, and a thread that waits without one is asleep.             *)
ThreadsFit ==
  /\ \A t \in Threads : state[t] = "running" <=> t = current
  /\ \A t \in Threads : waitObject[t] # NoObject => state[t] = "waiting"
  /\ \A t \in Threads : sleeping[t] <=> state[t] = "waiting" /\ waitObject[t] = NoObject

(* The threads stand in one queue. *)
Queue(order) ==
  /\ order \subseteq Threads \X Threads
  /\ \A t \in Threads : <<t, t>> \notin order
  /\ \A t, u \in Threads : t = u \/ <<t, u>> \in order \/ <<u, t>> \in order
  /\ \A t, u, v \in Threads : <<t, u>> \in order /\ <<u, v>> \in order => <<t, v>> \in order

SchedulerInv ==
  /\ TypeOK
  /\ ThreadsFit
  /\ Queue(older)
  /\ PinsConsistent
  /\ NeverThrows
  /\ SleepersOnTime
  /\ NoFalseDeadlock

-----------------------------------------------------------------------------
(* Least elements. *)

(* A set of naturals that is not empty has a least element. *)
LEMMA LeastElement ==
  ASSUME NEW S \in SUBSET Nat, S # {}
  PROVE  \E m \in S : \A n \in S : m <= n
<1> DEFINE Less == {p \in Nat \X Nat : p[1] < p[2]}
<1>1. IsWellFoundedOn(Less, Nat)
  <2>1. OpToRel(<, Nat) = Less
    BY DEF OpToRel
  <2> QED BY <2>1, NatLessThanWellFounded
<1>2. \A n, m \in Nat : n < m => <<n, m>> \in Less
  OBVIOUS
<1> HIDE DEF Less
<1>3. PICK m \in S : \A n \in S : <<n, m>> \notin Less
  BY <1>1, WFMin
<1>4. ASSUME NEW n \in S PROVE m <= n
  <2>1. ~(n < m)
    BY <1>2, <1>3
  <2>2. QED
    BY <2>1
<1>5. QED
  BY <1>4

(* enqueue leaves one queue. *)
LEMMA QueueKept ==
  ASSUME NEW order, Queue(order), NEW W \in SUBSET Threads
  PROVE  Queue(EnqueuedAfter(order, W))
<1> DEFINE new == EnqueuedAfter(order, W)
<1>a. /\ \A t \in Threads : ~(t < t)
      /\ \A t, u \in Threads : t = u \/ t < u \/ u < t
      /\ \A t, u, v \in Threads : t < u /\ u < v => t < v
  <2>1. Threads \subseteq Nat
    BY SchedulerConstants
  <2>2. QED
    BY <2>1
<1>1. \A t, u \in Threads :
        <<t, u>> \in new <=> \/ t \notin W /\ u \notin W /\ <<t, u>> \in order
                             \/ t \notin W /\ u \in W
                             \/ t \in W /\ u \in W /\ t < u
  BY DEF EnqueuedAfter, Queue
<1>2. new \subseteq Threads \X Threads
  BY DEF EnqueuedAfter, Queue
<1> HIDE DEF new
<1>3. \A t \in Threads : <<t, t>> \notin new
  BY <1>a, <1>1, Zenon DEF Queue
<1>4. \A t, u \in Threads : t = u \/ <<t, u>> \in new \/ <<u, t>> \in new
  BY <1>a, <1>1, Zenon DEF Queue
<1>5. \A t, u, v \in Threads : <<t, u>> \in new /\ <<u, v>> \in new => <<t, v>> \in new
  <2> TAKE t, u, v \in Threads
  <2>1. CASE t \in W
    BY <1>a, <1>1, <2>1, Zenon DEF Queue
  <2>2. CASE t \notin W
    BY <1>a, <1>1, <2>2, Zenon DEF Queue
  <2>3. QED
    BY <2>1, <2>2
<1>6. QED
  BY <1>2, <1>3, <1>4, <1>5 DEF Queue, new

(* Among threads that are in one queue one precedes all others. *)
LEMMA SomeonePrecedes ==
  ASSUME NEW order, Queue(order), NEW S \in SUBSET Threads, S # {}
  PROVE  \E t \in S : \A u \in S \ {t} : Precedes(order, t, u)
<1> DEFINE Before(t) == {u \in S : Precedes(order, u, t)}
<1>1. IsFiniteSet(S) /\ \A t \in S : IsFiniteSet(Before(t))
  <2>1. IsFiniteSet(S)
    BY FS_Subset, SchedulerConstants
  <2>2. \A t \in S : Before(t) \subseteq S
    OBVIOUS
  <2>3. QED
    BY <2>1, <2>2, FS_Subset
<1>a. /\ \A t \in S : Priority[t] \in Nat
      /\ \A t \in S : <<t, t>> \notin order
      /\ \A t, u \in S : t = u \/ <<t, u>> \in order \/ <<u, t>> \in order
      /\ \A t, u, v \in S : <<t, u>> \in order /\ <<u, v>> \in order => <<t, v>> \in order
  <2>1. \A t \in S : t \in Threads /\ Priority[t] \in Nat
    BY SchedulerConstants
  <2>2. \A t \in S : <<t, t>> \notin order
    BY <2>1, Zenon DEF Queue
  <2>3. \A t, u \in S : t = u \/ <<t, u>> \in order \/ <<u, t>> \in order
    BY <2>1, Zenon DEF Queue
  <2>4. \A t, u, v \in S : <<t, u>> \in order /\ <<u, v>> \in order => <<t, v>> \in order
    BY <2>1, Zenon DEF Queue
  <2>5. QED
    BY <2>1, <2>2, <2>3, <2>4, Zenon
<1>6. ASSUME NEW u \in S PROVE ~Precedes(order, u, u)
  <2>1. Priority[u] \in Nat /\ <<u, u>> \notin order
    BY <1>a
  <2>2. ~(Priority[u] < Priority[u])
    BY <2>1
  <2>3. QED
    BY <2>1, <2>2 DEF Precedes
<1>7. ASSUME NEW u \in S, NEW v \in S, NEW w \in S, Precedes(order, u, v), Precedes(order, v, w)
      PROVE  Precedes(order, u, w)
  <2>1. Priority[u] \in Nat /\ Priority[v] \in Nat /\ Priority[w] \in Nat
    BY <1>a
  <2>2. CASE Priority[u] = Priority[v] /\ Priority[v] = Priority[w]
    BY <1>7, <1>a, <2>1, <2>2 DEF Precedes
  <2>3. CASE Priority[u] < Priority[v] \/ Priority[v] < Priority[w]
    BY <1>7, <2>1, <2>3 DEF Precedes
  <2>4. QED
    BY <1>7, <2>1, <2>2, <2>3 DEF Precedes
<1>8. ASSUME NEW u \in S, NEW v \in S
      PROVE  u = v \/ Precedes(order, u, v) \/ Precedes(order, v, u)
  <2>1. Priority[u] \in Nat /\ Priority[v] \in Nat
    BY <1>a
  <2>2. CASE Priority[u] = Priority[v]
    BY <1>a, <2>1, <2>2 DEF Precedes
  <2>3. CASE Priority[u] # Priority[v]
    BY <2>1, <2>3 DEF Precedes
  <2>4. QED
    BY <2>2, <2>3
<1> DEFINE size == [t \in S |-> Cardinality(Before(t))]
           counts == {size[t] : t \in S}
<1>2. size \in [S -> Nat]
  BY <1>1, FS_CardinalityType
<1> HIDE DEF size
<1>3. counts \in SUBSET Nat /\ counts # {}
  BY <1>2
<1>4. PICK m \in counts : \A n \in counts : m <= n
  BY <1>3, LeastElement
<1>5. PICK t \in S : \A u \in S : size[t] <= size[u]
  BY <1>4
<1>9. ASSUME NEW u \in S, Precedes(order, u, t) PROVE FALSE
  <2>1. Before(u) \subseteq Before(t)
    BY <1>7, <1>9
  <2>2. u \in Before(t) /\ u \notin Before(u)
    BY <1>6, <1>9
  <2>3. Before(u) # Before(t)
    BY <2>2
  <2> HIDE DEF Before
  <2>4. Cardinality(Before(u)) < Cardinality(Before(t))
    <3>1. IsFiniteSet(Before(t)) /\ IsFiniteSet(Before(u))
      BY <1>1
    <3>2. /\ Cardinality(Before(u)) <= Cardinality(Before(t))
          /\ Cardinality(Before(u)) = Cardinality(Before(t)) => Before(u) = Before(t)
      BY <2>1, <3>1, FS_Subset
    <3>3. Cardinality(Before(u)) \in Nat /\ Cardinality(Before(t)) \in Nat
      BY <3>1, FS_CardinalityType
    <3>4. QED
      BY <2>3, <3>2, <3>3
  <2>5. size[u] < size[t] /\ size[t] <= size[u] /\ size[t] \in Nat /\ size[u] \in Nat
    BY <1>2, <1>5, <2>4 DEF size
  <2>6. QED
    BY <2>5
<1>10. QED
  BY <1>8, <1>9


-----------------------------------------------------------------------------
(* Selection. *)

(* Slots that found nobody: the core and the hint stay, and the round only   *)
(* forgets threads.                                                          *)
LEMMA SkipFits ==
  ASSUME NEW p \in Pickers, NEW k \in 0 .. 6
  PROVE  /\ Skip(p, k) \in Pickers
         /\ Skip(p, k).core = p.core /\ Skip(p, k).wake = p.wake
         /\ Skip(p, k).slot = (p.slot + k) % 3
         /\ \A s \in Slots : Skip(p, k).scheduled[s] \in {NoThread, p.scheduled[s]}
         /\ p.slot + k >= 3 => \A s \in Slots : Skip(p, k).scheduled[s] = NoThread
<1>1. /\ p.slot \in 0 .. 2 /\ p.core \in Cores /\ p.wake \in AnyThread
      /\ p.scheduled \in [Slots -> AnyThread]
  BY DEF Pickers, Slots
<1>2. (p.slot + k) % 3 \in Slots
  BY <1>1 DEF Slots
<1>3. NoThread \in AnyThread
  BY DEF AnyThread
<1> DEFINE next == (p.slot + k) % 3
           rest == IF p.slot + k >= 3 THEN NoneScheduled
                   ELSE [s \in Slots |-> IF s \in p.slot .. (p.slot + k - 1)
                                         THEN NoThread ELSE p.scheduled[s]]
<1>4. rest \in [Slots -> AnyThread]
  BY <1>1, <1>3 DEF NoneScheduled
<1>5. /\ \A s \in Slots : rest[s] \in {NoThread, p.scheduled[s]}
      /\ p.slot + k >= 3 => \A s \in Slots : rest[s] = NoThread
  BY <1>1 DEF NoneScheduled
<1>6. Skip(p, k) = [p EXCEPT !.slot = next, !.scheduled = rest]
  BY DEF Skip
<1> HIDE DEF next, rest
<1>7. /\ Skip(p, k) \in Pickers
      /\ Skip(p, k).core = p.core /\ Skip(p, k).wake = p.wake
      /\ Skip(p, k).slot = next /\ Skip(p, k).scheduled = rest
  BY <1>2, <1>4, <1>6 DEF Pickers, next
<1>8. QED
  BY <1>5, <1>7 DEF next

(* A thread takes a slot. *)
LEMMA ScheduleFits ==
  ASSUME NEW p \in Pickers, NEW t \in Threads, NEW c \in Cores
  PROVE  /\ Schedule(p, t, c) \in Pickers
         /\ Schedule(p, t, c).core = c /\ Schedule(p, t, c).wake = p.wake
<1>1. /\ p.slot \in 0 .. 2 /\ p.core \in Cores /\ p.wake \in AnyThread
      /\ p.scheduled \in [Slots -> AnyThread]
  BY DEF Pickers, Slots
<1> DEFINE next == (p.slot + 1) % 3
           round == IF next = 0 THEN NoneScheduled ELSE [p.scheduled EXCEPT ![p.slot] = t]
<1>2. next \in Slots
  BY <1>1 DEF Slots
<1>3. round \in [Slots -> AnyThread]
  BY <1>1 DEF NoneScheduled, AnyThread
<1>4. Schedule(p, t, c) = [p EXCEPT !.slot = next, !.core = c, !.scheduled = round]
  BY DEF Schedule
<1> HIDE DEF next, round
<1>5. QED
  BY <1>2, <1>3, <1>4 DEF Pickers

(* The least of a set of cores is in it. *)
LEMMA LeastCore ==
  ASSUME NEW S \in SUBSET Cores, S # {}
  PROVE  (CHOOSE c \in S : \A d \in S : c <= d) \in S
<1>1. \E c \in S : \A d \in S : c <= d
  <2>1. S \in SUBSET Nat
    BY DEF Cores
  <2>2. QED
    BY <2>1, LeastElement
<1>2. QED
  BY <1>1

(* What a pick must be for its core. *)
MayRun(t, c) ==
  /\ c \in Cores
  /\ CoreAvailable(t, c)
  /\ pinnedCore[t] \in {NoCore, c}
  /\ c \in affinity[t] \cup {pinnedCore[t]} \/ \A d \in affinity[t] : ~CoreAvailable(t, d)

(* A cross-core wake runs a pinned thread on its core, and finds a core of   *)
(* the thread's affinity if any is free.                                     *)
LEMMA WakeCoreFits ==
  ASSUME TypeOK, PinsAgree, NEW p \in Pickers, NEW w \in Threads, WakeCore(p, w) # NoCore
  PROVE  MayRun(w, WakeCore(p, w))
<1>1. /\ p.core \in Cores /\ affinity[w] \subseteq Cores /\ pinnedCore[w] \in Cores \cup {NoCore}
      /\ NoCore \notin Cores
  BY DEF Pickers, TypeOK, NoCore, Cores
<1> DEFINE others == {c \in affinity[w] \ {p.core} : CoreAvailable(w, c)}
<1>2. others \in SUBSET Cores
  BY <1>1
<1>3. CASE pinnedCore[w] # NoCore
  <2>1. pinnedThreads[pinnedCore[w]] = w
    BY <1>1, <1>3 DEF PinsAgree
  <2>2. WakeCore(p, w) = pinnedCore[w]
    BY <1>3, <2>1 DEF WakeCore, CoreAvailable
  <2>3. QED
    BY <1>1, <1>3, <2>1, <2>2 DEF MayRun, CoreAvailable
<1>4. CASE pinnedCore[w] = NoCore /\ others # {}
  <2>1. WakeCore(p, w) = CHOOSE c \in others : \A d \in others : c <= d
    BY <1>4 DEF WakeCore
  <2>2. WakeCore(p, w) \in others
    BY <1>2, <1>4, <2>1, LeastCore
  <2>3. QED
    BY <1>1, <1>4, <2>2 DEF MayRun
<1>5. CASE pinnedCore[w] = NoCore /\ others = {}
  <2>1. WakeCore(p, w) = IF CoreAvailable(w, p.core) THEN p.core ELSE NoCore
    BY <1>5 DEF WakeCore
  <2>2. QED
    BY <1>1, <1>5, <2>1 DEF MayRun
<1>6. QED
  BY <1>3, <1>4, <1>5


(* A slot that looks for a core finds only threads that may run there.       *)
LEMMA EligibleMayRun ==
  ASSUME TypeOK, NEW p \in Pickers, NEW ready \in SUBSET Threads, NEW excluded,
         NEW t \in Eligible(p, ready, excluded)
  PROVE  t \in ready /\ t # excluded /\ MayRun(t, CoreOrder[p.slot])
<1>1. CoreOrder[p.slot] \in Cores
  BY DEF CoreOrder, Pickers, Slots, Cores
<1> DEFINE c == CoreOrder[p.slot]
<1>2. /\ t \in ready /\ t # excluded /\ c \in affinity[t] /\ pinnedCore[t] \in {NoCore, c}
      /\ CoreAvailable(t, c)
  BY DEF Eligible
<1> HIDE DEF c
<1>3. QED
  BY <1>1, <1>2 DEF MayRun, c

(* What a round of tries returns: nobody, when no try had a winner, or the   *)
(* winner of one try on the core of that try.                                *)
RoundReturns(p, ready, order, excluded, r) ==
  /\ r.picker \in Pickers /\ r.picker.wake = p.wake
  /\ \/ /\ r.thread = NoThread /\ r.picker.core = p.core
        /\ Winners(p, ready, order, excluded) = {}
     \/ /\ r.thread \in ready /\ r.thread # excluded /\ MayRun(r.thread, r.picker.core)
        /\ \E k \in Tries : /\ <<k, r.thread>> \in Winners(p, ready, order, excluded)
                            /\ r.picker.core = CoreOrder[Skip(p, k).slot]

(* A round of tries returns that. *)
LEMMA RoundFits ==
  ASSUME TypeOK, NEW p \in Pickers, NEW ready \in SUBSET Threads, NEW order, NEW excluded,
         NEW r \in SelectInRound(p, ready, order, excluded)
  PROVE  RoundReturns(p, ready, order, excluded, r)
<1> DEFINE winners == Winners(p, ready, order, excluded)
<1>1. CASE winners = {}
  <2>1. r = [thread |-> NoThread, picker |-> Skip(p, 6)]
    BY <1>1 DEF SelectInRound
  <2>2. 6 \in 0 .. 6
    OBVIOUS
  <2>3. QED
    BY <1>1, <2>1, <2>2, SkipFits DEF RoundReturns
<1>2. CASE winners # {}
  <2>1. PICK w \in winners :
          r = [thread |-> w[2],
               picker |-> Schedule(Skip(p, w[1]), w[2], CoreOrder[(p.slot + w[1]) % 3])]
    BY <1>2 DEF SelectInRound
  <2> DEFINE k == w[1]
             t == w[2]
             skipped == Skip(p, w[1])
  <2>2. /\ k \in 0 .. 6 /\ k \in Tries /\ w = <<k, t>>
        /\ t \in Eligible(skipped, ready, excluded)
    BY DEF Winners, Tries
  <2>3. skipped \in Pickers /\ skipped.slot = (p.slot + k) % 3 /\ skipped.wake = p.wake
    BY <2>2, SkipFits
  <2>4. t \in ready /\ t # excluded /\ MayRun(t, CoreOrder[skipped.slot])
    BY <2>2, <2>3, EligibleMayRun
  <2>5. r.thread = t /\ r.picker = Schedule(skipped, t, CoreOrder[skipped.slot])
    BY <2>1, <2>3
  <2> HIDE DEF skipped, winners
  <2>6. t \in Threads /\ CoreOrder[skipped.slot] \in Cores
    BY <2>4 DEF MayRun
  <2>7. r.picker \in Pickers /\ r.picker.wake = p.wake /\ r.picker.core = CoreOrder[skipped.slot]
    BY <2>3, <2>5, <2>6, ScheduleFits
  <2>8. <<k, t>> \in winners
    BY <2>2
  <2>9. QED
    BY <2>2, <2>4, <2>5, <2>7, <2>8 DEF skipped, winners, RoundReturns
<1>3. QED
  BY <1>1, <1>2

(* A round without a winner found nobody at any of its tries: somebody       *)
(* eligible at the first try that has anybody would have won.                *)
LEMMA NobodyEligible ==
  ASSUME NEW p \in Pickers, NEW ready \in SUBSET Threads, NEW order, Queue(order), NEW excluded,
         Winners(p, ready, order, excluded) = {}
  PROVE  \A k \in Tries : Eligible(Skip(p, k), ready, excluded) = {}
<1> DEFINE found(k) == Eligible(Skip(p, k), ready, excluded)
           tried == {k \in Tries : found(k) # {}}
<1>1. SUFFICES ASSUME tried # {} PROVE FALSE
  OBVIOUS
<1>2. tried \in SUBSET Nat
  BY DEF Tries
<1>3. PICK k \in tried : \A j \in tried : k <= j
  BY <1>1, <1>2, LeastElement
<1>4. k \in Tries /\ found(k) # {}
  BY <1>3
<1>5. ASSUME NEW j \in 0 .. (k - 1) PROVE found(j) = {}
  <2>1. j \in Tries /\ ~(k <= j)
    BY <1>4 DEF Tries
  <2>2. QED
    BY <1>3, <2>1
<1>6. found(k) \in SUBSET Threads
  BY DEF Eligible
<1> HIDE DEF found
<1>7. PICK t \in found(k) : \A u \in found(k) \ {t} : Precedes(order, t, u)
  BY <1>4, <1>6, SomeonePrecedes
<1>8. t \in Threads /\ t \in ready
  BY <1>6, <1>7 DEF found, Eligible
<1> DEFINE w == <<k, t>>
<1>9. w \in Tries \X ready /\ w[1] = k /\ w[2] = t
  BY <1>4, <1>8
<1> HIDE DEF w
<1>10. w \in Winners(p, ready, order, excluded)
  BY <1>5, <1>7, <1>9 DEF found, Winners
<1>11. QED
  BY <1>10

(* What select_ready returns. *)
LEMMA SelectionFits ==
  ASSUME TypeOK, PinsAgree, NEW p \in Pickers, NEW ready \in SUBSET Threads, NEW order,
         NEW excluded, NEW r \in SelectReady(p, ready, order, excluded)
  PROVE  /\ r.picker \in Pickers
         /\ \/ /\ r.thread = NoThread /\ r.picker.core = p.core
               /\ \E q \in Pickers : Winners(q, ready, order, excluded) = {}
            \/ r.thread \in ready /\ r.thread # excluded /\ MayRun(r.thread, r.picker.core)
<1> DEFINE w == p.wake
           wakes == w # NoThread /\ w # excluded
           q == IF wakes THEN [p EXCEPT !.wake = NoThread] ELSE p
           c == IF wakes /\ w \in ready /\ affinity[w] # {} THEN WakeCore(p, w) ELSE NoCore
<1>1. q \in Pickers /\ q.core = p.core
  BY DEF Pickers, AnyThread
<1>2. SelectReady(p, ready, order, excluded)
        = IF c # NoCore THEN {[thread |-> w, picker |-> Schedule(q, w, c)]}
          ELSE SelectInRound(q, ready, order, excluded)
  BY DEF SelectReady
<1>3. CASE c # NoCore
  <2>1. wakes /\ w \in ready /\ c = WakeCore(p, w)
    BY <1>3
  <2> HIDE DEF q
  <2>2. MayRun(w, c)
    BY <1>3, <2>1, WakeCoreFits
  <2>3. w \in Threads /\ c \in Cores
    BY <2>1, <2>2 DEF MayRun
  <2>4. r.thread = w /\ r.picker = Schedule(q, w, c)
    BY <1>2, <1>3
  <2> HIDE DEF c
  <2>5. r.picker \in Pickers /\ r.picker.core = c
    BY <1>1, <2>3, <2>4, ScheduleFits
  <2>6. QED
    BY <2>1, <2>2, <2>4, <2>5
<1>4. CASE c = NoCore
  <2> HIDE DEF q, c
  <2>1. r \in SelectInRound(q, ready, order, excluded)
    BY <1>2, <1>4
  <2>2. RoundReturns(q, ready, order, excluded, r)
    BY <1>1, <2>1, RoundFits
  <2>3. QED
    BY <1>1, <2>2 DEF RoundReturns
<1>5. QED
  BY <1>3, <1>4


-----------------------------------------------------------------------------
(* Between slices. *)

(* A pick of select_ready is a ready or due thread its core may run, or there is a try that
   found none. *)
LEMMA PicksFit ==
  ASSUME SchedulerInv, NEW p \in Pickers, NEW excluded, NEW r \in Select(p, excluded)
  PROVE  /\ r.picker \in Pickers
         /\ \/ /\ r.thread = NoThread /\ r.picker.core = p.core
               /\ \E q \in Pickers :
                    Winners(q, ReadyNow, EnqueuedAfter(older, Due), excluded) = {}
            \/ r.thread \in ReadyNow /\ r.thread # excluded /\ MayRun(r.thread, r.picker.core)
<1>1. ReadyNow \in SUBSET Threads
  BY DEF ReadyNow, Due, Sleepers
<1>2. TypeOK /\ PinsAgree
  BY DEF SchedulerInv, PinsConsistent
<1> DEFINE order == EnqueuedAfter(older, Due)
           ready == ReadyNow
<1>3. r \in SelectReady(p, ready, order, excluded)
  BY DEF Select
<1> HIDE DEF order
<1>4. /\ r.picker \in Pickers
      /\ \/ /\ r.thread = NoThread /\ r.picker.core = p.core
            /\ \E q \in Pickers : Winners(q, ready, order, excluded) = {}
         \/ r.thread \in ready /\ r.thread # excluded /\ MayRun(r.thread, r.picker.core)
  <2> HIDE DEF ready
  <2>1. ready \in SUBSET Threads
    BY <1>1 DEF ready
  <2>2. QED
    BY <1>2, <1>3, <2>1, SelectionFits
<1>5. QED
  BY <1>4 DEF order

(* The threads that are woken on time leave one queue behind. *)
LEMMA DueFits ==
  ASSUME SchedulerInv
  PROVE  /\ Due \subseteq Sleepers /\ Sleepers \subseteq Threads /\ Due \in SUBSET Threads
         /\ \A t \in Due : state[t] = "waiting" /\ waitObject[t] = NoObject
         /\ Queue(EnqueuedAfter(older, Due))
<1>1. /\ Due \subseteq Sleepers /\ Sleepers \subseteq Threads /\ Due \in SUBSET Threads
      /\ \A t \in Due : state[t] = "waiting" /\ waitObject[t] = NoObject
  BY DEF Due, Sleepers, SchedulerInv, ThreadsFit
<1>2. QED
  BY <1>1, QueueKept DEF SchedulerInv

(* A thread that may run on the picked core starts a slice there. *)
LEMMA SliceStarts ==
  ASSUME SchedulerInv, current = NoThread, stopped = "no",
         NEW t \in ReadyNow, NEW next \in Pickers, MayRun(t, next.core),
         RunSlice(t), picker' = next,
         UNCHANGED <<remaining, affinity, pinnedCore, pinnedThreads, listDepth, stopped>>,
         pc' \in [Threads -> Sites], callbackThread' \in AnyThread, savedPc' \in Sites,
         pending' \in Seq(AnyThread)
  PROVE  SchedulerInv'
<1>1. /\ current' = t /\ state' = [Readied(Due) EXCEPT ![t] = "running"]
      /\ waitObject' = [u \in Threads |-> IF u \in Due THEN NoObject ELSE waitObject[u]]
      /\ sleeping' = [u \in Threads |-> u \notin Due /\ sleeping[u]]
      /\ older' = EnqueuedAfter(older, Due)
  BY DEF RunSlice, EnqueueAll
<1>2. t \in Threads /\ t # NoThread /\ (state[t] = "ready" \/ t \in Due)
  BY SchedulerConstants DEF ReadyNow, Due, Sleepers
<1>3. TypeOK /\ ThreadsFit
  BY DEF SchedulerInv
<1>4. \A u \in Threads : state'[u] = IF u = t THEN "running"
                                     ELSE IF u \in Due THEN "ready" ELSE state[u]
  BY <1>1, <1>2 DEF Readied
<1>5. Queue(older)'
  BY <1>1, DueFits DEF Queue
<1>6. TypeOK'
  <2>1. state' \in [Threads -> ThreadStates]
    BY <1>1, <1>3, <1>4 DEF Readied, TypeOK, ThreadStates
  <2>2. waitObject' \in [Threads -> Objects \cup {NoObject}] /\ sleeping' \in [Threads -> BOOLEAN]
    BY <1>1, <1>3 DEF TypeOK
  <2>3. current' \in AnyThread /\ older' \subseteq Threads \X Threads
    BY <1>1, <1>2, <1>5 DEF AnyThread, Queue
  <2>4. QED
    BY <1>3, <2>1, <2>2, <2>3 DEF TypeOK, Pickers
<1>7. ThreadsFit'
  <2>1. \A u \in Threads : state[u] # "running"
    BY <1>3, SchedulerConstants DEF ThreadsFit
  <2>2. \A u \in Threads : (state[u] = "running")' <=> u = t
    BY <1>4, <2>1
  <2>3. \A u \in Threads : waitObject'[u] # NoObject => state'[u] = "waiting"
    BY <1>1, <1>2, <1>3, <1>4 DEF ThreadsFit
  <2>4. ASSUME NEW u \in Threads
        PROVE  sleeping'[u] <=> state'[u] = "waiting" /\ waitObject'[u] = NoObject
    <3>1. sleeping[u] <=> state[u] = "waiting" /\ waitObject[u] = NoObject
      BY <1>3 DEF ThreadsFit
    <3>2. /\ sleeping'[u] = (u \notin Due /\ sleeping[u])
          /\ waitObject'[u] = IF u \in Due THEN NoObject ELSE waitObject[u]
      BY <1>1
    <3>3. CASE u \in Due \/ u = t
      <4>1. ~sleeping'[u]
        BY <1>2, <3>1, <3>2, <3>3
      <4>2. state'[u] # "waiting"
        BY <1>4, <3>3
      <4>3. QED
        BY <4>1, <4>2
    <3>4. CASE u \notin Due /\ u # t
      BY <1>4, <3>1, <3>2, <3>4
    <3>5. QED
      BY <3>3, <3>4
  <2>5. QED
    BY <1>1, <2>2, <2>3, <2>4 DEF ThreadsFit
<1>8. PinsConsistent'
  <2>1. PinExclusive'
    BY <1>1 DEF PinExclusive, MayRun, CoreAvailable
  <2>2. PinsAgree' /\ ListsPinned'
    BY DEF SchedulerInv, PinsConsistent, PinsAgree, ListsPinned
  <2>3. QED
    BY <2>1, <2>2 DEF PinsConsistent
<1>9. SleepersOnTime'
  <2>1. ASSUME NEW u \in Sleepers' PROVE u \in Sleepers /\ u \notin Due
    <3>1. u \in Threads /\ state'[u] = "waiting" /\ sleeping'[u]
      BY DEF Sleepers
    <3>2. state[u] = "waiting" /\ u \notin Due
      BY <1>4, <3>1
    <3>3. sleeping[u]
      BY <1>1, <3>1
    <3>4. QED
      BY <3>1, <3>2, <3>3 DEF Sleepers
  <2>2. \A u \in Sleepers \ Due : remaining[u] > 0
    BY <1>3 DEF Due, Sleepers, TypeOK
  <2>3. QED
    BY <2>1, <2>2 DEF SleepersOnTime
<1>10. NeverThrows' /\ NoFalseDeadlock'
  BY DEF NeverThrows, NoFalseDeadlock
<1>11. QED
  BY <1>5, <1>6, <1>7, <1>8, <1>9, <1>10 DEF SchedulerInv

(* A slice that begins keeps the invariant. *)
LEMMA DispatchKeeps ==
  ASSUME SchedulerInv, Dispatch
  PROVE  SchedulerInv'
<1>1. picker \in Pickers /\ TypeOK
  BY DEF SchedulerInv, TypeOK, Pickers
<1>2. PICK first \in FirstPicks :
        /\ first.thread # NoThread
        /\ RunSlice(first.thread)
        /\ IF CallbackMayStart
           THEN \E second \in CallbackPicks(first) :
                  second.thread = NoThread /\ picker' = second.picker
           ELSE picker' = first.picker
  BY DEF Dispatch
<1>3. /\ first.picker \in Pickers /\ first.thread \in ReadyNow
      /\ MayRun(first.thread, first.picker.core)
  BY <1>1, <1>2, PicksFit DEF FirstPicks
<1>4. picker' \in Pickers /\ picker'.core = first.picker.core
  <2>1. CASE CallbackMayStart
    <3>1. PICK second \in CallbackPicks(first) :
            second.thread = NoThread /\ picker' = second.picker
      BY <1>2, <2>1
    <3>2. second \in Select(first.picker, Head(pending))
      BY DEF CallbackPicks
    <3>3. NoThread \notin ReadyNow
      BY SchedulerConstants DEF ReadyNow, Due, Sleepers
    <3>4. QED
      BY <1>3, <3>1, <3>2, <3>3, PicksFit
  <2>2. CASE ~CallbackMayStart
    BY <1>2, <1>3, <2>2
  <2>3. QED
    BY <2>1, <2>2
<1>5. /\ current = NoThread /\ stopped = "no"
      /\ UNCHANGED <<pc, callbackThread, savedPc, remaining, affinity, pinnedCore,
                     pinnedThreads, pending, listDepth, stopped>>
  BY DEF Dispatch
<1>6. /\ pc' \in [Threads -> Sites] /\ callbackThread' \in AnyThread /\ savedPc' \in Sites
      /\ pending' \in Seq(AnyThread)
  BY <1>1, <1>5 DEF TypeOK
<1>7. QED
  BY <1>2, <1>3, <1>4, <1>5, <1>6, SliceStarts

(* So does a callback that borrows the thread picked second. *)
LEMMA BeginCallbackKeeps ==
  ASSUME SchedulerInv, BeginCallback
  PROVE  SchedulerInv'
<1>1. picker \in Pickers /\ TypeOK
  BY DEF SchedulerInv, TypeOK, Pickers
<1>a. PICK first \in FirstPicks : \E second \in CallbackPicks(first) :
        /\ second.thread # NoThread
        /\ RunSlice(second.thread)
        /\ picker' = second.picker
        /\ callbackThread' = second.thread
        /\ savedPc' = pc[second.thread]
        /\ pc' = [pc EXCEPT ![second.thread] = "guest"]
  BY DEF BeginCallback
<1>2. PICK second \in CallbackPicks(first) :
        /\ second.thread # NoThread
        /\ RunSlice(second.thread)
        /\ picker' = second.picker
        /\ callbackThread' = second.thread
        /\ savedPc' = pc[second.thread]
        /\ pc' = [pc EXCEPT ![second.thread] = "guest"]
  BY <1>a
<1>3. first.picker \in Pickers
  BY <1>1, PicksFit DEF FirstPicks
<1>4. /\ second.picker \in Pickers /\ second.thread \in ReadyNow
      /\ MayRun(second.thread, second.picker.core)
  BY <1>2, <1>3, PicksFit DEF CallbackPicks
<1>5. /\ current = NoThread /\ stopped = "no" /\ pending # <<>> /\ pending' = Tail(pending)
      /\ UNCHANGED <<remaining, affinity, pinnedCore, pinnedThreads, listDepth, stopped>>
  BY DEF BeginCallback, CallbackMayStart
<1>6. second.thread \in Threads
  BY <1>4 DEF ReadyNow, Due, Sleepers
<1>7. /\ pc' \in [Threads -> Sites] /\ callbackThread' \in AnyThread /\ savedPc' \in Sites
  BY <1>1, <1>2, <1>6 DEF TypeOK, AnyThread, Sites
<1>8. pending' \in Seq(AnyThread)
  BY <1>1, <1>5 DEF TypeOK
<1>9. QED
  BY <1>2, <1>4, <1>5, <1>7, <1>8, SliceStarts


(* The sleeper that wakes first is one of them. *)
LEMMA EarliestFits ==
  ASSUME remaining \in [Threads -> Nat], NEW S \in SUBSET Threads, S # {}
  PROVE  Earliest(S) \in S /\ \A u \in S : remaining[Earliest(S)] <= remaining[u]
<1>0. Threads \in SUBSET Nat
  BY SchedulerConstants
<1> DEFINE times == {remaining[u] : u \in S}
<1>1. times \in SUBSET Nat /\ times # {}
  OBVIOUS
<1>2. PICK m \in times : \A n \in times : m <= n
  BY <1>1, LeastElement
<1> DEFINE first == {u \in S : remaining[u] = m}
<1>3. first \in SUBSET Nat /\ first # {}
  BY <1>0, <1>2
<1>4. PICK t \in first : \A u \in first : t <= u
  BY <1>3, LeastElement
<1>5. /\ m \in Nat /\ t \in S /\ remaining[t] = m
      /\ \A u \in S : m <= remaining[u] /\ remaining[u] \in Nat
  BY <1>1, <1>2, <1>4
<1> DEFINE Wins(x) == \A u \in S : \/ remaining[x] < remaining[u]
                                   \/ remaining[x] = remaining[u] /\ x <= u
<1>6. Wins(t)
  BY <1>4, <1>5
<1>7. Earliest(S) = CHOOSE x \in S : Wins(x)
  BY DEF Earliest
<1>8. Earliest(S) \in S /\ Wins(Earliest(S))
  <2> HIDE DEF Wins
  <2>1. t \in S
    BY <1>5
  <2>2. QED
    BY <1>6, <1>7, <2>1
<1>9. QED
  BY <1>5, <1>8

(* Nobody running, no pin can be broken and no sleeper be late. *)
LEMMA IdleFits ==
  ASSUME SchedulerInv, current' = NoThread, stopped' # "threw",
         UNCHANGED <<affinity, pinnedCore, pinnedThreads, listDepth>>
  PROVE  PinsConsistent' /\ NeverThrows' /\ SleepersOnTime'
BY DEF SchedulerInv, PinsConsistent, PinsAgree, PinExclusive, ListsPinned, NeverThrows,
       SleepersOnTime

(* A search that finds nobody. *)
LEMMA NobodyFits ==
  ASSUME SchedulerInv, NobodyToRun
  PROVE  /\ picker' \in Pickers
         /\ \E q \in Pickers : Winners(q, ReadyNow, EnqueuedAfter(older, Due), NoThread) = {}
<1>1. picker \in Pickers
  BY DEF SchedulerInv, TypeOK, Pickers
<1>2. PICK none \in FirstPicks : none.thread = NoThread /\ picker' = none.picker
  BY DEF NobodyToRun
<1>3. NoThread \notin ReadyNow
  BY SchedulerConstants DEF ReadyNow, Due, Sleepers
<1>4. none \in Select(picker, NoThread)
  BY DEF FirstPicks
<1>5. QED
  BY <1>1, <1>2, <1>3, <1>4, PicksFit

(* Threads become ready; if the running one is among them, it runs no more. *)
LEMMA ThreadsWoken ==
  ASSUME TypeOK, ThreadsFit, NEW W \in SUBSET Threads,
         current' = IF current \in W THEN NoThread ELSE current, state' = Readied(W),
         waitObject' = [u \in Threads |-> IF u \in W THEN NoObject ELSE waitObject[u]],
         sleeping' = [u \in Threads |-> u \notin W /\ sleeping[u]]
  PROVE  /\ ThreadsFit'
         /\ state' \in [Threads -> ThreadStates]
         /\ waitObject' \in [Threads -> Objects \cup {NoObject}]
         /\ sleeping' \in [Threads -> BOOLEAN]
<1>1. \A u \in Threads : /\ state'[u] = IF u \in W THEN "ready" ELSE state[u]
                         /\ waitObject'[u] = IF u \in W THEN NoObject ELSE waitObject[u]
  BY DEF Readied
<1>2. state' \in [Threads -> ThreadStates]
  BY <1>1 DEF Readied, TypeOK, ThreadStates
<1>3. waitObject' \in [Threads -> Objects \cup {NoObject}] /\ sleeping' \in [Threads -> BOOLEAN]
  BY DEF TypeOK
<1>4. ThreadsFit'
  <2> SUFFICES ASSUME NEW u \in Threads
               PROVE  /\ state'[u] = "running" <=> u = current'
                      /\ waitObject'[u] # NoObject => state'[u] = "waiting"
                      /\ sleeping'[u] <=> state'[u] = "waiting" /\ waitObject'[u] = NoObject
    BY DEF ThreadsFit
  <2>1. /\ state[u] = "running" <=> u = current
        /\ waitObject[u] # NoObject => state[u] = "waiting"
        /\ sleeping[u] <=> state[u] = "waiting" /\ waitObject[u] = NoObject
        /\ u # NoThread
    BY SchedulerConstants DEF ThreadsFit
  <2>2. CASE u \in W
    <3>1. ~sleeping'[u]
      BY <2>2
    <3>2. QED
      BY <1>1, <2>1, <2>2, <3>1
  <2>3. CASE u \notin W
    <3>1. sleeping'[u] <=> sleeping[u]
      BY <2>3
    <3>2. QED
      BY <1>1, <2>1, <2>3, <3>1
  <2>4. QED
    BY <2>2, <2>3
<1>5. QED
  BY <1>2, <1>3, <1>4

(* When the clock jumps to the next sleeper nobody else is due. *)
LEMMA JumpClockKeeps ==
  ASSUME SchedulerInv, JumpClock
  PROVE  SchedulerInv'
<1> DEFINE late == Sleepers \ Due
           t == Earliest(late)
           W == Due \cup {t}
<1>1. /\ current = NoThread /\ stopped = "no" /\ late # {}
      /\ state' = Readied(W)
      /\ waitObject' = [u \in Threads |-> IF u \in W THEN NoObject ELSE waitObject[u]]
      /\ sleeping' = [u \in Threads |-> u \notin W /\ sleeping[u]]
      /\ older' = EnqueuedAfter(EnqueuedAfter(older, Due), {t})
      /\ remaining' = [u \in Threads |-> IF u \in late THEN remaining[u] - remaining[t] ELSE 0]
      /\ UNCHANGED <<current, pc, callbackThread, savedPc, affinity, pinnedCore,
                     pinnedThreads, pending, listDepth, stopped>>
      /\ NobodyToRun
  BY DEF JumpClock, NobodyToRun
<1>2. TypeOK /\ ThreadsFit
  BY DEF SchedulerInv
<1>3. picker' \in Pickers
  BY <1>1, NobodyFits
<1>4. late \in SUBSET Threads /\ \A u \in late : state[u] = "waiting" /\ waitObject[u] = NoObject
  BY <1>2 DEF Sleepers, ThreadsFit
<1>5. t \in late /\ \A u \in late : remaining[t] <= remaining[u]
  BY <1>1, <1>2, <1>4, EarliestFits DEF TypeOK
<1>6. W \in SUBSET Threads /\ \A u \in W : state[u] = "waiting" /\ waitObject[u] = NoObject
  BY <1>4, <1>5, DueFits
<1>7. Queue(older)'
  <2>1. {t} \in SUBSET Threads
    BY <1>4, <1>5
  <2> DEFINE order == EnqueuedAfter(older, Due)
  <2>2. Queue(order)
    BY DueFits
  <2> HIDE DEF order, t
  <2>3. Queue(EnqueuedAfter(order, {t}))
    BY <2>1, <2>2, QueueKept
  <2>4. QED
    BY <1>1, <2>3 DEF Queue, order
<1> HIDE DEF W, t, late
<1>8. remaining' \in [Threads -> Nat]
  <2>1. \A u \in late : remaining[u] - remaining[t] \in Nat
    BY <1>2, <1>4, <1>5 DEF TypeOK
  <2>2. QED
    BY <1>1, <2>1
<1>9. current \notin W
  BY <1>1, <1>6, SchedulerConstants
<1>10. /\ ThreadsFit' /\ state' \in [Threads -> ThreadStates]
       /\ waitObject' \in [Threads -> Objects \cup {NoObject}]
       /\ sleeping' \in [Threads -> BOOLEAN]
  BY <1>1, <1>2, <1>6, <1>9, ThreadsWoken
<1>11. TypeOK'
  BY <1>1, <1>2, <1>3, <1>7, <1>8, <1>10 DEF TypeOK, Pickers, Queue
<1>12. PinsConsistent' /\ NeverThrows' /\ SleepersOnTime'
  BY <1>1, IdleFits
<1>13. NoFalseDeadlock'
  BY <1>1 DEF NoFalseDeadlock
<1>14. QED
  BY <1>7, <1>10, <1>11, <1>12, <1>13 DEF SchedulerInv

(* A deadlock is one: whichever slot the six tries began at, three of them   *)
(* looked at each core with nobody excluded.                                 *)
LEMMA DeadlockIsOne ==
  ASSUME SchedulerInv, NobodyToRun, NEW t \in ReadyNow, NEW c \in affinity[t],
         pinnedCore[t] \in {NoCore, c}, CoreAvailable(t, c)
  PROVE  FALSE
<1>1. PICK q \in Pickers : Winners(q, ReadyNow, EnqueuedAfter(older, Due), NoThread) = {}
  BY NobodyFits
<1> DEFINE order == EnqueuedAfter(older, Due)
<1>2. ReadyNow \in SUBSET Threads /\ Queue(order)
  BY DueFits DEF ReadyNow, Due, Sleepers
<1>3. \A k \in Tries : Eligible(Skip(q, k), ReadyNow, NoThread) = {}
  <2> HIDE DEF order
  <2>1. Winners(q, ReadyNow, order, NoThread) = {}
    BY <1>1 DEF order
  <2>2. QED
    BY <1>2, <2>1, NobodyEligible
<1>4. t \in Threads /\ t # NoThread /\ c \in Cores
  BY <1>2, SchedulerConstants DEF SchedulerInv, TypeOK
<1>5. PICK j \in Slots : CoreOrder[j] = c
  <2>1. c = 0 \/ c = 1 \/ c = 2
    BY <1>4 DEF Cores
  <2>2. CoreOrder[1] = 0 /\ CoreOrder[0] = 1 /\ CoreOrder[2] = 2
    BY DEF CoreOrder, Slots
  <2>3. QED
    BY <2>1, <2>2 DEF Slots
<1> DEFINE k == (3 - q.slot) + j
<1>6. q.slot \in 0 .. 2 /\ j \in 0 .. 2
  BY DEF Pickers, Slots
<1>7. k \in 1 .. 5 /\ q.slot + k = 3 + j /\ (3 + j) % 3 = j
  BY <1>6
<1>8. k \in Tries /\ k \in 0 .. 6 /\ q.slot + k >= 3
  BY <1>6, <1>7 DEF Tries
<1> HIDE DEF k
<1>9. Skip(q, k).slot = j /\ \A s \in Slots : Skip(q, k).scheduled[s] = NoThread
  BY <1>7, <1>8, SkipFits
<1>10. t \in Eligible(Skip(q, k), ReadyNow, NoThread)
  BY <1>4, <1>5, <1>9 DEF Eligible
<1>11. QED
  BY <1>3, <1>8, <1>10

(* A deadlock is declared only when no thread is ready and none sleeps: a round that found
   nobody has tried every core. *)
LEMMA DeadlockKeeps ==
  ASSUME SchedulerInv, Deadlock
  PROVE  SchedulerInv'
<1>1. /\ current = NoThread /\ NobodyToRun /\ stopped' = "deadlock"
      /\ state' = Readied(Due)
      /\ waitObject' = [u \in Threads |-> IF u \in Due THEN NoObject ELSE waitObject[u]]
      /\ sleeping' = [u \in Threads |-> u \notin Due /\ sleeping[u]]
      /\ older' = EnqueuedAfter(older, Due)
      /\ UNCHANGED <<current, pc, callbackThread, savedPc, remaining, affinity, pinnedCore,
                     pinnedThreads, pending, listDepth>>
  BY DEF Deadlock, NobodyToRun, EnqueueAll
<1>2. TypeOK /\ ThreadsFit
  BY DEF SchedulerInv
<1>3. picker' \in Pickers
  BY <1>1, NobodyFits
<1>4. Due \in SUBSET Threads /\ \A u \in Due : state[u] = "waiting" /\ waitObject[u] = NoObject
  BY DueFits
<1>5. Queue(older)'
  BY <1>1, DueFits DEF Queue
<1>6. \A u \in Threads : state'[u] = IF u \in Due THEN "ready" ELSE state[u]
  BY <1>1 DEF Readied
<1>7. /\ ThreadsFit' /\ state' \in [Threads -> ThreadStates]
      /\ waitObject' \in [Threads -> Objects \cup {NoObject}]
      /\ sleeping' \in [Threads -> BOOLEAN]
  <2>1. current \notin Due
    BY <1>1, <1>4, SchedulerConstants
  <2>2. QED
    BY <1>1, <1>2, <1>4, <2>1, ThreadsWoken
<1>8. TypeOK'
  BY <1>1, <1>2, <1>3, <1>5, <1>7 DEF TypeOK, Pickers, Queue
<1>9. PinsConsistent' /\ NeverThrows' /\ SleepersOnTime'
  BY <1>1, IdleFits
<1>10. NoFalseDeadlock'
  <2> SUFFICES ASSUME NEW t \in Threads, Runnable(t)' PROVE FALSE
    BY DEF NoFalseDeadlock
  <2>1. t \in ReadyNow
    BY <1>6 DEF Runnable, ReadyNow
  <2>2. PICK c \in affinity[t] : pinnedCore[t] \in {NoCore, c} /\ CoreAvailable(t, c)
    BY <1>1 DEF Runnable, CoreAvailable
  <2>3. QED
    BY <1>1, <2>1, <2>2, DeadlockIsOne
<1>11. QED
  BY <1>5, <1>7, <1>8, <1>9, <1>10 DEF SchedulerInv

(* A frame of audio queues its callback and touches no thread. *)
LEMMA AudioKeeps ==
  ASSUME SchedulerInv, ServiceAudioFrame
  PROVE  SchedulerInv'
<1>1. /\ pending' = Append(pending, NoThread)
      /\ UNCHANGED <<threadVars, sleeping, remaining, older, affinity, pinnedCore,
                     pinnedThreads, picker, listDepth, stopped>>
  BY DEF ServiceAudioFrame
<1>2. pending' \in Seq(AnyThread)
  BY <1>1 DEF SchedulerInv, TypeOK, AnyThread
<1>3. TypeOK' /\ ThreadsFit' /\ Queue(older)'
  BY <1>1, <1>2 DEF SchedulerInv, TypeOK, ThreadsFit, Queue, threadVars
<1>4. PinsConsistent' /\ NeverThrows'
  BY <1>1 DEF SchedulerInv, PinsConsistent, PinsAgree, PinExclusive, ListsPinned, NeverThrows,
              threadVars
<1>5. SleepersOnTime' /\ NoFalseDeadlock'
  BY <1>1 DEF SchedulerInv, SleepersOnTime, Sleepers, NoFalseDeadlock, Runnable, CoreAvailable,
              threadVars
<1>6. QED
  BY <1>3, <1>4, <1>5 DEF SchedulerInv


-----------------------------------------------------------------------------
(* Inside a slice. *)

(* The running thread waits for nothing and does not sleep. *)
LEMMA RunningFits ==
  ASSUME SchedulerInv, current # NoThread
  PROVE  /\ current \in Threads /\ state[current] = "running"
         /\ waitObject[current] = NoObject /\ sleeping[current] = FALSE
<1>1. current \in Threads
  BY DEF SchedulerInv, TypeOK, AnyThread
<1>2. state[current] = "running"
  BY <1>1 DEF SchedulerInv, ThreadsFit
<1>3. waitObject[current] = NoObject
  BY <1>1, <1>2 DEF SchedulerInv, ThreadsFit
<1>4. sleeping[current] = FALSE
  <2>1. sleeping[current] \in BOOLEAN
    BY <1>1 DEF SchedulerInv, TypeOK
  <2>2. ~sleeping[current]
    BY <1>1, <1>2 DEF SchedulerInv, ThreadsFit
  <2>3. QED
    BY <2>1, <2>2
<1>5. QED
  BY <1>1, <1>2, <1>3, <1>4

(* A call that leaves the pins alone. *)
LEMMA PinsCarried ==
  ASSUME SchedulerInv, stopped = "no", stopped' = "no", current' \in {current, NoThread},
         picker'.core = picker.core, UNCHANGED <<pinnedCore, pinnedThreads, listDepth>>
  PROVE  PinsConsistent' /\ NeverThrows' /\ NoFalseDeadlock'
BY DEF SchedulerInv, PinsConsistent, PinsAgree, PinExclusive, ListsPinned, NeverThrows,
       NoFalseDeadlock

(* A call that puts nobody to sleep and takes no time, or ends the slice. *)
LEMMA OnTimeCarried ==
  ASSUME SchedulerInv,
         \/ current' = NoThread
         \/ current' = current /\ remaining' = remaining /\ Sleepers' \subseteq Sleepers
  PROVE  SleepersOnTime'
BY DEF SchedulerInv, SleepersOnTime

(* A hint to the next pick leaves the core alone. *)
LEMMA HintFits ==
  ASSUME SchedulerInv, NEW u \in Threads, picker' = WakeHint(u)
  PROVE  picker' \in Pickers /\ picker'.core = picker.core
BY DEF SchedulerInv, TypeOK, WakeHint, Pickers, AnyThread

(* Time that passes leaves every sleeper a number of ticks. *)
LEMMA ElapseFits ==
  ASSUME SchedulerInv, NEW e \in 0 .. MaxSlice, Elapse(e)
  PROVE  remaining' \in [Threads -> Nat]
<1>1. e \in Nat /\ \A t \in Threads : remaining[t] \in Nat
  BY SchedulerConstants DEF SchedulerInv, TypeOK
<1>2. \A t \in Threads : (IF remaining[t] > e THEN remaining[t] - e ELSE 0) \in Nat
  BY <1>1
<1>3. QED
  BY <1>2 DEF Elapse

(* Calls that make the threads of W ready, and with them the caller if it is *)
(* among them.                                                               *)
LEMMA WakesKeep ==
  ASSUME SchedulerInv, current # NoThread, stopped = "no", NEW W \in SUBSET Threads,
         current' = IF current \in W THEN NoThread ELSE current,
         state' = Readied(W),
         waitObject' = [u \in Threads |-> IF u \in W THEN NoObject ELSE waitObject[u]],
         sleeping' = [u \in Threads |-> u \notin W /\ sleeping[u]],
         Queue(older'), picker' \in Pickers, picker'.core = picker.core,
         remaining' \in [Threads -> Nat], current \notin W => remaining' = remaining,
         pc' \in [Threads -> Sites], callbackThread' \in AnyThread, savedPc' \in Sites,
         UNCHANGED schedulerOnly
  PROVE  SchedulerInv'
<1>1. TypeOK /\ ThreadsFit
  BY DEF SchedulerInv
<1>2. /\ ThreadsFit' /\ state' \in [Threads -> ThreadStates]
      /\ waitObject' \in [Threads -> Objects \cup {NoObject}]
      /\ sleeping' \in [Threads -> BOOLEAN]
  BY <1>1, ThreadsWoken
<1>3. Queue(older)'
  BY DEF Queue
<1>4. TypeOK'
  BY <1>1, <1>2, <1>3 DEF TypeOK, Pickers, Queue, schedulerOnly, AnyThread
<1>5. Sleepers' \subseteq Sleepers
  <2> SUFFICES ASSUME NEW u \in Threads, state'[u] = "waiting", sleeping'[u]
               PROVE  state[u] = "waiting" /\ sleeping[u]
    BY DEF Sleepers
  <2>1. u \notin W /\ sleeping[u]
    OBVIOUS
  <2>2. QED
    BY <2>1 DEF Readied
<1>6. SleepersOnTime'
  BY <1>5, OnTimeCarried
<1>7. PinsConsistent' /\ NeverThrows' /\ NoFalseDeadlock'
  BY PinsCarried DEF schedulerOnly
<1>8. QED
  BY <1>2, <1>3, <1>4, <1>6, <1>7 DEF SchedulerInv

(* The slice ends and its thread is ready again. *)
LEMMA PreemptKeeps ==
  ASSUME SchedulerInv, current # NoThread, stopped = "no", Preempt,
         NEW e \in 0 .. MaxSlice, Elapse(e),
         pc' \in [Threads -> Sites], callbackThread' \in AnyThread, savedPc' \in Sites,
         UNCHANGED <<picker, schedulerOnly>>
  PROVE  SchedulerInv'
<1> DEFINE W == {current}
<1>1. current \in Threads /\ W \in SUBSET Threads /\ current \in W
  BY RunningFits
<1>2. /\ current' = NoThread
      /\ waitObject' = [u \in Threads |-> IF u \in W THEN NoObject ELSE waitObject[u]]
      /\ sleeping' = [u \in Threads |-> u \notin W /\ sleeping[u]]
      /\ older' = EnqueuedAfter(older, W)
  BY DEF Preempt, EnqueueAll
<1>3. state' = Readied(W)
  BY DEF Preempt, Readied, SchedulerInv, TypeOK
<1>4. Queue(older')
  BY <1>1, <1>2, QueueKept DEF SchedulerInv
<1>5. picker' \in Pickers /\ picker'.core = picker.core
  BY DEF SchedulerInv, TypeOK, Pickers
<1>6. remaining' \in [Threads -> Nat]
  BY ElapseFits
<1> HIDE DEF W
<1>7. QED
  BY <1>1, <1>2, <1>3, <1>4, <1>5, <1>6, WakesKeep

(* A call that wakes or resumes u, then ends the slice. *)
LEMMA SwitchKeeps ==
  ASSUME SchedulerInv, current # NoThread, stopped = "no",
         NEW u \in Threads, state[u] # "running",
         current' = NoThread,
         state' = Readied({u, current}),
         waitObject' = [waitObject EXCEPT ![u] = NoObject],
         sleeping' = [sleeping EXCEPT ![u] = FALSE],
         older' = EnqueuedAfter(EnqueuedAfter(older, {u}), {current}),
         NEW e \in 0 .. MaxSlice, Elapse(e),
         picker' \in Pickers, picker'.core = picker.core,
         UNCHANGED <<pc, callbackThread, savedPc, schedulerOnly>>
  PROVE  SchedulerInv'
<1> DEFINE W == {u, current}
<1>1. /\ current \in Threads /\ W \in SUBSET Threads /\ current \in W
      /\ waitObject[current] = NoObject /\ sleeping[current] = FALSE
  BY RunningFits
<1>2. TypeOK
  BY DEF SchedulerInv
<1>3. waitObject' = [t \in Threads |-> IF t \in W THEN NoObject ELSE waitObject[t]]
  BY <1>1, <1>2 DEF TypeOK
<1>4. sleeping' = [t \in Threads |-> t \notin W /\ sleeping[t]]
  <2>1. \A t \in Threads : sleeping'[t] = (t \notin W /\ sleeping[t])
    <3> TAKE t \in Threads
    <3>1. sleeping[t] \in BOOLEAN /\ sleeping'[t] = IF t = u THEN FALSE ELSE sleeping[t]
      BY <1>2 DEF TypeOK
    <3>2. CASE t \in W
      BY <1>1, <3>1, <3>2
    <3>3. CASE t \notin W
      BY <3>1, <3>3
    <3>4. QED
      BY <3>2, <3>3
  <2>2. sleeping' \in [Threads -> BOOLEAN]
    BY <1>2 DEF TypeOK
  <2> HIDE DEF W
  <2>3. QED
    BY <2>1, <2>2
<1>5. Queue(older')
  <2> DEFINE order == EnqueuedAfter(older, {u})
  <2>1. {u} \in SUBSET Threads /\ {current} \in SUBSET Threads
    BY <1>1
  <2>2. Queue(order)
    BY <2>1, QueueKept DEF SchedulerInv
  <2> HIDE DEF order
  <2>3. Queue(EnqueuedAfter(order, {current}))
    BY <2>1, <2>2, QueueKept
  <2>4. QED
    BY <2>3 DEF order
<1>6. remaining' \in [Threads -> Nat]
  BY ElapseFits
<1>7. pc' \in [Threads -> Sites] /\ callbackThread' \in AnyThread /\ savedPc' \in Sites
  BY <1>2 DEF TypeOK
<1>8. state' = Readied(W) /\ UNCHANGED schedulerOnly
  OBVIOUS
<1> HIDE DEF W
<1>9. QED
  BY <1>1, <1>3, <1>4, <1>5, <1>6, <1>7, <1>8, WakesKeep


(* The slice ends with its thread blocked, asleep or gone. *)
LEMMA LeaveKeeps ==
  ASSUME SchedulerInv, current # NoThread, stopped = "no",
         NEW st \in {"waiting", "moribund"}, NEW o \in Objects \cup {NoObject}, NEW asleep \in BOOLEAN,
         o # NoObject => st = "waiting",
         asleep <=> st = "waiting" /\ o = NoObject,
         current' = NoThread,
         state' = [state EXCEPT ![current] = st],
         waitObject' = [waitObject EXCEPT ![current] = o],
         sleeping' = [sleeping EXCEPT ![current] = asleep],
         older' = older,
         remaining' \in [Threads -> Nat], pc' \in [Threads -> Sites],
         UNCHANGED <<callbackThread, savedPc, picker, schedulerOnly>>
  PROVE  SchedulerInv'
<1>1. current \in Threads /\ TypeOK /\ ThreadsFit
  BY RunningFits DEF SchedulerInv
<1>2. \A t \in Threads : /\ state'[t] = IF t = current THEN st ELSE state[t]
                         /\ waitObject'[t] = IF t = current THEN o ELSE waitObject[t]
                         /\ sleeping'[t] = IF t = current THEN asleep ELSE sleeping[t]
  BY <1>1 DEF TypeOK
<1>3. TypeOK'
  <2>1. state' \in [Threads -> ThreadStates]
    BY <1>1 DEF TypeOK, ThreadStates
  <2>2. waitObject' \in [Threads -> Objects \cup {NoObject}] /\ sleeping' \in [Threads -> BOOLEAN]
    BY <1>1 DEF TypeOK
  <2>3. QED
    BY <1>1, <2>1, <2>2 DEF TypeOK, schedulerOnly, AnyThread
<1>4. ThreadsFit'
  <2> SUFFICES ASSUME NEW u \in Threads
               PROVE  /\ state'[u] = "running" <=> u = current'
                      /\ waitObject'[u] # NoObject => state'[u] = "waiting"
                      /\ sleeping'[u] <=> state'[u] = "waiting" /\ waitObject'[u] = NoObject
    BY DEF ThreadsFit
  <2>1. /\ state[u] = "running" <=> u = current
        /\ waitObject[u] # NoObject => state[u] = "waiting"
        /\ sleeping[u] <=> state[u] = "waiting" /\ waitObject[u] = NoObject
        /\ u # NoThread
    BY <1>1, SchedulerConstants DEF ThreadsFit
  <2>2. CASE u = current
    <3>1. /\ state'[u] = st /\ waitObject'[u] = o /\ (sleeping'[u] <=> asleep)
      BY <1>2, <2>2
    <3>2. QED
      BY <2>1, <3>1
  <2>3. CASE u # current
    <3>1. /\ state'[u] = state[u] /\ waitObject'[u] = waitObject[u]
          /\ (sleeping'[u] <=> sleeping[u])
      BY <1>2, <2>3
    <3>2. QED
      BY <2>1, <2>3, <3>1
  <2>4. QED
    BY <2>2, <2>3
<1>5. Queue(older)'
  BY DEF SchedulerInv, Queue
<1>6. SleepersOnTime'
  BY OnTimeCarried
<1>7. PinsConsistent' /\ NeverThrows' /\ NoFalseDeadlock'
  BY PinsCarried DEF schedulerOnly
<1>8. QED
  BY <1>3, <1>4, <1>5, <1>6, <1>7 DEF SchedulerInv

(* A thread that blocks leaves its core as the invariant wants it. *)
LEMMA BlockKeeps ==
  ASSUME SchedulerInv, NEW o \in Objects, BlockCurrent(o)
  PROVE  SchedulerInv'
<1>1. current # NoThread /\ stopped = "no" /\ TypeOK
  BY DEF BlockCurrent, Running, SchedulerInv
<1>2. current \in Threads /\ sleeping[current] = FALSE
  BY <1>1, RunningFits
<1>3. PICK e \in 0 .. MaxSlice : Elapse(e)
  BY DEF BlockCurrent
<1>4. remaining' \in [Threads -> Nat]
  BY <1>3, ElapseFits
<1>5. pc' \in [Threads -> Sites]
  BY <1>1 DEF BlockCurrent, TypeOK, Sites
<1>6. sleeping' = [sleeping EXCEPT ![current] = FALSE]
  BY <1>1, <1>2 DEF BlockCurrent, TypeOK
<1>7. o # NoObject
  BY SchedulerConstants
<1>8. QED
  BY <1>1, <1>4, <1>5, <1>6, <1>7, LeaveKeeps DEF BlockCurrent

(* So does one that goes to sleep. *)
LEMMA SleepKeeps ==
  ASSUME SchedulerInv, NEW d \in SleepTimes, SleepCurrent(d)
  PROVE  SchedulerInv'
<1>1. current # NoThread /\ stopped = "no" /\ TypeOK
  BY DEF SleepCurrent, InGuest, Running, SchedulerInv
<1>2. PICK e \in 0 .. MaxSlice :
        remaining' = [t \in Threads |-> IF t = current THEN d
                                        ELSE IF remaining[t] > e THEN remaining[t] - e ELSE 0]
  BY DEF SleepCurrent
<1>3. remaining' \in [Threads -> Nat]
  <2>1. d \in Nat /\ e \in Nat /\ \A t \in Threads : remaining[t] \in Nat
    BY <1>1, SchedulerConstants DEF TypeOK
  <2>2. \A t \in Threads : (IF t = current THEN d
                            ELSE IF remaining[t] > e THEN remaining[t] - e ELSE 0) \in Nat
    BY <2>1
  <2>3. QED
    BY <1>2, <2>2
<1>4. pc' \in [Threads -> Sites]
  BY <1>1 DEF SleepCurrent, TypeOK
<1>5. QED
  BY <1>1, <1>3, <1>4, LeaveKeeps DEF SleepCurrent

(* So does one that exits. *)
LEMMA ExitKeeps ==
  ASSUME SchedulerInv, ExitCurrent
  PROVE  SchedulerInv'
<1>1. current # NoThread /\ stopped = "no" /\ TypeOK
  BY DEF ExitCurrent, InGuest, Running, SchedulerInv
<1>2. current \in Threads /\ sleeping[current] = FALSE /\ waitObject[current] = NoObject
  BY <1>1, RunningFits
<1>3. PICK e \in 0 .. MaxSlice : Elapse(e)
  BY DEF ExitCurrent
<1>4. remaining' \in [Threads -> Nat]
  BY <1>3, ElapseFits
<1>5. /\ sleeping' = [sleeping EXCEPT ![current] = FALSE]
      /\ waitObject' = [waitObject EXCEPT ![current] = NoObject]
      /\ pc' \in [Threads -> Sites]
  BY <1>1, <1>2 DEF ExitCurrent, TypeOK
<1>6. QED
  BY <1>1, <1>4, <1>5, LeaveKeeps DEF ExitCurrent

(* A callback that returns gives the thread back. *)
LEMMA ReturnKeeps ==
  ASSUME SchedulerInv, ReturnFromCallback
  PROVE  SchedulerInv'
<1>1. current # NoThread /\ stopped = "no" /\ TypeOK /\ Preempt
  BY DEF ReturnFromCallback, SchedulerInv
<1>2. PICK e \in 0 .. MaxSlice : Elapse(e)
  BY DEF ReturnFromCallback
<1>3. pc' \in [Threads -> Sites] /\ callbackThread' \in AnyThread /\ savedPc' \in Sites
  BY <1>1 DEF ReturnFromCallback, TypeOK, AnyThread, Sites
<1>4. QED
  BY <1>1, <1>2, <1>3, PreemptKeeps DEF ReturnFromCallback

(* The calls that wake other threads. *)
LEMMA WakeKeeps ==
  ASSUME SchedulerInv
  PROVE  /\ \A u \in Threads : UnlockWakes(u) => SchedulerInv'
         /\ \A u \in Threads : SendWakes(u) \/ ResumeThread(u) => SchedulerInv'
         /\ \A o \in Objects : WakeWaiters(o) => SchedulerInv'
<1>0. TypeOK
  BY DEF SchedulerInv
<1>p. picker \in Pickers
  BY <1>0 DEF TypeOK, Pickers
<1>1. ASSUME NEW u \in Threads, UnlockWakes(u) PROVE SchedulerInv'
  <2> DEFINE W == {u}
  <2>1. current # NoThread /\ stopped = "no" /\ state[u] = "waiting"
    BY <1>1 DEF UnlockWakes, InGuest, Running
  <2>2. W \in SUBSET Threads /\ current \notin W
    BY <2>1, RunningFits
  <2>3. /\ current' = current /\ state' = Readied(W)
        /\ waitObject' = [t \in Threads |-> IF t \in W THEN NoObject ELSE waitObject[t]]
        /\ sleeping' = [t \in Threads |-> t \notin W /\ sleeping[t]]
        /\ older' = EnqueuedAfter(older, W)
        /\ remaining' = remaining /\ UNCHANGED <<pc, callbackThread, savedPc, schedulerOnly>>
        /\ picker' = WakeHint(u)
    BY <1>1 DEF UnlockWakes, EnqueueAll
  <2>4. Queue(older')
    BY <2>2, <2>3, QueueKept DEF SchedulerInv
  <2>5. picker' \in Pickers /\ picker'.core = picker.core
    BY <2>3, HintFits
  <2>6. /\ remaining' \in [Threads -> Nat] /\ pc' \in [Threads -> Sites]
        /\ callbackThread' \in AnyThread /\ savedPc' \in Sites
    BY <1>0, <2>3 DEF TypeOK
  <2> HIDE DEF W
  <2>7. QED
    BY <2>1, <2>2, <2>3, <2>4, <2>5, <2>6, WakesKeep
<1>2. ASSUME NEW u \in Threads, SendWakes(u) PROVE SchedulerInv'
  <2>1. current # NoThread /\ stopped = "no" /\ state[u] # "running"
    BY <1>2 DEF SendWakes, InGuest, Running
  <2>2. PICK e \in 0 .. MaxSlice : Elapse(e)
    BY <1>2 DEF SendWakes
  <2>3. picker' \in Pickers /\ picker'.core = picker.core
    BY <1>2, HintFits DEF SendWakes
  <2>4. QED
    BY <1>2, <2>1, <2>2, <2>3, SwitchKeeps DEF SendWakes
<1>3. ASSUME NEW u \in Threads, ResumeThread(u) PROVE SchedulerInv'
  <2>1. current # NoThread /\ stopped = "no" /\ state[u] # "running"
    BY <1>3 DEF ResumeThread, InGuest, Running
  <2>2. PICK e \in 0 .. MaxSlice : Elapse(e)
    BY <1>3 DEF ResumeThread
  <2>3. picker' \in Pickers /\ picker'.core = picker.core
    BY <1>3, <1>p DEF ResumeThread
  <2>4. QED
    BY <1>3, <2>1, <2>2, <2>3, SwitchKeeps DEF ResumeThread
<1>4. ASSUME NEW o \in Objects, WakeWaiters(o) PROVE SchedulerInv'
  <2> DEFINE W == {t \in Threads : state[t] = "waiting" /\ waitObject[t] = o}
  <2>1. current # NoThread /\ stopped = "no"
    BY <1>4 DEF WakeWaiters, InGuest, Running
  <2>2. W \in SUBSET Threads /\ current \notin W
    BY <2>1, RunningFits
  <2>3. /\ current' = current /\ state' = Readied(W)
        /\ waitObject' = [t \in Threads |-> IF t \in W THEN NoObject ELSE waitObject[t]]
        /\ sleeping' = [t \in Threads |-> t \notin W /\ sleeping[t]]
        /\ older' = EnqueuedAfter(older, W)
        /\ remaining' = remaining
        /\ UNCHANGED <<pc, callbackThread, savedPc, picker, schedulerOnly>>
    BY <1>4 DEF WakeWaiters, EnqueueAll
  <2>4. Queue(older')
    BY <2>2, <2>3, QueueKept DEF SchedulerInv
  <2>5. /\ remaining' \in [Threads -> Nat] /\ pc' \in [Threads -> Sites]
        /\ callbackThread' \in AnyThread /\ savedPc' \in Sites
        /\ picker' \in Pickers /\ picker'.core = picker.core
    BY <1>0, <1>p, <2>3 DEF TypeOK
  <2> HIDE DEF W
  <2>6. QED
    BY <2>1, <2>2, <2>3, <2>4, <2>5, WakesKeep
<1>5. QED
  BY <1>1, <1>2, <1>3, <1>4


(* Calls that neither wake nor end anything. *)
LEMMA QuietKeeps ==
  ASSUME SchedulerInv, stopped = "no",
         UNCHANGED <<current, waitObject, sleeping, remaining, older, picker, pinnedCore,
                     pinnedThreads, listDepth, stopped>>,
         TypeOK',
         \A t \in Threads : state'[t] = state[t]
                            \/ /\ state[t] \notin {"running", "waiting"}
                               /\ state'[t] \notin {"running", "waiting"}
  PROVE  SchedulerInv'
<1>1. ThreadsFit'
  BY DEF SchedulerInv, ThreadsFit
<1>2. Queue(older)'
  BY DEF SchedulerInv, Queue
<1>3. Sleepers' \subseteq Sleepers
  BY DEF Sleepers
<1>4. SleepersOnTime'
  BY <1>3, OnTimeCarried
<1>5. PinsConsistent' /\ NeverThrows' /\ NoFalseDeadlock'
  BY PinsCarried
<1>6. QED
  BY <1>1, <1>2, <1>4, <1>5 DEF SchedulerInv

(* The calls that neither wake nor block anyone. *)
LEMMA QuietCalls ==
  ASSUME SchedulerInv
  PROVE  /\ CompleteCall => SchedulerInv'
         /\ \A u \in Threads : CreateThread(u) => SchedulerInv'
         /\ \A u \in Threads, mask \in Masks : SetThreadAffinity(u, mask) => SchedulerInv'
         /\ QueueCallback => SchedulerInv'
<1>0. TypeOK
  BY DEF SchedulerInv
<1>1. ASSUME CompleteCall PROVE SchedulerInv'
  <2>1. pc' \in [Threads -> Sites]
    BY <1>0, <1>1 DEF CompleteCall, TypeOK, Sites
  <2>2. TypeOK'
    BY <1>0, <1>1, <2>1 DEF CompleteCall, TypeOK, schedulerOnly, AnyThread
  <2>3. QED
    BY <1>1, <2>2, QuietKeeps DEF CompleteCall, Running, schedulerOnly
<1>2. ASSUME NEW u \in Threads, CreateThread(u) PROVE SchedulerInv'
  <2>1. state' \in [Threads -> ThreadStates]
    BY <1>0, <1>2 DEF CreateThread, TypeOK, ThreadStates
  <2>2. TypeOK'
    BY <1>0, <1>2, <2>1 DEF CreateThread, TypeOK, schedulerOnly, AnyThread
  <2>3. \A t \in Threads : state'[t] = state[t]
                           \/ /\ state[t] \notin {"running", "waiting"}
                              /\ state'[t] \notin {"running", "waiting"}
    BY <1>0, <1>2 DEF CreateThread, TypeOK
  <2>4. QED
    BY <1>2, <2>2, <2>3, QuietKeeps DEF CreateThread, InGuest, Running, schedulerOnly
<1>3. ASSUME NEW u \in Threads, NEW mask \in Masks, SetThreadAffinity(u, mask) PROVE SchedulerInv'
  <2>1. affinity' \in [Threads -> SUBSET Cores]
    BY <1>0, <1>3, SchedulerConstants DEF SetThreadAffinity, TypeOK
  <2>2. TypeOK'
    BY <1>0, <1>3, <2>1 DEF SetThreadAffinity, TypeOK, threadVars, AnyThread
  <2>3. QED
    BY <1>3, <2>2, QuietKeeps DEF SetThreadAffinity, InGuest, Running, threadVars
<1>4. ASSUME QueueCallback PROVE SchedulerInv'
  <2>1. pending' \in Seq(AnyThread)
    BY <1>0, <1>4 DEF QueueCallback, TypeOK
  <2>2. TypeOK'
    BY <1>0, <1>4, <2>1 DEF QueueCallback, TypeOK, threadVars, AnyThread
  <2>3. QED
    BY <1>4, <2>2, QuietKeeps DEF QueueCallback, InGuest, Running, threadVars
<1>5. QED
  BY <1>1, <1>2, <1>3, <1>4

(* Display lists change the pins and the lists alone. *)
LEMMA RecorderKeeps ==
  ASSUME SchedulerInv, UNCHANGED recorderSteady, current # NoThread, stopped = "no",
         pinnedCore' \in [Threads -> Cores \cup {NoCore}],
         pinnedThreads' \in [Cores -> AnyThread],
         listDepth' \in [Cores -> Nat], stopped' = "no",
         PinsConsistent'
  PROVE  SchedulerInv'
<1>1. TypeOK'
  BY DEF SchedulerInv, TypeOK, recorderSteady, threadVars, AnyThread
<1>2. ThreadsFit' /\ Queue(older)'
  BY DEF SchedulerInv, ThreadsFit, Queue, recorderSteady, threadVars
<1>3. SleepersOnTime'
  BY DEF SchedulerInv, SleepersOnTime, Sleepers, recorderSteady, threadVars
<1>4. NeverThrows' /\ NoFalseDeadlock'
  BY DEF NeverThrows, NoFalseDeadlock
<1>5. QED
  BY <1>1, <1>2, <1>3, <1>4 DEF SchedulerInv

(* What the pins say of the running thread and its core. *)
LEMMA PinFacts ==
  ASSUME SchedulerInv, current # NoThread
  PROVE  /\ current \in Threads /\ picker.core \in Cores /\ NoCore \notin Cores
         /\ NoThread \notin Threads
         /\ pinnedCore[current] \in {NoCore, picker.core}
         /\ pinnedThreads[picker.core] \in {NoThread, current}
         /\ pinnedCore[current] = picker.core <=> pinnedThreads[picker.core] = current
         /\ listDepth[picker.core] \in Nat
         /\ listDepth[picker.core] > 0 <=> pinnedThreads[picker.core] = current
<1>1. /\ current \in Threads /\ picker.core \in Cores /\ NoCore \notin Cores
      /\ NoThread \notin Threads /\ listDepth[picker.core] \in Nat
  <2>1. current \in Threads /\ NoThread \notin Threads
    BY SchedulerConstants, RunningFits
  <2>2. picker.core \in Cores /\ listDepth \in [Cores -> Nat]
    BY DEF SchedulerInv, TypeOK
  <2>3. NoCore \notin Cores
    BY DEF Cores, NoCore
  <2>4. QED
    BY <2>1, <2>2, <2>3
<1>2. /\ pinnedCore[current] \in {NoCore, picker.core}
      /\ pinnedThreads[picker.core] \in {NoThread, current}
  BY DEF SchedulerInv, PinsConsistent, PinExclusive
<1>3. pinnedCore[current] = picker.core <=> pinnedThreads[picker.core] = current
  BY <1>1 DEF SchedulerInv, PinsConsistent, PinsAgree
<1>4. listDepth[picker.core] > 0 <=> pinnedThreads[picker.core] # NoThread
  BY <1>1 DEF SchedulerInv, PinsConsistent, ListsPinned
<1>5. QED
  BY <1>1, <1>2, <1>3, <1>4

(* GX2BeginDisplayListEx pins the thread and its core to each other, or finds them pinned so. *)
LEMMA BeginListKeeps ==
  ASSUME SchedulerInv, BeginDisplayList
  PROVE  SchedulerInv'
<1> DEFINE c == picker.core
<1>1. /\ current # NoThread /\ stopped = "no" /\ UNCHANGED recorderSteady
      /\ current' = current /\ picker' = picker
  BY DEF BeginDisplayList, InGuest, Running, recorderSteady, threadVars
<1>2. /\ current \in Threads /\ c \in Cores /\ NoCore \notin Cores /\ NoThread \notin Threads
      /\ pinnedCore[current] \in {NoCore, c} /\ pinnedThreads[c] \in {NoThread, current}
      /\ pinnedCore[current] = c <=> pinnedThreads[c] = current
      /\ listDepth[c] \in Nat /\ (listDepth[c] > 0 <=> pinnedThreads[c] = current)
  BY <1>1, PinFacts
<1>3. TypeOK /\ PinsAgree /\ ListsPinned /\ PinExclusive
  BY DEF SchedulerInv, PinsConsistent
<1>4. ~(listDepth[c] = 0 /\ PinThrows)
  BY <1>2 DEF PinThrows
<1>5. /\ stopped' = "no" /\ listDepth' = [listDepth EXCEPT ![c] = @ + 1]
      /\ IF listDepth[c] = 0 THEN PinCurrentCore ELSE UNCHANGED <<pinnedCore, pinnedThreads>>
  BY <1>1, <1>4 DEF BeginDisplayList
<1>6. listDepth' \in [Cores -> Nat]
  BY <1>2, <1>3, <1>5 DEF TypeOK
<1>7. \A d \in Cores : listDepth'[d] = IF d = c THEN listDepth[d] + 1 ELSE listDepth[d]
  BY <1>3, <1>5 DEF TypeOK
<1>8. CASE listDepth[c] = 0
  <2>1. /\ pinnedCore' = [pinnedCore EXCEPT ![current] = c]
        /\ pinnedThreads' = [pinnedThreads EXCEPT ![c] = current]
    BY <1>5, <1>8 DEF PinCurrentCore
  <2>2. /\ pinnedCore' \in [Threads -> Cores \cup {NoCore}]
        /\ pinnedThreads' \in [Cores -> AnyThread]
    BY <1>2, <1>3, <2>1 DEF TypeOK, AnyThread
  <2>3. /\ \A t \in Threads : pinnedCore'[t] = IF t = current THEN c ELSE pinnedCore[t]
        /\ \A d \in Cores : pinnedThreads'[d] = IF d = c THEN current ELSE pinnedThreads[d]
    BY <1>3, <2>1 DEF TypeOK
  <2>4. pinnedCore[current] = NoCore /\ pinnedThreads[c] = NoThread
    BY <1>2, <1>8
  <2>5. \A t \in Threads, d \in Cores : pinnedThreads[d] = t <=> pinnedCore[t] = d
    BY <1>3 DEF PinsAgree
  <2>6. PinsAgree'
    <3> SUFFICES ASSUME NEW t \in Threads, NEW d \in Cores
                 PROVE  pinnedThreads'[d] = t <=> pinnedCore'[t] = d
      BY DEF PinsAgree
    <3>1. pinnedThreads[d] = t <=> pinnedCore[t] = d
      BY <2>5
    <3>2. QED
      BY <1>2, <2>3, <2>4, <3>1
  <2>7. PinExclusive'
    BY <1>1, <1>2, <2>3 DEF PinExclusive
  <2>8. ListsPinned'
    <3> SUFFICES ASSUME NEW d \in Cores
                 PROVE  listDepth'[d] > 0 <=> pinnedThreads'[d] # NoThread
      BY DEF ListsPinned
    <3>1. listDepth[d] > 0 <=> pinnedThreads[d] # NoThread
      BY <1>3 DEF ListsPinned
    <3>2. QED
      BY <1>2, <1>7, <2>3, <3>1
  <2>9. QED
    BY <1>1, <1>5, <1>6, <2>2, <2>6, <2>7, <2>8, RecorderKeeps DEF PinsConsistent
<1>9. CASE listDepth[c] # 0
  <2>1. pinnedCore' = pinnedCore /\ pinnedThreads' = pinnedThreads
    BY <1>5, <1>9
  <2>2. PinsAgree' /\ PinExclusive'
    BY <1>1, <1>3, <2>1 DEF PinsAgree, PinExclusive
  <2>3. ListsPinned'
    <3> SUFFICES ASSUME NEW d \in Cores
                 PROVE  listDepth'[d] > 0 <=> pinnedThreads'[d] # NoThread
      BY DEF ListsPinned
    <3>1. (listDepth[d] > 0 <=> pinnedThreads[d] # NoThread) /\ listDepth[d] \in Nat
      BY <1>3 DEF ListsPinned, TypeOK
    <3>2. QED
      BY <1>2, <1>7, <1>9, <2>1, <3>1
  <2>4. /\ pinnedCore' \in [Threads -> Cores \cup {NoCore}]
        /\ pinnedThreads' \in [Cores -> AnyThread]
    BY <1>3, <2>1 DEF TypeOK
  <2>5. QED
    BY <1>1, <1>5, <1>6, <2>2, <2>3, <2>4, RecorderKeeps DEF PinsConsistent
<1>10. QED
  BY <1>8, <1>9

(* GX2EndDisplayList of the outermost list unpins both. *)
LEMMA EndListKeeps ==
  ASSUME SchedulerInv, EndDisplayList
  PROVE  SchedulerInv'
<1> DEFINE c == picker.core
<1>1. /\ current # NoThread /\ stopped = "no" /\ UNCHANGED recorderSteady
      /\ current' = current /\ picker' = picker /\ pinnedCore[current] # NoCore
  BY DEF EndDisplayList, InGuest, Running, recorderSteady, threadVars
<1>2. /\ current \in Threads /\ c \in Cores /\ NoCore \notin Cores /\ NoThread \notin Threads
      /\ pinnedCore[current] = c /\ pinnedThreads[c] = current
      /\ listDepth[c] \in Nat /\ listDepth[c] > 0
  BY <1>1, PinFacts
<1>3. TypeOK /\ PinsAgree /\ ListsPinned /\ PinExclusive
  BY DEF SchedulerInv, PinsConsistent
<1>4. ~UnpinThrows
  BY <1>2 DEF UnpinThrows
<1>5. /\ stopped' = "no" /\ listDepth' = [listDepth EXCEPT ![c] = listDepth[c] - 1]
      /\ IF listDepth[c] <= 1 THEN UnpinCurrentCore ELSE UNCHANGED <<pinnedCore, pinnedThreads>>
  <2>1. (IF listDepth[c] = 0 THEN 0 ELSE listDepth[c] - 1) = listDepth[c] - 1
    BY <1>2
  <2>2. listDepth' = [listDepth EXCEPT ![c] = IF listDepth[c] = 0 THEN 0 ELSE listDepth[c] - 1]
    BY DEF EndDisplayList
  <2>3. /\ stopped' = "no"
        /\ IF listDepth[c] <= 1 THEN UnpinCurrentCore ELSE UNCHANGED <<pinnedCore, pinnedThreads>>
    BY <1>1, <1>4 DEF EndDisplayList, EndsOutermostList
  <2>4. QED
    BY <2>1, <2>2, <2>3
<1>6. listDepth' \in [Cores -> Nat]
  BY <1>2, <1>3, <1>5 DEF TypeOK
<1>7. \A d \in Cores : listDepth'[d] = IF d = c THEN listDepth[d] - 1 ELSE listDepth[d]
  BY <1>3, <1>5 DEF TypeOK
<1>8. CASE listDepth[c] <= 1
  <2>1. /\ pinnedCore' = [pinnedCore EXCEPT ![current] = NoCore]
        /\ pinnedThreads' = [pinnedThreads EXCEPT ![c] = NoThread]
    BY <1>5, <1>8 DEF UnpinCurrentCore
  <2>2. /\ pinnedCore' \in [Threads -> Cores \cup {NoCore}]
        /\ pinnedThreads' \in [Cores -> AnyThread]
    BY <1>2, <1>3, <2>1 DEF TypeOK, AnyThread
  <2>3. /\ \A t \in Threads : pinnedCore'[t] = IF t = current THEN NoCore ELSE pinnedCore[t]
        /\ \A d \in Cores : pinnedThreads'[d] = IF d = c THEN NoThread ELSE pinnedThreads[d]
    BY <1>3, <2>1 DEF TypeOK
  <2>4. PinsAgree'
    <3> SUFFICES ASSUME NEW t \in Threads, NEW d \in Cores
                 PROVE  pinnedThreads'[d] = t <=> pinnedCore'[t] = d
      BY DEF PinsAgree
    <3>1. pinnedThreads[d] = t <=> pinnedCore[t] = d
      BY <1>3 DEF PinsAgree
    <3>2. QED
      BY <1>2, <2>3, <3>1
  <2>5. PinExclusive'
    BY <1>1, <1>2, <2>3 DEF PinExclusive
  <2>6. ListsPinned'
    <3> SUFFICES ASSUME NEW d \in Cores
                 PROVE  listDepth'[d] > 0 <=> pinnedThreads'[d] # NoThread
      BY DEF ListsPinned
    <3>1. listDepth[d] > 0 <=> pinnedThreads[d] # NoThread
      BY <1>3 DEF ListsPinned
    <3>2. QED
      BY <1>2, <1>7, <1>8, <2>3, <3>1
  <2>7. QED
    BY <1>1, <1>5, <1>6, <2>2, <2>4, <2>5, <2>6, RecorderKeeps DEF PinsConsistent
<1>9. CASE ~(listDepth[c] <= 1)
  <2>1. pinnedCore' = pinnedCore /\ pinnedThreads' = pinnedThreads
    BY <1>5, <1>9
  <2>2. PinsAgree' /\ PinExclusive'
    BY <1>1, <1>3, <2>1 DEF PinsAgree, PinExclusive
  <2>3. ListsPinned'
    <3> SUFFICES ASSUME NEW d \in Cores
                 PROVE  listDepth'[d] > 0 <=> pinnedThreads'[d] # NoThread
      BY DEF ListsPinned
    <3>1. listDepth[d] > 0 <=> pinnedThreads[d] # NoThread
      BY <1>3 DEF ListsPinned
    <3>2. QED
      BY <1>2, <1>7, <1>9, <2>1, <3>1
  <2>4. /\ pinnedCore' \in [Threads -> Cores \cup {NoCore}]
        /\ pinnedThreads' \in [Cores -> AnyThread]
    BY <1>3, <2>1 DEF TypeOK
  <2>5. QED
    BY <1>1, <1>5, <1>6, <2>2, <2>3, <2>4, RecorderKeeps DEF PinsConsistent
<1>10. QED
  BY <1>8, <1>9

(* Every step of the scheduler and of the thread it runs. *)
LEMMA SchedulerStep == SchedulerInv /\ [Next]_vars => SchedulerInv'
<1> SUFFICES ASSUME SchedulerInv, [Next]_vars PROVE SchedulerInv'
  OBVIOUS
<1>0. MaxSlice \in 0 .. MaxSlice
  BY SchedulerConstants
<1>1. CASE BetweenSlices
  BY <1>1, DispatchKeeps, BeginCallbackKeeps, JumpClockKeeps, DeadlockKeeps, AudioKeeps
  DEF BetweenSlices
<1>2. CASE EndQuantum
  BY <1>0, <1>2, PreemptKeeps DEF EndQuantum, InGuest, Running, SchedulerInv, TypeOK
<1>3. CASE YieldThread
  <2>1. PICK e \in 0 .. MaxSlice : Elapse(e)
    BY <1>3 DEF YieldThread
  <2>2. QED
    BY <1>3, <2>1, PreemptKeeps DEF YieldThread, InGuest, Running, SchedulerInv, TypeOK
<1>4. CASE InSlice /\ ~EndQuantum /\ ~YieldThread
  BY <1>4, BlockKeeps, SleepKeeps, ExitKeeps, ReturnKeeps, WakeKeeps, QuietCalls,
     BeginListKeeps, EndListKeeps
  DEF InSlice
<1>5. CASE UNCHANGED vars
  <2>1. TypeOK' /\ ThreadsFit' /\ Queue(older)'
    BY <1>5 DEF vars, threadVars, SchedulerInv, TypeOK, ThreadsFit, Queue
  <2>2. PinsConsistent' /\ NeverThrows' /\ SleepersOnTime' /\ NoFalseDeadlock'
    BY <1>5 DEF vars, threadVars, SchedulerInv, PinsConsistent, PinsAgree, PinExclusive,
                ListsPinned, NeverThrows, SleepersOnTime, Sleepers, NoFalseDeadlock, Runnable,
                CoreAvailable
  <2>3. QED
    BY <2>1, <2>2 DEF SchedulerInv
<1>6. QED
  BY <1>1, <1>2, <1>3, <1>4, <1>5 DEF Next

(* The machine starts with the invariant. *)
LEMMA SchedulerStart == Init => SchedulerInv
<1> SUFFICES ASSUME Init PROVE SchedulerInv
  OBVIOUS
<1>1. TypeOK
  BY SchedulerConstants
  DEF Init, TypeOK, AnyThread, ThreadStates, Sites, NoneScheduled, Slots, Cores
<1>2. ThreadsFit
  BY SchedulerConstants DEF Init, ThreadsFit
<1>3. Queue(older)
  <2>1. /\ \A t \in Threads : ~(t < t)
        /\ \A t, u \in Threads : t = u \/ t < u \/ u < t
        /\ \A t, u, v \in Threads : t < u /\ u < v => t < v
    <3>1. Threads \subseteq Nat
      BY SchedulerConstants
    <3>2. QED
      BY <3>1
  <2>2. /\ older \subseteq Threads \X Threads
        /\ \A t, u \in Threads : <<t, u>> \in older <=> t < u
    BY DEF Init
  <2>3. QED
    BY <2>1, <2>2 DEF Queue
<1>4. PinsConsistent
  BY SchedulerConstants
  DEF Init, PinsConsistent, PinsAgree, PinExclusive, ListsPinned, NoCore, Cores
<1>5. NeverThrows /\ SleepersOnTime /\ NoFalseDeadlock
  BY DEF Init, NeverThrows, SleepersOnTime, NoFalseDeadlock
<1>6. QED
  BY <1>1, <1>2, <1>3, <1>4, <1>5 DEF SchedulerInv

(* Whatever threads there are, however they call and wherever they may run,  *)
(* the scheduler's state has its types and its invariant.                    *)
THEOREM SchedulerAlways == Spec => []SchedulerInv
BY SchedulerStart, SchedulerStep, PTL DEF Spec

(* Every variable of the scheduler keeps its type, the picker and the queue of callbacks
   included (Machine, machine.cpp). *)
THEOREM SchedulerTypes == Spec => []TypeOK
<1>1. SchedulerInv => TypeOK
  BY DEF SchedulerInv
<1>2. QED
  BY <1>1, SchedulerAlways, PTL

(* The records of a pin always agree, and a pinned core runs only its owner. *)
THEOREM PinsAlwaysConsistent == Spec => []PinsConsistent
<1>1. SchedulerInv => PinsConsistent
  BY DEF SchedulerInv
<1>2. QED
  BY <1>1, SchedulerAlways, PTL

(* Pinning and unpinning never throw.                                        *)
THEOREM PinningNeverThrows == Spec => []NeverThrows
<1>1. SchedulerInv => NeverThrows
  BY DEF SchedulerInv
<1>2. QED
  BY <1>1, SchedulerAlways, PTL

(* A deadlock is reported only when no core may run any ready thread.        *)
THEOREM DeadlocksAreReal == Spec => []NoFalseDeadlock
<1>1. SchedulerInv => NoFalseDeadlock
  BY DEF SchedulerInv
<1>2. QED
  BY <1>1, SchedulerAlways, PTL

(* No slice runs while a sleeper is late.                                    *)
THEOREM SleepersAlwaysOnTime == Spec => []SleepersOnTime
<1>1. SchedulerInv => SleepersOnTime
  BY DEF SchedulerInv
<1>2. QED
  BY <1>1, SchedulerAlways, PTL


-----------------------------------------------------------------------------
(* What a slice may begin with. *)

(* A slice begins by a dispatch or a callback, and in no other step.         *)
LEMMA SlicesBegin ==
  ASSUME SchedulerInv, [Next]_vars, current = NoThread, current' # NoThread
  PROVE  Dispatch \/ BeginCallback
BY DEF Next, BetweenSlices, InSlice, JumpClock, Deadlock, ServiceAudioFrame, EndQuantum,
       YieldThread, BlockCurrent, WakeWaiters, CompleteCall, UnlockWakes, SendWakes,
       CreateThread, ResumeThread, SleepCurrent, ExitCurrent, ReturnFromCallback,
       SetThreadAffinity, QueueCallback, BeginDisplayList, EndDisplayList, InGuest, Running,
       vars, threadVars

(* The thread that begins a slice may run on the core it gets.               *)
LEMMA PickMayRun ==
  ASSUME SchedulerInv, Dispatch \/ BeginCallback
  PROVE  MayRun(current', picker'.core)
<1>1. picker \in Pickers /\ NoThread \notin ReadyNow
  BY SchedulerConstants DEF SchedulerInv, TypeOK, Pickers, ReadyNow, Due, Sleepers
<1>2. CASE Dispatch
  <2>1. PICK first \in FirstPicks :
          /\ first.thread # NoThread
          /\ RunSlice(first.thread)
          /\ IF CallbackMayStart
             THEN \E second \in CallbackPicks(first) :
                    second.thread = NoThread /\ picker' = second.picker
             ELSE picker' = first.picker
    BY <1>2 DEF Dispatch
  <2>2. first.picker \in Pickers /\ MayRun(first.thread, first.picker.core)
    BY <1>1, <2>1, PicksFit DEF FirstPicks
  <2>3. picker'.core = first.picker.core
    <3>1. CASE CallbackMayStart
      <4>1. PICK second \in CallbackPicks(first) :
              second.thread = NoThread /\ picker' = second.picker
        BY <2>1, <3>1
      <4>2. second \in Select(first.picker, Head(pending))
        BY DEF CallbackPicks
      <4>3. QED
        BY <1>1, <2>2, <4>1, <4>2, PicksFit
    <3>2. CASE ~CallbackMayStart
      BY <2>1, <3>2
    <3>3. QED
      BY <3>1, <3>2
  <2>4. QED
    BY <2>1, <2>2, <2>3 DEF RunSlice
<1>3. CASE BeginCallback
  <2>1. PICK first \in FirstPicks : \E second \in CallbackPicks(first) :
          second.thread # NoThread /\ RunSlice(second.thread) /\ picker' = second.picker
    BY <1>3 DEF BeginCallback
  <2>2. PICK second \in CallbackPicks(first) :
          second.thread # NoThread /\ RunSlice(second.thread) /\ picker' = second.picker
    BY <2>1
  <2>3. first.picker \in Pickers
    BY <1>1, PicksFit DEF FirstPicks
  <2>4. MayRun(second.thread, second.picker.core)
    BY <2>2, <2>3, PicksFit DEF CallbackPicks
  <2>5. QED
    BY <2>2, <2>4 DEF RunSlice
<1>4. QED
  BY <1>2, <1>3

(* A thread is given a core outside its affinity only if it is pinned there  *)
(* or every core it may use is pinned by another thread.                     *)
THEOREM AffinityRespected == Spec => AffinityUnlessPinnedOut
<1> DEFINE Respects == current = NoThread /\ current' # NoThread =>
                         \/ picker'.core \in affinity[current'] \cup {pinnedCore[current']}
                         \/ \A c \in affinity[current'] : ~CoreAvailable(current', c)
<1>1. SchedulerInv /\ [Next]_vars => Respects
  BY SlicesBegin, PickMayRun DEF MayRun
<1>2. SchedulerInv /\ [Next]_vars => [Respects]_vars
  BY <1>1
<1>3. QED
  BY <1>2, SchedulerAlways, PTL DEF Spec, AffinityUnlessPinnedOut

-----------------------------------------------------------------------------
(* Priority, but for the thread a cross-core wake names. *)

(* A selection that does not return the woken thread is a round of tries,    *)
(* from the slot and with the exclusions it was given.                       *)
LEMMA UnhintedRound ==
  ASSUME SchedulerInv, NEW p \in Pickers, NEW excluded, NEW r \in Select(p, excluded),
         r.thread = NoThread \/ r.thread # p.wake
  PROVE  /\ r.picker \in Pickers
         /\ \/ r.thread = NoThread /\ r.picker.core = p.core
            \/ /\ r.thread \in ReadyNow
               /\ \E q \in Pickers, k \in Tries :
                    /\ q.scheduled = p.scheduled
                    /\ <<k, r.thread>> \in Winners(q, ReadyNow, EnqueuedAfter(older, Due), excluded)
                    /\ r.picker.core = CoreOrder[Skip(q, k).slot]
<1> DEFINE order == EnqueuedAfter(older, Due)
           ready == ReadyNow
           quiet == [p EXCEPT !.wake = NoThread]
<1>1. ready \in SUBSET Threads /\ NoThread \notin ready
  BY SchedulerConstants DEF ReadyNow, Due, Sleepers
<1>2. TypeOK
  BY DEF SchedulerInv
<1>3. quiet \in Pickers /\ quiet.scheduled = p.scheduled /\ quiet.core = p.core
  BY DEF Pickers, AnyThread
<1> HIDE DEF order, ready, quiet
<1>4. PICK q \in {p, quiet} : r \in SelectInRound(q, ready, order, excluded)
  <2>1. r \in SelectReady(p, ready, order, excluded)
    BY DEF Select, ready, order
  <2> DEFINE wakes == p.wake # NoThread /\ p.wake # excluded
             from == IF wakes THEN quiet ELSE p
             c == IF wakes /\ p.wake \in ready /\ affinity[p.wake] # {} THEN WakeCore(p, p.wake)
                  ELSE NoCore
  <2>2. r \in IF c # NoCore THEN {[thread |-> p.wake, picker |-> Schedule(from, p.wake, c)]}
             ELSE SelectInRound(from, ready, order, excluded)
    BY <2>1 DEF SelectReady, quiet
  <2>3. CASE c # NoCore
    <3>1. p.wake \in ready /\ r.thread = p.wake
      BY <2>2, <2>3
    <3>2. QED
      BY <1>1, <3>1
  <2>4. CASE c = NoCore
    <3> HIDE DEF c
    <3>1. r \in SelectInRound(from, ready, order, excluded)
      BY <2>2, <2>4
    <3>2. QED
      BY <3>1
  <2>5. QED
    BY <2>3, <2>4
<1>5. q \in Pickers /\ q.scheduled = p.scheduled /\ q.core = p.core
  BY <1>3
<1>6. RoundReturns(q, ready, order, excluded, r)
  BY ONLY <1>1, <1>2, <1>4, <1>5, RoundFits
<1>7. QED
  BY <1>5, <1>6 DEF RoundReturns, order, ready

(* A better thread that the core could run has had its turn in this round. *)
LEMMA BetterHadItsTurn ==
  ASSUME SchedulerInv, Dispatch, current' # picker.wake, NEW u \in Threads,
         state'[u] = "ready", Priority[u] < Priority[current'],
         picker'.core \in affinity[u], pinnedCore[u] \in {NoCore, picker'.core},
         CoreAvailable(u, picker'.core)
  PROVE  \E s \in Slots : picker.scheduled[s] = u
<1>1. picker \in Pickers /\ NoThread \notin ReadyNow
  BY SchedulerConstants DEF SchedulerInv, TypeOK, Pickers, ReadyNow, Due, Sleepers
<1>2. PICK first \in FirstPicks :
        /\ first.thread # NoThread
        /\ RunSlice(first.thread)
        /\ IF CallbackMayStart
           THEN \E second \in CallbackPicks(first) :
                  second.thread = NoThread /\ picker' = second.picker
           ELSE picker' = first.picker
  BY DEF Dispatch
<1> DEFINE t == first.thread
           order == EnqueuedAfter(older, Due)
<1>3. /\ first.picker \in Pickers
      /\ t \in ReadyNow
      /\ \E q \in Pickers, k \in Tries :
           /\ q.scheduled = picker.scheduled
           /\ <<k, t>> \in Winners(q, ReadyNow, order, NoThread)
           /\ first.picker.core = CoreOrder[Skip(q, k).slot]
  <2>1. t # picker.wake /\ t # NoThread
    BY <1>2 DEF RunSlice
  <2>2. QED
    BY <1>1, <2>1, UnhintedRound DEF FirstPicks
<1>4. picker'.core = first.picker.core
  <2>1. CASE CallbackMayStart
    <3>1. PICK second \in CallbackPicks(first) :
            second.thread = NoThread /\ picker' = second.picker
      BY <1>2, <2>1
    <3>2. second \in Select(first.picker, Head(pending))
      BY DEF CallbackPicks
    <3>3. QED
      BY <1>1, <1>3, <3>1, <3>2, UnhintedRound
  <2>2. CASE ~CallbackMayStart
    BY <1>2, <2>2
  <2>3. QED
    BY <2>1, <2>2
<1>5. PICK q \in Pickers, k \in Tries :
        /\ q.scheduled = picker.scheduled
        /\ <<k, t>> \in Winners(q, ReadyNow, order, NoThread)
        /\ picker'.core = CoreOrder[Skip(q, k).slot]
  BY <1>3, <1>4
<1>6. current' = t /\ state' = [Readied(Due) EXCEPT ![t] = "running"] /\ t \in Threads
  BY <1>2, <1>3 DEF RunSlice, ReadyNow, Due, Sleepers
<1> DEFINE found == Eligible(Skip(q, k), ReadyNow, NoThread)
<1>7. \A v \in found \ {t} : Precedes(order, t, v)
  BY <1>5 DEF Winners
<1>8. u \in ReadyNow /\ u # t /\ u # NoThread
  BY <1>6, SchedulerConstants DEF Readied, ReadyNow
<1>9. ASSUME u \in found PROVE FALSE
  <2>1. Precedes(order, t, u)
    BY <1>7, <1>8, <1>9
  <2>2. Priority[t] \in Nat /\ Priority[u] \in Nat /\ Priority[u] < Priority[t]
    BY <1>6, SchedulerConstants
  <2> HIDE DEF order, t
  <2>3. QED
    BY <2>1, <2>2 DEF Precedes
<1>10. \A s \in Slots : Skip(q, k).scheduled[s] \in {NoThread, picker.scheduled[s]}
  <2>1. k \in 0 .. 6
    BY DEF Tries
  <2>2. QED
    BY <1>5, <2>1, SkipFits
<1>11. ~(\A s \in Slots : Skip(q, k).scheduled[s] # u)
  BY <1>5, <1>8, <1>9 DEF Eligible
<1>12. QED
  BY <1>8, <1>10, <1>11

(* The best thread that is ready for a core and has not run in the round is  *)
(* the one the core gets: only the thread that the last cross-core wake      *)
(* names is ever preferred to it.                                            *)
THEOREM BestThreadRuns == Spec => LowestPriorityWins
<1> DEFINE Wins ==
      current = NoThread /\ current' \notin {NoThread, picker.wake} /\ UNCHANGED callbackThread =>
        \A u \in Threads :
          (/\ state'[u] = "ready" /\ Priority[u] < Priority[current']
           /\ picker'.core \in affinity[u] /\ pinnedCore[u] \in {NoCore, picker'.core}
           /\ CoreAvailable(u, picker'.core))
          => \E s \in Slots : picker.scheduled[s] = u
<1>1. SchedulerInv /\ [Next]_vars => Wins
  <2> SUFFICES ASSUME SchedulerInv, [Next]_vars, current = NoThread,
                      current' \notin {NoThread, picker.wake}, UNCHANGED callbackThread
               PROVE  Wins
    OBVIOUS
  <2>1. ~BeginCallback
    BY DEF BeginCallback, CallbackMayStart
  <2>2. Dispatch
    BY <2>1, SlicesBegin
  <2>3. QED
    BY <2>2, BetterHadItsTurn
<1>2. SchedulerInv /\ [Next]_vars => [Wins]_vars
  BY <1>1
<1>3. QED
  BY <1>2, SchedulerAlways, PTL DEF Spec, LowestPriorityWins

-----------------------------------------------------------------------------
(* The scheduler is the thread machine its clients are written against.      *)

(* Between slices: the thread that begins one was ready, or asleep and due.  *)
LEMMA BeginsAsThread ==
  ASSUME SchedulerInv, NEW t \in ReadyNow, current = NoThread, RunSlice(t)
  PROVE  ThreadMachine!Run(t, Due)
<1>1. Due \subseteq ThreadMachine!Sleepers
  BY DueFits DEF ThreadMachine!Sleepers
<1>2. t \in Threads /\ (state[t] = "ready" \/ t \in Due)
  BY DueFits DEF ReadyNow
<1>3. state' = [u \in Threads |-> IF u = t THEN "running"
                                  ELSE IF u \in Due THEN "ready" ELSE state[u]]
  BY <1>2 DEF RunSlice, Readied
<1>4. QED
  BY <1>1, <1>2, <1>3 DEF RunSlice, EnqueueAll, ThreadMachine!Run, ThreadMachine!EnqueueAll

(* To the thread machine a dispatch is the start of a slice of a ready thread. *)
LEMMA DispatchIsThreadStep ==
  ASSUME SchedulerInv, Dispatch
  PROVE  ThreadMachine!ThreadNext
<1>1. picker \in Pickers
  BY DEF SchedulerInv, TypeOK, Pickers
<1>2. PICK first \in FirstPicks : first.thread # NoThread /\ RunSlice(first.thread)
  BY DEF Dispatch
<1>3. first.thread \in ReadyNow
  BY <1>1, <1>2, PicksFit DEF FirstPicks
<1>4. ThreadMachine!Run(first.thread, Due)
  BY <1>2, <1>3, BeginsAsThread DEF Dispatch
<1>5. ThreadMachine!Dispatch(first.thread, Due)
  BY <1>4 DEF Dispatch, ThreadMachine!Dispatch
<1>6. first.thread \in Threads /\ Due \in SUBSET ThreadMachine!Sleepers
  BY <1>3, <1>4 DEF ReadyNow, Due, Sleepers, ThreadMachine!Run
<1>7. QED
  BY <1>5, <1>6 DEF ThreadMachine!ThreadNext, ThreadMachine!BetweenSlices

(* And a callback the borrowing of one. *)
LEMMA BeginCallbackIsThreadStep ==
  ASSUME SchedulerInv, BeginCallback
  PROVE  ThreadMachine!ThreadNext
<1>1. picker \in Pickers
  BY DEF SchedulerInv, TypeOK, Pickers
<1>2. PICK first \in FirstPicks : \E second \in CallbackPicks(first) :
        /\ second.thread # NoThread /\ RunSlice(second.thread)
        /\ callbackThread' = second.thread /\ savedPc' = pc[second.thread]
        /\ pc' = [pc EXCEPT ![second.thread] = "guest"]
  BY DEF BeginCallback
<1>3. PICK second \in CallbackPicks(first) :
        /\ second.thread # NoThread /\ RunSlice(second.thread)
        /\ callbackThread' = second.thread /\ savedPc' = pc[second.thread]
        /\ pc' = [pc EXCEPT ![second.thread] = "guest"]
  BY <1>2
<1>4. first.picker \in Pickers
  BY <1>1, PicksFit DEF FirstPicks
<1>5. second.thread \in ReadyNow
  BY <1>3, <1>4, PicksFit DEF CallbackPicks
<1>6. ThreadMachine!Run(second.thread, Due)
  BY <1>3, <1>5, BeginsAsThread DEF BeginCallback
<1>7. ThreadMachine!BeginCallback(second.thread, Due)
  BY <1>3, <1>6 DEF BeginCallback, CallbackMayStart, ThreadMachine!BeginCallback
<1>8. second.thread \in Threads /\ Due \in SUBSET ThreadMachine!Sleepers
  BY <1>5, <1>6 DEF ReadyNow, Due, Sleepers, ThreadMachine!Run
<1>9. QED
  BY <1>7, <1>8 DEF ThreadMachine!ThreadNext, ThreadMachine!BetweenSlices

(* Nobody can run: the sleepers whose time has come, and at a jump of the    *)
(* clock the next one, become ready.                                         *)
LEMMA IdleIsThreadStep ==
  ASSUME SchedulerInv, JumpClock \/ Deadlock
  PROVE  ThreadMachine!ThreadNext
<1>1. SUFFICES ASSUME NEW W \in SUBSET Sleepers, current = NoThread, state' = Readied(W),
                      waitObject' = [u \in Threads |-> IF u \in W THEN NoObject ELSE waitObject[u]],
                      UNCHANGED <<current, pc, callbackThread, savedPc>>
               PROVE  ThreadMachine!ThreadNext
  <2>1. CASE JumpClock
    <3> DEFINE late == Sleepers \ Due
               t == Earliest(late)
    <3>1. t \in late
      <4>1. late \in SUBSET Threads /\ remaining \in [Threads -> Nat] /\ late # {}
        BY <2>1 DEF JumpClock, Sleepers, SchedulerInv, TypeOK
      <4>2. QED
        BY <4>1, EarliestFits
    <3>2. Due \cup {t} \in SUBSET Sleepers
      BY <3>1, DueFits
    <3>3. /\ current = NoThread /\ state' = Readied(Due \cup {t})
          /\ waitObject' = [u \in Threads |-> IF u \in Due \cup {t} THEN NoObject ELSE waitObject[u]]
          /\ UNCHANGED <<current, pc, callbackThread, savedPc>>
      BY <2>1 DEF JumpClock, NobodyToRun
    <3> HIDE DEF t
    <3>4. QED
      BY <3>2, <3>3
  <2>2. CASE Deadlock
    BY <2>2, DueFits DEF Deadlock, NobodyToRun, EnqueueAll
  <2>3. QED
    BY <2>1, <2>2
<1>2. W \in SUBSET ThreadMachine!Sleepers
  BY DEF SchedulerInv, ThreadsFit, Sleepers, ThreadMachine!Sleepers
<1>3. ThreadMachine!WakeSleepers(W)
  BY <1>1, <1>2 DEF Readied, ThreadMachine!WakeSleepers, ThreadMachine!EnqueueAll
<1>4. QED
  BY <1>2, <1>3 DEF ThreadMachine!ThreadNext, ThreadMachine!BetweenSlices

(* The running thread waits on no object, so enqueueing it moves none.       *)
LEMMA PreemptsAsThread ==
  ASSUME SchedulerInv, current # NoThread, NEW W \in SUBSET Threads,
         current' = NoThread, state' = Readied(W \cup {current}),
         waitObject' = [u \in Threads |-> IF u \in W THEN NoObject ELSE waitObject[u]],
         pc[current] = "guest", UNCHANGED <<pc, callbackThread, savedPc>>
  PROVE  ThreadMachine!Reschedule(W, "guest")
<1>1. pc' = [pc EXCEPT ![current] = "guest"]
  <2>1. pc \in [Threads -> Sites]
    BY DEF SchedulerInv, TypeOK
  <2>2. QED
    BY <2>1
<1>2. QED
  BY <1>1 DEF Readied, ThreadMachine!Reschedule, ThreadMachine!EnqueueAll, ThreadMachine!SetPc

(* The end of a slice and a yield put the running thread back among the ready ones. *)
LEMMA PreemptIsThreadStep ==
  ASSUME SchedulerInv, EndQuantum \/ YieldThread
  PROVE  ThreadMachine!ThreadNext
<1>1. current # NoThread /\ pc[current] = "guest" /\ Preempt
      /\ UNCHANGED <<pc, callbackThread, savedPc>>
  BY DEF EndQuantum, YieldThread, InGuest, Running
<1>2. current \in Threads /\ waitObject[current] = NoObject
  BY <1>1, RunningFits
<1>3. waitObject \in [Threads -> Objects \cup {NoObject}] /\ state \in [Threads -> ThreadStates]
  BY DEF SchedulerInv, TypeOK
<1>4. waitObject' = [u \in Threads |-> IF u \in {} THEN NoObject ELSE waitObject[u]]
  BY <1>1, <1>2, <1>3 DEF Preempt, EnqueueAll
<1>5. current' = NoThread /\ state' = Readied({} \cup {current})
  BY <1>1, <1>3 DEF Preempt, Readied
<1>6. ThreadMachine!Reschedule({}, "guest")
  BY <1>1, <1>4, <1>5, PreemptsAsThread
<1>7. QED
  BY <1>6 DEF ThreadMachine!ThreadNext, ThreadMachine!InSlice, Sites


(* A wake from which the caller goes on. *)
LEMMA ContinuesAsThread ==
  ASSUME SchedulerInv, InGuest("unlock") \/ InGuest("rendezvous"),
         NEW W \in SUBSET Threads, \A t \in W : state[t] = "waiting",
         state' = Readied(W), EnqueueAll(W),
         UNCHANGED <<current, pc, callbackThread, savedPc>>
  PROVE  ThreadMachine!ThreadNext
<1>1. current # NoThread /\ pc[current] = "guest"
  BY DEF InGuest, Running
<1>2. pc' = [pc EXCEPT ![current] = "guest"]
  BY <1>1 DEF SchedulerInv, TypeOK
<1>3. ThreadMachine!Continue(W, "guest")
  BY <1>1, <1>2 DEF Readied, EnqueueAll, ThreadMachine!Continue, ThreadMachine!EnqueueAll,
                    ThreadMachine!SetPc
<1>4. W \in SUBSET ThreadMachine!Wakeable
  BY DEF ThreadMachine!Wakeable
<1>5. QED
  BY <1>3, <1>4 DEF ThreadMachine!ThreadNext, ThreadMachine!InSlice, Sites

(* A wake that gives up the slice. *)
LEMMA WakesAndYieldsAsThread ==
  ASSUME SchedulerInv, NEW u \in Threads, SendWakes(u) \/ ResumeThread(u)
  PROVE  ThreadMachine!ThreadNext
<1>1. /\ current # NoThread /\ pc[current] = "guest" /\ current' = NoThread
      /\ state' = Readied({u, current})
      /\ waitObject' = [waitObject EXCEPT ![u] = NoObject]
      /\ UNCHANGED <<pc, callbackThread, savedPc>>
      /\ state[u] \in {"waiting", "suspended"}
  BY DEF SendWakes, ResumeThread, InGuest, Running
<1>2. state' = Readied({u} \cup {current})
  BY <1>1 DEF Readied
<1>3. waitObject' = [t \in Threads |-> IF t \in {u} THEN NoObject ELSE waitObject[t]]
  BY <1>1 DEF SchedulerInv, TypeOK
<1>4. ThreadMachine!Reschedule({u}, "guest")
  BY <1>1, <1>2, <1>3, PreemptsAsThread
<1>5. {u} \in SUBSET ThreadMachine!Wakeable
  BY <1>1 DEF ThreadMachine!Wakeable
<1>6. QED
  BY <1>4, <1>5 DEF ThreadMachine!ThreadNext, ThreadMachine!InSlice, Sites

(* The other ends of a slice and the calls that move no thread but one. *)
LEMMA CallIsThreadStep ==
  ASSUME SchedulerInv,
         \/ \E o \in Objects : BlockCurrent(o)
         \/ CompleteCall
         \/ \E d \in SleepTimes : SleepCurrent(d)
         \/ ExitCurrent
         \/ ReturnFromCallback
         \/ \E u \in Threads : CreateThread(u)
  PROVE  ThreadMachine!ThreadNext
<1>0. /\ pc \in [Threads -> Sites] /\ state \in [Threads -> ThreadStates]
      /\ waitObject \in [Threads -> Objects \cup {NoObject}]
  BY DEF SchedulerInv, TypeOK
<1> USE DEF ThreadMachine!ThreadNext, ThreadMachine!InSlice, ThreadMachine!SetPc, Sites
<1>1. ASSUME NEW o \in Objects, BlockCurrent(o) PROVE ThreadMachine!ThreadNext
  <2>1. ThreadMachine!Block(o, "call")
    BY <1>1 DEF BlockCurrent, Running, ThreadMachine!Block
  <2>2. QED
    BY <2>1
<1>2. CASE CompleteCall
  <2>1. state' = [u \in Threads |-> IF u \in {} THEN "ready" ELSE state[u]]
    BY <1>0, <1>2 DEF CompleteCall
  <2>2. waitObject' = [u \in Threads |-> IF u \in {} THEN NoObject ELSE waitObject[u]]
    BY <1>0, <1>2 DEF CompleteCall
  <2>3. ThreadMachine!Continue({}, "guest")
    BY <1>2, <2>1, <2>2 DEF CompleteCall, Running, ThreadMachine!Continue,
                            ThreadMachine!EnqueueAll
  <2>4. QED
    BY <2>3
<1>3. ASSUME NEW d \in SleepTimes, SleepCurrent(d) PROVE ThreadMachine!ThreadNext
  <2>1. pc' = [pc EXCEPT ![current] = "guest"]
    BY <1>0, <1>3 DEF SleepCurrent, InGuest
  <2>2. ThreadMachine!Sleep
    BY <1>3, <2>1 DEF SleepCurrent, InGuest, Running, ThreadMachine!Sleep, ThreadMachine!Block
  <2>3. QED
    BY <2>2
<1>4. CASE ExitCurrent
  <2>1. ThreadMachine!Exit
    BY <1>4 DEF ExitCurrent, InCallback, InGuest, Running, ThreadMachine!Exit,
                ThreadMachine!InCallback
  <2>2. QED
    BY <2>1
<1>5. CASE ReturnFromCallback
  <2>1. waitObject[current] = NoObject
    BY <1>5, RunningFits DEF ReturnFromCallback
  <2>2. UNCHANGED waitObject
    BY <1>0, <1>5, <2>1 DEF ReturnFromCallback, Preempt, EnqueueAll
  <2>3. ThreadMachine!ReturnFromCallback
    BY <1>5, <2>2 DEF ReturnFromCallback, InCallback, Preempt,
                      ThreadMachine!ReturnFromCallback, ThreadMachine!InCallback
  <2>4. QED
    BY <2>3
<1>6. ASSUME NEW u \in Threads, CreateThread(u) PROVE ThreadMachine!ThreadNext
  <2>1. ThreadMachine!Create(u)
    BY <1>6 DEF CreateThread, InGuest, Running, ThreadMachine!Create
  <2>2. QED
    BY <2>1
<1>7. QED
  BY <1>1, <1>2, <1>3, <1>4, <1>5, <1>6

(* The rounds, the queue, the pins and the pending callbacks are the         *)
(* scheduler's own: what changes only them changes no thread.                *)
LEMMA NextIsThreadStep ==
  SchedulerInv /\ [Next]_vars => [ThreadMachine!ThreadNext]_(ThreadMachine!threadVars)
<1> SUFFICES ASSUME SchedulerInv, [Next]_vars
             PROVE  ThreadMachine!ThreadNext \/ UNCHANGED threadVars
  BY DEF threadVars, ThreadMachine!threadVars
<1>1. CASE BetweenSlices
  BY <1>1, DispatchIsThreadStep, BeginCallbackIsThreadStep, IdleIsThreadStep
     DEF BetweenSlices, ServiceAudioFrame
<1>2. ASSUME NEW u \in Threads, UnlockWakes(u) PROVE ThreadMachine!ThreadNext
  <2>1. /\ InGuest("unlock") /\ \A t \in {u} : state[t] = "waiting"
        /\ state' = Readied({u}) /\ EnqueueAll({u})
        /\ UNCHANGED <<current, pc, callbackThread, savedPc>>
    BY <1>2 DEF UnlockWakes
  <2>2. QED
    BY <2>1, ContinuesAsThread
<1>3. ASSUME NEW o \in Objects, WakeWaiters(o) PROVE ThreadMachine!ThreadNext
  <2> DEFINE W == {t \in Threads : state[t] = "waiting" /\ waitObject[t] = o}
  <2>1. /\ InGuest("rendezvous") /\ state' = Readied(W) /\ EnqueueAll(W)
        /\ UNCHANGED <<current, pc, callbackThread, savedPc>>
    BY <1>3 DEF WakeWaiters
  <2>2. W \in SUBSET Threads /\ \A t \in W : state[t] = "waiting"
    OBVIOUS
  <2> HIDE DEF W
  <2>3. QED
    BY <2>1, <2>2, ContinuesAsThread
<1>4. CASE \/ \E u \in Threads, mask \in Masks : SetThreadAffinity(u, mask)
           \/ QueueCallback \/ BeginDisplayList \/ EndDisplayList
  BY <1>4 DEF SetThreadAffinity, QueueCallback, BeginDisplayList, EndDisplayList, recorderSteady
<1>5. CASE InSlice
  BY <1>2, <1>3, <1>4, <1>5, PreemptIsThreadStep, WakesAndYieldsAsThread, CallIsThreadStep
     DEF InSlice
<1>6. CASE UNCHANGED vars
  BY <1>6 DEF vars
<1>7. QED
  BY <1>1, <1>5, <1>6 DEF Next

(* Machine is one of the thread machines the mutexes, events and message     *)
(* queues are written against: every step of its runs, between slices or in  *)
(* one, is a step CafeThreads allows, or leaves the threads as they are.     *)
THEOREM SchedulerImplementsThreads == Spec => RefinesThreads
<1>1. Init => ThreadMachine!ThreadInit
  BY DEF Init, ThreadMachine!ThreadInit
<1>2. SchedulerInv /\ [Next]_vars => [ThreadMachine!ThreadNext]_(ThreadMachine!threadVars)
  BY NextIsThreadStep
<1>3. QED
  BY <1>1, <1>2, SchedulerAlways, PTL DEF Spec, RefinesThreads, ThreadMachine!ThreadSpec
=============================================================================
