-------------------------- MODULE CafeExecutionProofs --------------------------
(***************************************************************************)
(* Proofs about what carries the guest's code out: guest memory, the       *)
(* handlers of library calls, the recompiled blocks and the decoders of    *)
(* instructions.  They share no state; each has its inductive invariant.   *)
(***************************************************************************)
EXTENDS CafeMemory, CafeCallMachine, CafeNative, CafeInstructions, FiniteSetTheorems,
        SequenceTheorems, WellFoundedInduction, TLAPS

(***************************************************************************)
(* Guest memory.  Mappings stay apart, and on that rests that every check  *)
(* is exact, for every size of the address space, its pages and its        *)
(* mappings.                                                               *)
(***************************************************************************)
Mappings == [address : Nat, size : Nat \ {0}, rights : SUBSET Rights]

\* The inductive invariant.
MemoryInv ==
  /\ mappings \in Seq(Mappings)
  /\ cached \in Nat
  /\ MappingsApart

(***************************************************************************)
(* Searching.                                                              *)
(***************************************************************************)
\* A set of naturals that is not empty has a least element.
LEMMA LeastElement ==
  ASSUME NEW S \in SUBSET Nat, S # {}
  PROVE  \E m \in S : \A n \in S : m <= n
<1> DEFINE Less == {p \in Nat \X Nat : p[1] < p[2]}
<1>1. IsWellFoundedOn(Less, Nat)
  <2>1. OpToRel(<, Nat) = Less
    BY DEF OpToRel
  <2> QED BY <2>1, NatLessThanWellFounded
<1>2. \A n, m \in Nat : n < m => <<n, m>> \in Less
  OBVIOUS
<1> HIDE DEF Less
<1>3. PICK m \in S : \A n \in S : <<n, m>> \notin Less
  BY <1>1, WFMin
<1>4. ASSUME NEW n \in S PROVE m <= n
  <2>1. ~(n < m)
    BY <1>2, <1>3
  <2>2. QED
    BY <2>1
<1>5. QED
  BY <1>4

\* What the invariant says of single mappings.
LEMMA MappingFacts ==
  ASSUME MemoryInv
  PROVE  /\ Len(mappings) \in Nat
         /\ DOMAIN mappings = 1 .. Len(mappings)
         /\ \A i \in DOMAIN mappings :
              /\ mappings[i] \in Mappings
              /\ mappings[i].address \in Nat
              /\ mappings[i].size \in Nat \ {0}
              /\ mappings[i].rights \in SUBSET Rights
         /\ \A i, j \in DOMAIN mappings :
              i < j => mappings[i].address + mappings[i].size <= mappings[j].address
<1>1. Len(mappings) \in Nat /\ DOMAIN mappings = 1 .. Len(mappings)
  BY DEF MemoryInv
<1>2. \A i \in DOMAIN mappings : mappings[i] \in Mappings
  BY <1>1, ElementOfSeq DEF MemoryInv
<1>3. QED
  BY <1>1, <1>2 DEF Mappings, MemoryInv, MappingsApart, MapEnd

\* lower_bound: the mappings before it are those that begin below a.
LEMMA LowerBoundFacts ==
  ASSUME MemoryInv, NEW a \in Nat
  PROVE  /\ LowerBound(a) \in 1 .. Len(mappings) + 1
         /\ \A i \in DOMAIN mappings : i < LowerBound(a) <=> mappings[i].address < a
<1> DEFINE Below == {i \in DOMAIN mappings : mappings[i].address < a}
           Others == {n \in 1 .. Len(mappings) + 1 : n \notin Below}
<1>1. Len(mappings) + 1 \in Others
  BY MappingFacts
<1>2. PICK m \in Others : \A n \in Others : m <= n
  <2>1. Others \in SUBSET Nat /\ Others # {}
    BY <1>1, MappingFacts
  <2> HIDE DEF Others
  <2> QED BY <2>1, LeastElement
<1>3. m \in 1 .. Len(mappings) + 1
  BY <1>2
<1>4. Below = 1 .. m - 1
  <2>1. ASSUME NEW i \in 1 .. m - 1 PROVE i \in Below
    <3>1. i \in 1 .. Len(mappings) + 1 /\ ~(m <= i)
      BY <1>3, <2>1, MappingFacts
    <3>2. QED
      BY <1>2, <3>1
  <2>2. ASSUME NEW i \in Below PROVE i \in 1 .. m - 1
    <3>1. m \notin Below
      BY <1>2
    <3>2. ASSUME m <= i PROVE FALSE
      <4>1. m \in DOMAIN mappings /\ i \in DOMAIN mappings
        BY <1>3, <3>2, MappingFacts
      <4>2. mappings[m].address >= a /\ mappings[i].address < a
        BY <3>1, <4>1, MappingFacts
      <4>3. QED
        BY <3>2, <4>1, <4>2, MappingFacts
    <3>3. QED
      BY <1>3, <3>2, MappingFacts
  <2>3. QED
    BY <2>1, <2>2
<1>5. LowerBound(a) = m
  <2>1. 1 \in Int /\ m - 1 \in Int /\ m \in Nat /\ m >= 1
    BY <1>3, MappingFacts
  <2>2. Cardinality(1 .. m - 1) = IF 1 > m - 1 THEN 0 ELSE (m - 1) - 1 + 1
    BY <2>1, FS_Interval, Zenon
  <2>3. Cardinality(1 .. m - 1) = m - 1
    BY <2>1, <2>2
  <2>4. LowerBound(a) = Cardinality(1 .. m - 1) + 1
    BY <1>4, Zenon DEF LowerBound
  <2>5. QED
    BY <2>1, <2>3, <2>4
<1>6. \A i \in DOMAIN mappings : i \in Below <=> i < m
  BY <1>3, <1>4, MappingFacts
<1>7. QED
  BY <1>3, <1>5, <1>6

\* The search of check finds the mapping that holds an access, if there is one.
LEMMA CandidateFacts ==
  ASSUME MemoryInv, NEW a \in Nat
  PROVE  /\ Candidate(a) \in 0 .. Len(mappings)
         /\ \A width \in Nat \ {0} : \A i \in DOMAIN mappings :
              Holds(mappings[i], a, width) => Candidate(a) = i
<1> DEFINE next == LowerBound(a)
<1>1. next \in 1 .. Len(mappings) + 1
  BY LowerBoundFacts
<1>2. \A i \in DOMAIN mappings : i < next <=> mappings[i].address < a
  BY LowerBoundFacts
<1>3. Candidate(a) = IF next \in DOMAIN mappings /\ mappings[next].address = a
                     THEN next ELSE next - 1
  BY DEF Candidate
<1> HIDE DEF next
<1>4. Candidate(a) \in 0 .. Len(mappings)
  BY <1>1, <1>3, MappingFacts
<1>5. ASSUME NEW width \in Nat \ {0}, NEW i \in DOMAIN mappings, Holds(mappings[i], a, width)
      PROVE  Candidate(a) = i
  <2>1. mappings[i].address <= a /\ a < mappings[i].address + mappings[i].size
    BY <1>5, MappingFacts DEF Holds, MapEnd
  <2>2. CASE mappings[i].address = a
    <3>1. ~(i < next)
      BY <1>2, <2>2, MappingFacts
    <3>2. ASSUME next < i PROVE FALSE
      <4>1. next \in DOMAIN mappings
        BY <1>1, <3>2, MappingFacts
      <4>2. mappings[next].address < a
        BY <2>2, <3>2, <4>1, MappingFacts
      <4>3. QED
        BY <1>1, <1>2, <4>1, <4>2
    <3>3. next = i
      BY <1>1, <3>1, <3>2, MappingFacts
    <3>4. QED
      BY <1>3, <2>2, <3>3
  <2>3. CASE mappings[i].address < a
    <3>1. i < next
      BY <1>2, <2>3
    <3>2. ASSUME i + 1 < next PROVE FALSE
      <4>1. i + 1 \in DOMAIN mappings
        BY <1>1, <3>2, MappingFacts
      <4>2. mappings[i + 1].address < a
        BY <1>2, <3>2, <4>1
      <4>3. QED
        BY <2>1, <4>1, <4>2, MappingFacts
    <3>3. next = i + 1
      BY <1>1, <3>1, <3>2, MappingFacts
    <3>4. next \in DOMAIN mappings => mappings[next].address # a
      BY <2>1, <3>3, MappingFacts
    <3>5. QED
      BY <1>1, <1>3, <3>3, <3>4, MappingFacts
  <2>4. QED
    BY <2>1, <2>2, <2>3, MappingFacts
<1>6. QED
  BY <1>4, <1>5

(***************************************************************************)
(* Checks.                                                                 *)
(***************************************************************************)
\* An access of any width is let through exactly if one mapping holds it and
\* gives the right, whatever the last check remembered.
LEMMA AccessExact ==
  ASSUME MemoryInv, NEW a \in Nat, NEW width \in Nat \ {0}, NEW right
  PROVE  CheckAccess(a, width, right) = "ok"
           <=> \E i \in DOMAIN mappings :
                 Holds(mappings[i], a, width) /\ right \in mappings[i].rights
<1>1. ASSUME CheckAccess(a, width, right) = "ok"
      PROVE  \E i \in DOMAIN mappings :
               Holds(mappings[i], a, width) /\ right \in mappings[i].rights
  <2>1. CASE InCached(a, width)
    BY <1>1, <2>1 DEF CheckAccess, InCached, Permit
  <2>2. CASE ~InCached(a, width)
    <3>1. /\ Candidate(a) # 0 /\ Holds(mappings[Candidate(a)], a, width)
          /\ right \in mappings[Candidate(a)].rights
      BY <1>1, <2>2 DEF CheckAccess, Permit
    <3>2. Candidate(a) \in DOMAIN mappings
      BY <3>1, CandidateFacts, MappingFacts
    <3>3. QED
      BY <3>1, <3>2
  <2>3. QED
    BY <2>1, <2>2
<1>2. ASSUME NEW i \in DOMAIN mappings, Holds(mappings[i], a, width),
             right \in mappings[i].rights
      PROVE  CheckAccess(a, width, right) = "ok"
  <2>1. Candidate(a) = i
    BY <1>2, CandidateFacts
  <2>2. i # 0
    BY MappingFacts
  <2>3. CASE InCached(a, width)
    <3>1. cached = i
      BY <2>1, <2>3, CandidateFacts DEF InCached
    <3>2. QED
      BY <1>2, <2>3, <3>1 DEF CheckAccess, Permit
  <2>4. CASE ~InCached(a, width)
    BY <1>2, <2>1, <2>2, <2>4 DEF CheckAccess, Permit
  <2>5. QED
    BY <2>3, <2>4
<1>3. QED
  BY <1>1, <1>2

\* Among mappings that follow each other without a gap one holds each byte.
LEMMA RangeHasMapping ==
  ASSUME MemoryInv, NEW a \in Nat, NEW size \in Nat, NEW right,
         ValidRange(a, size, right), NEW at \in a .. a + size - 1
  PROVE  \E i \in DOMAIN mappings : Holds(mappings[i], at, 1) /\ right \in mappings[i].rights
<1>1. size # 0
  OBVIOUS
<1>2. PICK first, last \in DOMAIN mappings :
        /\ mappings[first].address <= a /\ a < MapEnd(mappings[first])
        /\ mappings[last].address < a + size /\ a + size <= MapEnd(mappings[last])
        /\ \A i \in first .. last : right \in mappings[i].rights
        /\ \A i \in first .. last - 1 : MapEnd(mappings[i]) = mappings[i + 1].address
  BY <1>1 DEF ValidRange
<1>3. first \in Nat /\ last \in Nat /\ at \in Nat /\ a <= at /\ at < a + size
  BY MappingFacts
<1>4. first <= last
  <2> DEFINE low == mappings[last]
             high == mappings[first]
  <2>1. /\ low.address \in Nat /\ high.address \in Nat /\ high.size \in Nat
        /\ last < first => low.address + low.size <= high.address
        /\ low.size \in Nat \ {0} /\ MapEnd(low) = low.address + low.size
    BY <1>2, MappingFacts DEF MapEnd
  <2>2. a + size <= MapEnd(low) /\ high.address <= a
    BY <1>2
  <2> HIDE DEF low, high
  <2>3. QED
    BY ONLY <1>1, <1>3, <2>1, <2>2, a \in Nat, size \in Nat
<1> DEFINE Ends == {i \in first .. last : at < MapEnd(mappings[i])}
<1>5. PICK m \in Ends : \A n \in Ends : m <= n
  <2>1. last \in Ends
    <3>1. MapEnd(mappings[last]) \in Nat
      BY MappingFacts DEF MapEnd
    <3>2. at < MapEnd(mappings[last]) /\ last \in first .. last
      BY <1>2, <1>3, <1>4, <3>1
    <3>3. QED
      BY <3>2
  <2>2. Ends \in SUBSET Nat
    BY <1>3
  <2> HIDE DEF Ends
  <2>3. QED
    BY <2>1, <2>2, LeastElement
<1>6. m \in first .. last /\ m \in DOMAIN mappings /\ at < MapEnd(mappings[m])
  BY <1>3, <1>5, MappingFacts
<1>7. mappings[m].address <= at
  <2>1. CASE m = first
    BY <1>2, <1>3, <2>1, MappingFacts
  <2>2. CASE m # first
    <3>1. m - 1 \in first .. last /\ m - 1 \in first .. last - 1 /\ m - 1 \in DOMAIN mappings
      BY <1>3, <1>6, <2>2, MappingFacts
    <3>2. m - 1 \notin Ends
      BY <1>3, <1>5, <1>6
    <3>3. MapEnd(mappings[m - 1]) <= at
      <4>1. MapEnd(mappings[m - 1]) \in Nat
        <5>1. mappings[m - 1].address \in Nat /\ mappings[m - 1].size \in Nat
          BY <3>1, MappingFacts
        <5>2. QED
          BY ONLY <5>1 DEF MapEnd
      <4>2. ~(at < MapEnd(mappings[m - 1]))
        BY <3>1, <3>2
      <4>3. QED
        BY ONLY <1>3, <4>1, <4>2
    <3>4. MapEnd(mappings[m - 1]) = mappings[m].address
      BY <1>2, <1>3, <1>6, <3>1
    <3>5. QED
      BY <3>3, <3>4
  <2>3. QED
    BY <2>1, <2>2
<1>8. Holds(mappings[m], at, 1)
  BY <1>3, <1>6, <1>7, MappingFacts DEF Holds, MapEnd
<1>9. QED
  BY <1>2, <1>6, <1>8

\* A search over sorted mappings that are apart finds the one that decides.
LEMMA InvChecksExact == MemoryInv => ChecksExact
<1> SUFFICES ASSUME MemoryInv PROVE ChecksExact
  OBVIOUS
<1>1. Addresses \subseteq Nat
  BY MemoryConstants DEF Addresses
<1>2. CheckIsExact
  BY <1>1, AccessExact, MemoryConstants DEF CheckIsExact
<1>3. ValidatedBytesAccessible
  <2> SUFFICES ASSUME NEW a \in Addresses, NEW size \in RangeSizes, NEW right \in Rights,
                      ValidRange(a, size, right), NEW at \in a .. a + size - 1
               PROVE  CheckAccess(at, 1, right) = "ok"
    BY DEF ValidatedBytesAccessible
  <2>1. a \in Nat /\ size \in Nat /\ at \in Nat
    BY <1>1, MemoryConstants
  <2>2. QED
    BY <2>1, RangeHasMapping, AccessExact
<1>4. QED
  BY <1>2, <1>3 DEF ChecksExact

(***************************************************************************)
(* Steps.                                                                  *)
(***************************************************************************)
\* The mappings after one was inserted.
LEMMA InsertedMappings ==
  ASSUME MemoryInv, NEW n \in 1 .. Len(mappings) + 1, NEW new \in Mappings,
         NEW after,
         after = SubSeq(mappings, 1, n - 1) \o <<new>> \o SubSeq(mappings, n, Len(mappings))
  PROVE  /\ after \in Seq(Mappings)
         /\ Len(after) = Len(mappings) + 1
         /\ \A i \in 1 .. Len(mappings) + 1 :
              after[i] = IF i < n THEN mappings[i]
                         ELSE IF i = n THEN new ELSE mappings[i - 1]
<1> DEFINE head == SubSeq(mappings, 1, n - 1)
           tail == SubSeq(mappings, n, Len(mappings))
           front == head \o <<new>>
<1>1. n \in Nat /\ Len(mappings) \in Nat
  BY MappingFacts
<1>2. /\ head \in Seq(Mappings) /\ Len(head) = n - 1
      /\ \A i \in 1 .. n - 1 : head[i] = mappings[i]
  <2>1. \A i \in 1 .. n - 1 : mappings[i] \in Mappings
    BY <1>1, MappingFacts
  <2>2. /\ head \in Seq(Mappings)
        /\ Len(head) = IF 1 <= n - 1 THEN (n - 1) - 1 + 1 ELSE 0
        /\ \A i \in 1 .. (n - 1) - 1 + 1 : head[i] = mappings[1 + i - 1]
    BY <1>1, <2>1, SubSeqProperties
  <2>3. QED
    BY <1>1, <2>2
<1>3. /\ tail \in Seq(Mappings) /\ Len(tail) = Len(mappings) - n + 1
      /\ \A i \in 1 .. Len(mappings) - n + 1 : tail[i] = mappings[n + i - 1]
  <2>1. \A i \in n .. Len(mappings) : mappings[i] \in Mappings
    BY <1>1, MappingFacts
  <2>2. /\ tail \in Seq(Mappings)
        /\ Len(tail) = IF n <= Len(mappings) THEN Len(mappings) - n + 1 ELSE 0
        /\ \A i \in 1 .. Len(mappings) - n + 1 : tail[i] = mappings[n + i - 1]
    BY <1>1, <2>1, SubSeqProperties
  <2>3. QED
    BY <1>1, <2>2
<1>4. <<new>> \in Seq(Mappings) /\ Len(<<new>>) = 1 /\ <<new>>[1] = new
  OBVIOUS
<1>5. after = front \o tail
  OBVIOUS
<1> HIDE DEF head, tail
<1>6. /\ front \in Seq(Mappings) /\ Len(front) = n
      /\ \A i \in 1 .. n : front[i] = IF i < n THEN mappings[i] ELSE new
  <2>1. /\ front \in Seq(Mappings)
        /\ Len(front) = Len(head) + Len(<<new>>)
        /\ \A i \in 1 .. Len(head) + Len(<<new>>) :
             front[i] = IF i <= Len(head) THEN head[i] ELSE <<new>>[i - Len(head)]
    BY <1>2, <1>4, ConcatProperties
  <2>2. QED
    BY <1>1, <1>2, <1>4, <2>1
<1> HIDE DEF front
<1>7. /\ front \o tail \in Seq(Mappings)
      /\ Len(front \o tail) = Len(front) + Len(tail)
      /\ \A i \in 1 .. Len(front) + Len(tail) :
           (front \o tail)[i] = IF i <= Len(front) THEN front[i] ELSE tail[i - Len(front)]
  BY <1>3, <1>6, ConcatProperties
<1>8. \A i \in 1 .. Len(mappings) + 1 :
        (front \o tail)[i] = IF i < n THEN mappings[i]
                             ELSE IF i = n THEN new ELSE mappings[i - 1]
  BY <1>1, <1>3, <1>6, <1>7
<1>9. Len(front \o tail) = Len(mappings) + 1
  BY <1>1, <1>3, <1>6, <1>7
<1>10. QED
  BY <1>7, <1>8, <1>9, <1>5, Zenon

\* A mapping that passes the check of map goes between its neighbours and meets neither.
LEMMA MapKeepsApart ==
  ASSUME MemoryInv, NEW a \in Addresses, NEW size \in MapSizes, NEW rights \in MapRights,
         NEW initial, Map(a, size, rights, initial)
  PROVE  MemoryInv'
<1> DEFINE n == LowerBound(a)
           new == [address |-> a, size |-> size, rights |-> rights]
<1>1. a \in Nat /\ size \in Nat \ {0} /\ new \in Mappings
  BY MemoryConstants DEF Addresses, Mappings, Rights
<1>2. n \in 1 .. Len(mappings) + 1
  BY <1>1, LowerBoundFacts
<1>3. /\ n \in DOMAIN mappings => a + size <= mappings[n].address
      /\ n > 1 => MapEnd(mappings[n - 1]) <= a
  BY DEF Map, FitsBetween
<1>4. mappings' = SubSeq(mappings, 1, n - 1) \o <<new>> \o SubSeq(mappings, n, Len(mappings))
  BY DEF Map
<1>5. new.address = a /\ new.size = size
  OBVIOUS
<1> HIDE DEF n, new
<1>6. /\ mappings' \in Seq(Mappings)
      /\ Len(mappings') = Len(mappings) + 1
      /\ \A i \in 1 .. Len(mappings) + 1 :
           mappings'[i] = IF i < n THEN mappings[i] ELSE IF i = n THEN new ELSE mappings[i - 1]
  <2>1. new \in Mappings
    BY <1>1
  <2>2. \A after :
          after = SubSeq(mappings, 1, n - 1) \o <<new>> \o SubSeq(mappings, n, Len(mappings))
            => /\ after \in Seq(Mappings)
               /\ Len(after) = Len(mappings) + 1
               /\ \A i \in 1 .. Len(mappings) + 1 :
                    after[i] = IF i < n THEN mappings[i]
                               ELSE IF i = n THEN new ELSE mappings[i - 1]
    BY ONLY MemoryInv, <1>2, <2>1, InsertedMappings, ZenonT(30)
  <2>3. QED
    BY ONLY <1>4, <2>2, Zenon
<1>7. DOMAIN mappings' = 1 .. Len(mappings) + 1 /\ Len(mappings) \in Nat
  BY <1>6, MappingFacts
<1>8. ASSUME NEW i \in DOMAIN mappings', NEW j \in DOMAIN mappings', i < j
      PROVE  mappings'[i].address + mappings'[i].size <= mappings'[j].address
  <2>1. i \in 1 .. Len(mappings) + 1 /\ j \in 1 .. Len(mappings) + 1 /\ n \in Nat
    BY <1>2, <1>7
  <2>2. CASE j < n
    <3>1. i \in DOMAIN mappings /\ j \in DOMAIN mappings
      BY <1>2, <1>7, <1>8, <2>1, <2>2, MappingFacts
    <3>2. mappings'[i] = mappings[i] /\ mappings'[j] = mappings[j]
      BY <1>6, <1>8, <2>1, <2>2
    <3>3. QED
      BY <1>8, <3>1, <3>2, MappingFacts
  <2>3. CASE j = n
    <3>1. n > 1 /\ n - 1 \in DOMAIN mappings /\ i \in DOMAIN mappings /\ i <= n - 1
      BY <1>2, <1>7, <1>8, <2>1, <2>3, MappingFacts
    <3>2. mappings'[i] = mappings[i] /\ mappings'[j] = new
      BY <1>6, <1>8, <2>1, <2>3
    <3>3. mappings[n - 1].address + mappings[n - 1].size <= a
      BY <1>3, <3>1 DEF MapEnd
    <3>4. mappings[i].address + mappings[i].size <= a
      <4>1. /\ mappings[n - 1].address \in Nat /\ mappings[n - 1].size \in Nat
            /\ mappings[i].address \in Nat /\ mappings[i].size \in Nat
        BY <3>1, MappingFacts
      <4>2. i = n - 1 \/ mappings[i].address + mappings[i].size <= mappings[n - 1].address
        BY <1>7, <3>1, MappingFacts
      <4>3. QED
        BY ONLY <1>1, <3>3, <4>1, <4>2
    <3>5. QED
      BY <1>5, <3>2, <3>4
  <2>4. CASE i = n
    <3>1. n \in DOMAIN mappings /\ j - 1 \in DOMAIN mappings /\ n <= j - 1
      BY <1>2, <1>7, <1>8, <2>1, <2>4, MappingFacts
    <3>2. mappings'[i] = new /\ mappings'[j] = mappings[j - 1]
      BY <1>6, <1>8, <2>1, <2>4
    <3>3. a + size <= mappings[n].address
      BY <1>3, <3>1
    <3>4. a + size <= mappings[j - 1].address
      <4>1. /\ mappings[n].address \in Nat /\ mappings[n].size \in Nat
            /\ mappings[j - 1].address \in Nat
        BY <3>1, MappingFacts
      <4>2. j - 1 = n \/ mappings[n].address + mappings[n].size <= mappings[j - 1].address
        <5>1. n < j - 1 => mappings[n].address + mappings[n].size <= mappings[j - 1].address
          BY <3>1, MappingFacts, Zenon
        <5>2. j - 1 = n \/ n < j - 1
          BY ONLY <1>7, <2>1, <3>1
        <5>3. QED
          BY ONLY <5>1, <5>2
      <4>3. QED
        BY ONLY <1>1, <3>3, <4>1, <4>2
    <3>5. QED
      BY <1>5, <3>2, <3>4
  <2>5. CASE i < n /\ n < j
    <3>1. /\ n - 1 \in DOMAIN mappings /\ i \in DOMAIN mappings /\ i <= n - 1 /\ i < j - 1
          /\ j - 1 \in DOMAIN mappings
      BY <1>2, <1>7, <2>1, <2>5, MappingFacts
    <3>2. mappings'[i] = mappings[i] /\ mappings'[j] = mappings[j - 1]
      BY <1>6, <2>1, <2>5
    <3>3. QED
      BY <3>1, <3>2, MappingFacts
  <2>6. CASE n < i
    <3>1. i - 1 \in DOMAIN mappings /\ j - 1 \in DOMAIN mappings /\ i - 1 < j - 1
      BY <1>2, <1>7, <1>8, <2>1, <2>6, MappingFacts
    <3>2. mappings'[i] = mappings[i - 1] /\ mappings'[j] = mappings[j - 1]
      BY <1>6, <1>8, <2>1, <2>6
    <3>3. QED
      BY <3>1, <3>2, MappingFacts
  <2>7. QED
    BY <1>8, <2>1, <2>2, <2>3, <2>4, <2>5, <2>6
<1>9. MappingsApart'
  BY <1>8 DEF MappingsApart, MapEnd
<1>10. cached' \in Nat
  BY DEF Map, MemoryInv
<1>11. QED
  BY <1>6, <1>9, <1>10 DEF MemoryInv

\* Any other call leaves the mappings alone and remembers an index.
LEMMA RememberedIsIndex ==
  ASSUME MemoryInv, NEW a \in Nat, NEW width
  PROVE  Remembered(a, width) \in Nat
BY CandidateFacts, MappingFacts DEF Remembered, MemoryInv

\* No step of guest memory breaks the invariant: only map changes the mappings.
LEMMA MemoryStep == MemoryInv /\ [MemoryNext]_memoryVars => MemoryInv'
<1> SUFFICES ASSUME MemoryInv, [MemoryNext]_memoryVars PROVE MemoryInv'
  OBVIOUS
<1>1. ASSUME UNCHANGED mappings, cached' \in Nat PROVE MemoryInv'
  BY <1>1 DEF MemoryInv, MappingsApart, MapEnd
<1>2. CASE UNCHANGED memoryVars
  BY <1>1, <1>2 DEF memoryVars, MemoryInv
<1>3. ASSUME NEW a \in Addresses, NEW size \in MapSizes, NEW rights \in MapRights,
             NEW initial, Map(a, size, rights, initial)
      PROVE  MemoryInv'
  BY <1>3, MapKeepsApart
<1>4. Addresses \subseteq Nat
  BY MemoryConstants DEF Addresses
<1>5. ASSUME NEW a \in Addresses, NEW width, ReadMemory(a, width) PROVE MemoryInv'
  BY <1>1, <1>4, <1>5, RememberedIsIndex DEF ReadMemory
<1>6. ASSUME NEW a \in Addresses, NEW bytes, Write(a, bytes) \/ Patch(a, bytes)
      PROVE  MemoryInv'
  BY <1>1, <1>4, <1>6, RememberedIsIndex DEF Write, Patch
<1>7. ASSUME NEW a \in Addresses, NEW bytes, WriteRange(a, bytes) PROVE MemoryInv'
  BY <1>1, <1>7 DEF WriteRange, MemoryInv
<1>8. QED
  BY <1>2, <1>3, <1>5, <1>6, <1>7 DEF MemoryNext

\* The mappings stay in order and apart and the remembered index stays a number, in every
\* reachable state (memory.cpp, map_region and the searches).
THEOREM MemoryInvariant == MemorySpec => []MemoryInv
<1>1. MemoryInit => MemoryInv
  <2> SUFFICES ASSUME MemoryInit PROVE MemoryInv
    OBVIOUS
  <2>1. mappings \in Seq(Mappings) /\ DOMAIN mappings = {} /\ cached \in Nat
    BY DEF MemoryInit
  <2>2. QED
    BY <2>1 DEF MemoryInv, MappingsApart
<1>2. QED
  BY <1>1, MemoryStep, PTL DEF MemorySpec

\* Mappings never overlap and stay in order, in every address space.
THEOREM MappingsStayApart == MemorySpec => []MappingsApart
BY MemoryInvariant, PTL DEF MemoryInv

\* Checks of accesses and of ranges are exact in every address space: neither a
\* remembered index that has moved nor a border between two mappings lets an
\* access through that no mapping holds, or refuses one that a mapping holds.
THEOREM ChecksStayExact == MemorySpec => []ChecksExact
BY MemoryInvariant, InvChecksExact, PTL

(***************************************************************************)
(* Bytes.                                                                  *)
(***************************************************************************)
\* An address is in one page, at one place of it.
LEMMA PageOfAddress ==
  ASSUME NEW a \in Nat
  PROVE  /\ a \div PageSize \in Nat /\ a % PageSize \in 0 .. PageSize - 1
         /\ (a \div PageSize) * PageSize + (a % PageSize) = a
<1>1. PageSize \in Nat \ {0}
  BY MemoryConstants
<1>2. a \div PageSize \in Nat /\ a % PageSize \in 0 .. PageSize - 1
  BY <1>1
<1>3. (a \div PageSize) * PageSize + (a % PageSize) = a
  BY <1>1, Z3
<1>4. QED
  BY <1>2, <1>3, Zenon

\* A store reaches the bytes it is for and no other, on whichever pages they are.
LEMMA StoredBytes ==
  ASSUME NEW a \in Nat, NEW bytes, pages' = Stored(a, bytes), NEW at \in Nat
  PROVE  PageByte(at)' = IF at >= a /\ at - a + 1 \in DOMAIN bytes
                         THEN bytes[at - a + 1] ELSE PageByte(at)
<1> DEFINE reached == {(a + i - 1) \div PageSize : i \in DOMAIN bytes}
           page == at \div PageSize
           place == at % PageSize
<1>1. page \in Nat /\ place \in 0 .. PageSize - 1 /\ page * PageSize + place = at
  BY PageOfAddress, Zenon DEF page, place
<1>2. /\ DOMAIN pages' = DOMAIN pages \cup reached
      /\ \A q \in DOMAIN pages \cup reached, r \in 0 .. PageSize - 1 :
           pages'[q][r] = IF (q * PageSize + r) - a + 1 \in DOMAIN bytes /\ q * PageSize + r >= a
                          THEN bytes[(q * PageSize + r) - a + 1] ELSE PageByte(q * PageSize + r)
  BY DEF Stored
<1>3. PageByte(at)' = IF page \in DOMAIN pages' THEN pages'[page][place] ELSE 0
  BY DEF PageByte
<1>4. PageByte(at) = IF page \in DOMAIN pages THEN pages[page][place] ELSE 0
  BY DEF PageByte
<1>5. at >= a /\ at - a + 1 \in DOMAIN bytes => page \in reached
  <2>1. ASSUME at >= a, at - a + 1 \in DOMAIN bytes PROVE page \in reached
    <3>1. a + (at - a + 1) - 1 = at
      OBVIOUS
    <3>2. QED
      BY <2>1, <3>1
  <2>2. QED
    BY <2>1
<1> HIDE DEF reached, page, place
<1>6. CASE page \in DOMAIN pages \cup reached
  <2>1. pages'[page][place] = IF at - a + 1 \in DOMAIN bytes /\ at >= a
                       THEN bytes[at - a + 1] ELSE PageByte(at)
    BY <1>1, <1>2, <1>6
  <2>2. page \in DOMAIN pages'
    BY <1>2, <1>6
  <2>3. QED
    BY <1>3, <2>1, <2>2
<1>7. CASE page \notin DOMAIN pages \cup reached
  BY <1>2, <1>3, <1>4, <1>5, <1>7
<1>8. QED
  BY <1>6, <1>7

\* A store changes the pages and the ghost alike.
LEMMA StorePairs ==
  ASSUME ReadsLastWrite, NEW a \in Addresses, NEW bytes,
         pages' = Stored(a, bytes), flat' = Overlaid(a, bytes)
  PROVE  ReadsLastWrite'
<1>1. a \in Nat
  BY MemoryConstants DEF Addresses
<1> SUFFICES ASSUME NEW at \in Addresses PROVE PageByte(at)' = flat'[at]
  BY DEF ReadsLastWrite
<1>2. at \in Nat
  BY MemoryConstants DEF Addresses
<1>3. flat'[at] = IF at >= a /\ at - a + 1 \in DOMAIN bytes THEN bytes[at - a + 1] ELSE flat[at]
  BY DEF Overlaid
<1>4. PageByte(at) = flat[at]
  BY DEF ReadsLastWrite
<1>5. PageByte(at)' = IF at >= a /\ at - a + 1 \in DOMAIN bytes
                      THEN bytes[at - a + 1] ELSE PageByte(at)
  BY <1>1, <1>2, StoredBytes
<1>6. QED
  BY <1>3, <1>4, <1>5

\* Whatever the size of a page, and however stores cross its borders, every
\* address reads what was stored there last, or zero.
THEOREM MemoryReadsLastWrite == MemorySpec => []ReadsLastWrite
<1>1. MemoryInit => ReadsLastWrite
  BY DEF MemoryInit, ReadsLastWrite, PageByte
<1>2. ReadsLastWrite /\ [MemoryNext]_memoryVars => ReadsLastWrite'
  <2> SUFFICES ASSUME ReadsLastWrite, [MemoryNext]_memoryVars PROVE ReadsLastWrite'
    OBVIOUS
  <2>1. CASE UNCHANGED <<pages, flat>>
    BY <2>1 DEF ReadsLastWrite, PageByte
  <2>2. ASSUME NEW a \in Addresses, NEW bytes, pages' = Stored(a, bytes),
               flat' = Overlaid(a, bytes)
        PROVE  ReadsLastWrite'
    BY <2>2, StorePairs
  <2>3. QED
    BY <2>1, <2>2
    DEF MemoryNext, Map, ReadMemory, Write, Patch, WriteRange, memoryVars
<1>3. QED
  BY <1>1, <1>2, PTL DEF MemorySpec

(***************************************************************************)
(* Library calls.  A handler that faults leaves behind what LeftBehind     *)
(* names and nothing else: FaultIsContained for every set of calls that    *)
(* ChecksFirst and CallsAssumption describe, on operands in any of the     *)
(* layouts.  The invariant says what a validation that was passed still    *)
(* guarantees, and that an effect on an operand means an effective step on *)
(* it was reached.                                                         *)
(***************************************************************************)
\* The program and the operands fit together, and the step is in range.
CallInv ==
  /\ call \in DOMAIN Calls
  /\ where \in [Operands(Calls[call]) -> Layouts \cup {NoOperand}]
  /\ \A o \in DOMAIN where : where[o] = NoOperand => o \in Calls[call].optional
  /\ step \in Nat \ {0}
  /\ step <= Len(Steps) + 1
  /\ begun => step <= Len(Steps)

\* What was validated on the way is still so.
PassedInv ==
  \A k \in DOMAIN Steps :
    k < step /\ Steps[k].op \in Validation /\ ~Missing(Steps[k])
      => Passes(Steps[k], where[Steps[k].on])

\* An effect comes from an effective step on that operand, finished or begun.
EffectInv ==
  \A o \in effects :
    \E i \in DOMAIN Steps :
      /\ i < step \/ (i = step /\ begun /\ Steps[i].op \in InParts)
      /\ Steps[i].op \in Effective /\ Steps[i].on = o

ContainedInv == CallInv /\ (outcome = "running" => PassedInv /\ EffectInv) /\ FaultIsContained

\* A mapping that can be written can be read.
LEMMA WritableIsReadable ==
  \A l \in Layouts : /\ "write" \in l.head => "read" \in l.head
                     /\ "write" \in l.tail => "read" \in l.tail
BY DEF Layouts, Layout, ReadOnly, ReadWrite, Code

\* Once a handler has changed what it may not leave, its next step is sure.
LEMMA SureAfterEffect ==
  ASSUME CallInv, EffectInv, ~(effects \subseteq Left(call)), step \in DOMAIN Steps
  PROVE  Sure(Steps, step)
<1>1. PICK i \in DOMAIN Steps : /\ i < step \/ (i = step /\ begun /\ Steps[i].op \in InParts)
                                /\ Steps[i].op \in Effective /\ Steps[i].on \notin Left(call)
  BY DEF EffectInv
<1>2. Steps \in Seq(StepSet)
  BY CallsAssumption DEF CallInv, Steps
<1>3. Preflighted(Calls[call], Left(call))
  BY ChecksFirst DEF CallInv
<1>4. CASE i < step
  <2>1. step \in i + 1 .. Len(Steps)
    BY <1>2, <1>4 DEF CallInv
  <2> QED BY <1>1, <1>3, <2>1 DEF Preflighted, Steps
<1>5. CASE i = step /\ Steps[i].op \in InParts
  BY <1>1, <1>3, <1>5 DEF Preflighted, Steps
<1> QED BY <1>1, <1>4, <1>5

\* A sure step that is not skipped is let through by GuestMemory.
LEMMA SureGoesOn ==
  ASSUME CallInv, PassedInv, step \in DOMAIN Steps, Sure(Steps, step),
         Current.op # "set", ~Missing(Current)
  PROVE  /\ Current.op # "check"
         /\ Current.right \in where[Current.on].head
         /\ Current.right \in where[Current.on].tail
         /\ Current.op \in InOneMapping \cup {"write words"} => ~where[Current.on].split
<1> DEFINE s == Steps[step]
<1>1. PICK k \in 1 .. step - 1 :
        /\ Steps[k].op \in Validation
        /\ Steps[k].on = s.on /\ Steps[k].given = s.given
        /\ \/ Steps[k].right = s.right
           \/ Steps[k].right = "write" /\ s.right = "read"
        /\ s.op \in InOneMapping \cup {"write words"} => Steps[k].op = "validate"
        /\ s.op # "check"
  BY DEF Sure, Current
<1>2. Steps \in Seq(StepSet)
  BY CallsAssumption DEF CallInv, Steps
<1>3. k \in DOMAIN Steps /\ k < step
  BY <1>2 DEF CallInv
<1>4. ~Missing(Steps[k])
  BY <1>1 DEF Missing, Current
<1>5. Passes(Steps[k], where[s.on])
  BY <1>1, <1>3, <1>4 DEF PassedInv
<1>6. s.on \in Operands(Calls[call]) /\ (s.on \in Calls[call].optional => s.given = s.on)
  <2>1. /\ s.op \in {"check", "set"} <=> s.on = "host"
        /\ s.on \in Calls[call].optional => s.given = s.on
    BY CallsAssumption DEF CallInv, Steps
  <2> QED BY <1>1, <2>1 DEF Current, Operands, Steps
<1>7. where[s.on] \in Layouts
  <2>1. s.on # "host"
    BY <1>6 DEF Operands
  <2>2. where[s.on] = NoOperand => s.given = s.on
    BY <1>6 DEF CallInv
  <2>3. where[s.on] # NoOperand
    BY <2>1, <2>2 DEF Missing, Current
  <2> QED BY <1>6, <2>3 DEF CallInv
<1>8. s.right \in where[s.on].head /\ s.right \in where[s.on].tail
  BY <1>1, <1>5, <1>7, WritableIsReadable DEF Passes
<1>9. Steps[k].op = "validate" => ~where[s.on].split
  BY <1>5 DEF Passes, InOneMapping
<1> QED BY <1>1, <1>8, <1>9 DEF Current

\* A step that faults comes after effects that may be left only.
LEMMA FaultingStep ==
  ASSUME ContainedInv, outcome = "running", step <= Len(Steps), CallFaults,
         Check \/ Access \/ StoreHead \/ StoreTail, UNCHANGED <<call, where>>
  PROVE  FaultIsContained'
<1> SUFFICES ASSUME ~(effects \subseteq Left(call))
             PROVE  FALSE
  BY DEF FaultIsContained, CallFaults, Left
<1>1. Steps \in Seq(StepSet)
  BY CallsAssumption DEF ContainedInv, CallInv, Steps
<1>2. step \in DOMAIN Steps
  BY <1>1 DEF ContainedInv, CallInv
<1>3. Sure(Steps, step)
  BY <1>2, SureAfterEffect DEF ContainedInv
<1>4. Current.op # "set" /\ ~Missing(Current)
  BY DEF Check, Access, StoreHead, StoreTail, InParts
<1>5. /\ Current.op # "check"
      /\ Current.right \in where[Current.on].head
      /\ Current.right \in where[Current.on].tail
      /\ Current.op \in InOneMapping \cup {"write words"} => ~where[Current.on].split
  BY <1>2, <1>3, <1>4, SureGoesOn DEF ContainedInv
<1>6. Current.op \in InParts => Current.right = "write"
  BY <1>2, CallsAssumption DEF ContainedInv, CallInv, Current, Steps
<1>7. step' = step /\ begun' = begun
  BY DEF CallFaults
<1>8. step + 1 # step
  BY <1>2, <1>1
<1>9. CASE Check
  BY <1>5, <1>9 DEF Check
<1>10. CASE Access
  BY <1>5, <1>7, <1>8, <1>10 DEF Access, Passes, Advance
<1>11. CASE StoreHead
  BY <1>5, <1>6, <1>7, <1>11 DEF StoreHead
<1>12. CASE StoreTail
  BY <1>5, <1>6, <1>7, <1>8, <1>12 DEF StoreTail, Advance
<1> QED BY <1>9, <1>10, <1>11, <1>12

\* A step that goes on keeps what it knows.
LEMMA AdvancingStep ==
  ASSUME ContainedInv, outcome = "running", step <= Len(Steps), Advance,
         UNCHANGED <<call, where>>,
         Current.op \in Validation /\ ~Missing(Current) => Passes(Current, where[Current.on]),
         effects' = effects \/ (Current.op \in Effective /\ effects' = effects \cup {Current.on})
  PROVE  ContainedInv'
<1>1. Steps \in Seq(StepSet) /\ Steps' = Steps
  BY CallsAssumption DEF ContainedInv, CallInv, Steps
<1>2. CallInv'
  BY <1>1 DEF ContainedInv, CallInv, Advance
<1>3. step \in DOMAIN Steps /\ step < step + 1
  BY <1>1 DEF ContainedInv, CallInv
<1>4. PassedInv'
  <2> SUFFICES ASSUME NEW k \in DOMAIN Steps, k < step + 1, Steps[k].op \in Validation,
                      ~Missing(Steps[k])
               PROVE  Passes(Steps[k], where[Steps[k].on])
    BY <1>1 DEF PassedInv, Missing, Advance
  <2>1. k < step \/ k = step
    BY <1>1, <1>3
  <2> QED BY <2>1 DEF ContainedInv, PassedInv, Current
<1>5. EffectInv'
  <2> SUFFICES ASSUME NEW o \in effects'
               PROVE  \E i \in DOMAIN Steps :
                        i < step + 1 /\ Steps[i].op \in Effective /\ Steps[i].on = o
    BY <1>1 DEF EffectInv, Advance
  <2>1. CASE Current.op \in Effective /\ o = Current.on
    BY <1>3, <2>1 DEF Current
  <2>2. CASE o \in effects
    <3>1. PICK i \in DOMAIN Steps :
            (i < step \/ i = step) /\ Steps[i].op \in Effective /\ Steps[i].on = o
      BY <2>2 DEF ContainedInv, EffectInv
    <3> QED BY <1>1, <1>3, <3>1
  <2> QED BY <2>1, <2>2
<1>6. FaultIsContained'
  BY DEF FaultIsContained, Advance
<1> QED BY <1>2, <1>4, <1>5, <1>6 DEF ContainedInv

\* FaultIsContained for every program and layout: a handler of the Cafe
\* libraries that faults leaves nothing changed but what LeftBehind names.
THEOREM FaultsAreContained == CallSpec => []FaultIsContained
<1>1. CallInit => ContainedInv
  <2> SUFFICES ASSUME CallInit PROVE ContainedInv
    OBVIOUS
  <2>1. Steps \in Seq(StepSet)
    BY CallsAssumption DEF CallInit, Steps
  <2>2. Len(Steps) \in Nat
    BY <2>1
  <2>3. CallInv
    BY <2>2 DEF CallInit, CallInv
  <2> QED BY <2>1, <2>3 DEF CallInit, ContainedInv, PassedInv, EffectInv, FaultIsContained
<1>2. ContainedInv /\ [CallNext]_callVars => ContainedInv'
  <2> SUFFICES ASSUME ContainedInv, [CallNext]_callVars PROVE ContainedInv'
    OBVIOUS
  <2>1. CASE UNCHANGED callVars
    BY <2>1 DEF callVars, ContainedInv, CallInv, PassedInv, EffectInv, FaultIsContained, Missing, Steps
  <2>2. CASE CallNext
    <3>1. outcome = "running" /\ UNCHANGED <<call, where>>
      BY <2>2 DEF CallNext
    <3>2. Steps \in Seq(StepSet) /\ Steps' = Steps
      BY <3>1, CallsAssumption DEF ContainedInv, CallInv, Steps
    <3>3. CASE Return
      BY <3>1, <3>2, <3>3 DEF Return, ContainedInv, CallInv, FaultIsContained
    <3>4. CASE CallFaults /\ step <= Len(Steps) /\ (Check \/ Access \/ StoreHead \/ StoreTail)
      <4>1. FaultIsContained'
        BY <3>1, <3>4, FaultingStep
      <4> QED BY <3>1, <3>2, <3>4, <4>1 DEF CallFaults, ContainedInv, CallInv
    <3>5. CASE Skip /\ step <= Len(Steps)
      BY <3>1, <3>5, AdvancingStep DEF Skip
    <3>6. CASE Check /\ Advance /\ effects' = effects /\ step <= Len(Steps)
      BY <3>1, <3>6, AdvancingStep DEF Check, Validation
    <3>7. CASE SetState /\ step <= Len(Steps)
      <4>1. Current.op = "set" /\ Current.on = "host"
        BY <3>2, <3>7, CallsAssumption DEF SetState, Current, Steps, ContainedInv, CallInv
      <4> QED BY <3>1, <3>7, <4>1, AdvancingStep DEF SetState, Validation, Effective
    <3>8. CASE Access /\ ~CallFaults /\ step <= Len(Steps)
      BY <3>1, <3>8, AdvancingStep DEF Access, Effective
    <3>9. CASE StoreHead /\ ~CallFaults /\ step <= Len(Steps)
      <4>1. begun' = TRUE /\ step' = step /\ outcome' = outcome
        BY <3>9 DEF StoreHead
      <4>2. step \in DOMAIN Steps /\ Current.op \in InParts
        BY <3>2, <3>9 DEF StoreHead, ContainedInv, CallInv
      <4>3. EffectInv'
        <5> SUFFICES ASSUME NEW o \in effects'
                     PROVE  \E i \in DOMAIN Steps :
                              /\ i < step \/ (i = step /\ Steps[i].op \in InParts)
                              /\ Steps[i].op \in Effective /\ Steps[i].on = o
          BY <3>2, <4>1 DEF EffectInv
        <5>1. CASE o \in effects
          BY <5>1, <3>1 DEF ContainedInv, EffectInv
        <5>2. CASE o = Current.on
          BY <4>2, <5>2 DEF Current, Effective
        <5> QED BY <3>9, <5>1, <5>2 DEF StoreHead, CallFaults
      <4> QED BY <3>1, <3>2, <3>9, <4>1, <4>3
           DEF ContainedInv, CallInv, PassedInv, FaultIsContained, Missing
    <3>10. CASE StoreTail /\ ~CallFaults /\ step <= Len(Steps)
      BY <3>1, <3>10, AdvancingStep DEF StoreTail, InParts, Validation
    <3> QED BY <2>2, <3>3, <3>4, <3>5, <3>6, <3>7, <3>8, <3>9, <3>10 DEF CallNext, Check
  <2> QED BY <2>1, <2>2
<1>3. ContainedInv => FaultIsContained
  BY DEF ContainedInv
<1> QED BY <1>1, <1>2, <1>3, PTL DEF CallSpec


(***************************************************************************)
(* Recompiled blocks.                                                      *)
(***************************************************************************)
\* Who is where, and what control means for the words published.
NativeTypes ==
  /\ embedder \in {"runner", "module"}
  /\ control \in Shards \cup {"idle", "slice", "module", "stopped"}
  /\ count \in Nat /\ endpoint \in Nat /\ entered \in Nat
  /\ hooked \subseteq HookSites /\ loaded \subseteq Relocated /\ rewritten \subseteq Nat
  /\ embedder = "module" => hooked = {}
  /\ control = "slice" => embedder = "runner"
  /\ control = "module" => embedder = "module"

\* A module's published patches are those of the call that is running: the
\* embedder rewrites between calls only.
PatchesPublished ==
  /\ embedder = "module" /\ control # "idle" => published = rewritten
  /\ embedder = "runner" => rewritten = {} /\ published = {} /\ loaded = {}

NativeInv == NativeTypes /\ PatchesPublished /\ ReplacedNotRun

\* The shards are not one of the other holders of control.
LEMMA ShardsApart ==
  /\ "idle" \notin Shards /\ "slice" \notin Shards
  /\ "module" \notin Shards /\ "stopped" \notin Shards
BY NativeConstants

\* A block that may run holds no word that was replaced.
LEMMA BlockHoldsItsWords ==
  ASSUME NativeInv, control \in Shards, ~Refuses
  PROVE  /\ pc \in DOMAIN Blocks /\ pc \in Nat /\ Blocks[pc] \in Nat \ {0}
         /\ count + Blocks[pc] <= endpoint
         /\ BlockWords(pc) \cap hooked = {}
         /\ embedder = "module" => BlockWords(pc) \cap (rewritten \cup loaded) = {}
<1>1. pc \in DOMAIN Blocks /\ MayRun(pc) /\ ~YieldsToHook
  BY DEF Refuses
<1>2. pc \in Nat /\ Blocks[pc] \in Nat \ {0}
  BY <1>1, NativeConstants
<1>3. count + Blocks[pc] <= endpoint
  BY <1>1, <1>2 DEF MayRun, BlockFits, NativeInv, NativeTypes
<1>4. BlockWords(pc) \cap hooked = {}
  BY <1>1, NativeConstants DEF YieldsToHook, NativeInv, NativeTypes
<1>5. ASSUME embedder = "module"
      PROVE  BlockWords(pc) \cap (rewritten \cup loaded) = {}
  <2>1. published = rewritten /\ published \subseteq Nat
    BY <1>5, ShardsApart DEF NativeInv, NativeTypes, PatchesPublished
  <2>2. ASSUME NEW p \in published, p \in BlockWords(pc)
        PROVE  FALSE
    <3>1. p \in Nat /\ pc <= p /\ p < pc + Blocks[pc]
      BY <1>2, <2>1, <2>2 DEF BlockWords
    <3>2. ~OutsideBracket(pc, Blocks[pc])
      BY <1>2, <3>1 DEF OutsideBracket
    <3>3. PatchInside(pc, Blocks[pc])
      BY <3>1 DEF PatchInside
    <3>4. QED
      BY <1>1, <3>2, <3>3 DEF MayRun, RangeHasPatch
  <2>3. ComparedWords(pc) \cap (loaded \cup rewritten) = {}
    BY <1>1, <1>5 DEF MayRun, WordsDiffer
  <2>4. BlockWords(pc) \cap loaded = {}
    BY <2>3 DEF ComparedWords, NativeInv, NativeTypes
  <2>5. QED
    BY <2>1, <2>2, <2>4
<1>6. QED
  BY <1>1, <1>2, <1>3, <1>4, <1>5

\* Every step keeps the invariant.
LEMMA NativeStep == NativeInv /\ [NativeNext]_nativeVars => NativeInv'
<1> SUFFICES ASSUME NativeInv, [NativeNext]_nativeVars PROVE NativeInv'
  OBVIOUS
<1>1. CASE UNCHANGED nativeVars
  BY <1>1 DEF nativeVars, NativeInv, NativeTypes, PatchesPublished, ReplacedNotRun,
              HooksNotBypassed, RewrittenNotRun
<1>2. CASE took' = {} /\ NativeTypes' /\ PatchesPublished'
  BY <1>2 DEF NativeInv, ReplacedNotRun, HooksNotBypassed, RewrittenNotRun
<1>3. CASE StartSlice
  BY <1>2, <1>3, NativeConstants DEF StartSlice, fixedVars, NativeInv, NativeTypes, PatchesPublished
<1>4. CASE CallBlock
  <2>1. Shard[pc] \in Shards
    BY <1>4 DEF CallBlock, Shards
  <2>2. QED
    BY <1>2, <1>4, <2>1, ShardsApart
    DEF CallBlock, InSlice, fixedVars, NativeInv, NativeTypes, PatchesPublished
<1>5. CASE CallHook
  <2>1. count' \in Nat
    BY <1>5, NativeConstants DEF CallHook, NativeInv, NativeTypes
  <2>2. QED
    BY <1>2, <1>5, <2>1 DEF CallHook, InSlice, fixedVars, NativeInv, NativeTypes, PatchesPublished
<1>6. CASE CallImport
  BY <1>2, <1>6 DEF CallImport, InSlice, fixedVars, NativeInv, NativeTypes, PatchesPublished
<1>7. CASE InterpretWord
  <2>1. count' \in Nat /\ NativeTypes' /\ PatchesPublished'
    BY <1>7 DEF InterpretWord, InSlice, fixedVars, NativeInv, NativeTypes, PatchesPublished
  <2>2. pc \notin hooked
    <3>1. pc \in hooked => SlotFits(Slot(pc))
      BY <1>7 DEF InterpretWord, InSlice, SlotFits, Slot, NativeInv, NativeTypes
    <3>2. QED
      BY <1>7, <3>1 DEF InterpretWord
  <2>3. embedder' = "runner"
    BY <1>7 DEF InterpretWord, InSlice, fixedVars, NativeInv, NativeTypes
  <2>4. QED
    BY <1>7, <2>1, <2>2, <2>3
    DEF InterpretWord, fixedVars, NativeInv, ReplacedNotRun, HooksNotBypassed, RewrittenNotRun
<1>8. CASE SliceEnds
  BY <1>2, <1>8 DEF SliceEnds, fixedVars, NativeInv, NativeTypes, PatchesPublished
<1>9. CASE DispatchReturns
  BY <1>2, <1>9, ShardsApart
  DEF DispatchReturns, fixedVars, NativeInv, NativeTypes, PatchesPublished
<1>10. CASE RunBlock
  <2>1. /\ pc \in Nat /\ Blocks[pc] \in Nat \ {0}
        /\ BlockWords(pc) \cap hooked = {}
        /\ embedder = "module" => BlockWords(pc) \cap (rewritten \cup loaded) = {}
    BY <1>10, BlockHoldsItsWords DEF RunBlock
  <2>2. took' \subseteq BlockWords(pc) /\ count' \in Nat
    BY <1>10, <2>1 DEF RunBlock, BlockWords, NativeInv, NativeTypes
  <2>3. control' = control \/ control' = "stopped"
    BY <1>10 DEF RunBlock
  <2>4. NativeTypes' /\ PatchesPublished'
    BY <1>10, <2>2, <2>3, ShardsApart
    DEF RunBlock, fixedVars, NativeInv, NativeTypes, PatchesPublished
  <2>5. QED
    BY <1>10, <2>1, <2>2, <2>4
    DEF RunBlock, fixedVars, NativeInv, ReplacedNotRun, HooksNotBypassed, RewrittenNotRun
<1>11. ASSUME NEW b \in DOMAIN Blocks, NEW a \in BlockWords(b), HostRewrites(a)
       PROVE  NativeInv'
  <2>1. a \in Nat
    BY NativeConstants DEF BlockWords
  <2>2. QED
    BY <1>2, <1>11, <2>1 DEF HostRewrites, fixedVars, NativeInv, NativeTypes, PatchesPublished
<1>12. CASE HostRuns
  BY <1>2, <1>12 DEF HostRuns, fixedVars, NativeInv, NativeTypes, PatchesPublished
<1>13. CASE EnterModule
  <2>1. Shard[pc] \in Shards /\ endpoint' \in Nat
    BY <1>13, NativeConstants DEF EnterModule, Shards, NativeInv, NativeTypes
  <2>2. QED
    BY <1>2, <1>13, <2>1, ShardsApart
    DEF EnterModule, fixedVars, NativeInv, NativeTypes, PatchesPublished
<1>14. CASE ModuleGoesOn
  <2>1. Chains => Shard[pc] \in Shards
    BY DEF Chains, Shards
  <2>2. QED
    BY <1>2, <1>14, <2>1, ShardsApart
    DEF ModuleGoesOn, fixedVars, NativeInv, NativeTypes, PatchesPublished
<1>15. QED
  BY <1>1, <1>3, <1>4, <1>5, <1>6, <1>7, <1>8, <1>9, <1>10, <1>11, <1>12, <1>13, <1>14
  DEF NativeNext, SliceStep

\* The invariant holds for every program, hooks, relocations and rewrites.
THEOREM NativeInvariant == NativeSpec => []NativeInv
<1>1. NativeInit => NativeInv
  BY DEF NativeInit, NativeInv, NativeTypes, PatchesPublished, ReplacedNotRun, HooksNotBypassed,
         RewrittenNotRun
<1>2. QED
  BY <1>1, NativeStep, PTL DEF NativeSpec

\* Neither a chain of blocks nor the interpreter passes a hook by, and a module
\* never runs a block over a word that is not the one translated: for every set
\* of blocks, whatever is deferred, relocated or rewritten between calls.
THEOREM ReplacedNeverRuns == NativeSpec => []ReplacedNotRun
BY NativeInvariant, PTL DEF NativeInv

\* Blocks and interpreted words stay within the slice; only a hook exceeds it.
LEMMA StepKeepsBudget ==
  ASSUME NativeInv, [NativeNext]_nativeVars
  PROVE  count' # count /\ pc \notin hooked => count' <= endpoint
<1> SUFFICES ASSUME count' # count, pc \notin hooked PROVE count' <= endpoint
  OBVIOUS
<1>1. CASE RunBlock
  <2>1. Blocks[pc] \in Nat \ {0} /\ count + Blocks[pc] <= endpoint
    BY <1>1, BlockHoldsItsWords DEF RunBlock
  <2>2. QED
    BY <1>1, <2>1 DEF RunBlock, NativeInv, NativeTypes
<1>2. CASE InterpretWord
  BY <1>2 DEF InterpretWord, InSlice, NativeInv, NativeTypes
<1>3. QED
  BY <1>1, <1>2
  DEF NativeNext, SliceStep, StartSlice, CallBlock, CallHook, CallImport, SliceEnds,
      DispatchReturns, HostRewrites, HostRuns, EnterModule, ModuleGoesOn, nativeVars

\* For every quantum and every block, deferred ones included.
THEOREM SlicesKeepBudget == NativeSpec => BudgetKept
<1>1. NativeInv /\ [NativeNext]_nativeVars
        => [count' # count /\ pc \notin hooked => count' <= endpoint]_nativeVars
  BY StepKeepsBudget
<1>2. QED
  BY <1>1, NativeInvariant, PTL DEF NativeSpec, BudgetKept

\* When run_slice has called a dispatcher, either a block has run or the first
\* one is about to.
FirstBlockRuns ==
  embedder = "runner" /\ control \in Shards =>
    \/ count > entered
    \/ /\ count = entered /\ pc \in DOMAIN Blocks \ hooked
       /\ Shard[pc] = control /\ Blocks[pc] <= endpoint - count

\* A runner that defers nothing refuses no first block.
LEMMA FirstBlockNotRefused ==
  ASSUME NativeInv, deferral = NoDeferral, embedder = "runner", control \in Shards,
         pc \in DOMAIN Blocks \ hooked, Shard[pc] = control, Blocks[pc] <= endpoint - count
  PROVE  ~Refuses
<1>1. published = {} /\ Blocks[pc] \in Nat \ {0} /\ count \in Nat /\ endpoint \in Nat
  BY NativeConstants DEF NativeInv, NativeTypes, PatchesPublished
<1>2. count < endpoint
  BY <1>1
<1>3. ~RangeHasPatch(pc, Blocks[pc])
  BY <1>1 DEF RangeHasPatch, OutsideBracket
<1>4. MayRun(pc)
  BY <1>3 DEF MayRun, WordsDiffer, BlockFits
<1>5. QED
  BY <1>1, <1>2, <1>4 DEF Refuses, YieldsToHook

\* Until a dispatcher has run a block the count it entered with stands, and it leaves only
\* after one: nothing is deferred.
LEMMA FirstBlockStep ==
  ASSUME NativeInv, FirstBlockRuns, deferral = NoDeferral, [NativeNext]_nativeVars
  PROVE  FirstBlockRuns' /\ (control \in Shards /\ control' = "slice" => count > entered)
<1>1. CASE UNCHANGED nativeVars
  BY <1>1, ShardsApart DEF nativeVars, FirstBlockRuns
<1>2. CASE CallBlock
  <2>1. Slot(pc) = Blocks[pc]
    BY <1>2 DEF CallBlock, Slot
  <2>2. QED
    BY <1>2, <2>1, ShardsApart DEF CallBlock, InSlice, SlotFits, fixedVars, FirstBlockRuns
<1>3. CASE RunBlock
  <2>1. Blocks[pc] \in Nat \ {0}
    BY <1>3, BlockHoldsItsWords DEF RunBlock
  <2>2. control' \in Shards => control' = control /\ count' = count + Blocks[pc]
    BY <1>3, ShardsApart DEF RunBlock
  <2>3. embedder = "runner" => count >= entered
    BY <1>3 DEF RunBlock, FirstBlockRuns, NativeInv, NativeTypes
  <2>4. QED
    BY <1>3, <2>1, <2>2, <2>3, ShardsApart
    DEF RunBlock, fixedVars, FirstBlockRuns, NativeInv, NativeTypes
<1>4. CASE DispatchReturns
  <2>1. control' = "slice" => count > entered
    BY <1>4, FirstBlockNotRefused DEF DispatchReturns, FirstBlockRuns
  <2>2. QED
    BY <1>4, <2>1, ShardsApart DEF DispatchReturns, FirstBlockRuns
<1>5. CASE \/ StartSlice \/ CallHook \/ CallImport \/ InterpretWord \/ SliceEnds \/ HostRuns
           \/ EnterModule \/ ModuleGoesOn
           \/ \E b \in DOMAIN Blocks : \E a \in BlockWords(b) : HostRewrites(a)
  BY <1>5, ShardsApart
  DEF StartSlice, CallHook, CallImport, InterpretWord, SliceEnds, HostRuns, EnterModule,
      ModuleGoesOn, HostRewrites, InSlice, fixedVars, FirstBlockRuns, NativeInv, NativeTypes
<1>6. QED
  BY <1>1, <1>2, <1>3, <1>4, <1>5 DEF NativeNext, SliceStep

\* Where nothing is deferred every dispatcher that run_slice calls runs a block,
\* and no block passes the slice's end.
THEOREM RunnersAdvance ==
  ASSUME Deferrals = {NoDeferral}
  PROVE  NativeSpec => SlicesAdvance
<1> DEFINE Inv == FirstBlockRuns /\ deferral = NoDeferral
<1>1. NativeInit => Inv
  BY ShardsApart DEF NativeInit, FirstBlockRuns
<1>2. NativeInv /\ Inv /\ [NativeNext]_nativeVars
        => Inv' /\ [(control \in Shards /\ control' = "slice") => count > entered]_nativeVars
  <2>1. ASSUME deferral = NoDeferral, [NativeNext]_nativeVars
        PROVE  deferral' = NoDeferral
    BY <2>1 DEF NativeNext, SliceStep, StartSlice, CallBlock, CallHook, CallImport, InterpretWord,
                SliceEnds, DispatchReturns, RunBlock, HostRewrites, HostRuns, EnterModule,
                ModuleGoesOn, fixedVars, nativeVars
  <2>2. QED
    BY <2>1, FirstBlockStep
<1> HIDE DEF Inv
<1>3. NativeSpec => DispatchProgresses
  BY <1>1, <1>2, NativeInvariant, PTL DEF NativeSpec, DispatchProgresses
<1>4. QED
  BY <1>3, SlicesKeepBudget DEF SlicesAdvance

(***************************************************************************)
(* The two decoders.  Their tables are the same sets of rows, whatever way *)
(* the code arranges them, and their conditions on a word are equivalent,  *)
(* but for the one that refuses fdivs.                                     *)
(***************************************************************************)
\* The interpreter's tables and the translator's have the same rows.
LEMMA TablesAgree ==
  /\ Emit4Xo = Step4Xo /\ Emit4Xo5 = Step4Xo5
  /\ Emit19 = Step19
  /\ Emit31Memory = Step31Memory /\ Emit31Integer = Step31Integer
  /\ Emit59Xo5 = Step59Xo5
  /\ Emit63Xo5 = Step63Xo5 /\ Emit63Xo = Step63Xo
  /\ EmitImmediate = StepImmediate /\ EmitMemory = StepMemory
<1>1. Emit4Xo = Step4Xo /\ Emit4Xo5 = Step4Xo5
  BY DEF Emit4Xo, Step4Xo, Emit4Xo5, Step4Xo5
<1>2. Emit19 = Step19
  BY DEF Emit19, Step19
<1>3. Emit31Memory = Step31Memory
  BY DEF Emit31Memory, Step31Memory
<1>4. Emit31Integer = Step31Integer
  BY DEF Emit31Integer, Step31Integer
<1>5. Emit59Xo5 = Step59Xo5
  BY DEF Emit59Xo5, Step59Xo5
<1>6. Emit63Xo5 = Step63Xo5 /\ Emit63Xo = Step63Xo
  BY DEF Emit63Xo5, Step63Xo5, Emit63Xo, Step63Xo
<1>7. EmitImmediate = StepImmediate
  BY DEF EmitImmediate, StepImmediate
<1>8. EmitMemory = StepMemory
  BY DEF EmitMemory, StepMemory
<1>9. QED
  BY <1>1, <1>2, <1>3, <1>4, <1>5, <1>6, <1>7, <1>8

\* So the two dispatch any word to the same operation on the same operands.
LEMMA DispatchesAgree ==
  ASSUME NEW w
  PROVE  EmitInstruction(w) = StepDispatch(w)
BY TablesAgree DEF EmitInstruction, StepDispatch, Emit59, Step59

\* What is looked up is that of some row of the table.
LEMMA LookupIsRow ==
  ASSUME NEW table, NEW code, Lookup(table, code) # Rejected
  PROVE  \E row \in table : row[1][1] = code /\ Lookup(table, code).op = row[1][2]
<1> DEFINE row == CHOOSE row \in Row(table, code) : TRUE
<1>1. row \in table /\ row[1][1] = code
  BY DEF Lookup, Row
<1>2. Lookup(table, code) = [op |-> row[1][2], on |-> row[2]]
  BY DEF Lookup
<1>3. Lookup(table, code).op = row[1][2]
  BY <1>2
<1> HIDE DEF row
<1>4. QED
  BY <1>1, <1>3

\* The codes at which a load or a store that updates its base is listed.
LEMMA UpdateRows ==
  /\ \A row \in StepImmediate \cup StepMemory :
       /\ row[1][2] \in IntegerUpdateLoads <=> row[1][1] \in {33, 35, 41, 43}
       /\ row[1][2] \in OtherUpdates <=> row[1][1] \in {37, 39, 45, 49, 53, 55, 57, 61}
  /\ \A row \in Step31Memory \cup Step31Integer :
       /\ row[1][2] \in IntegerUpdateLoads <=> row[1][1] \in {55, 119, 311, 375}
       /\ row[1][2] \in OtherUpdates <=> row[1][1] \in {183, 247, 439, 567, 695}
  /\ \A row \in Step4Xo \cup Step4Xo5 \cup Step19 \cup Step59Xo5 \cup Step63Xo \cup Step63Xo5 :
        row[1][2] \notin IntegerUpdateLoads \cup OtherUpdates
<1>1. \A row \in StepImmediate \cup StepMemory :
       /\ row[1][2] \in IntegerUpdateLoads <=> row[1][1] \in {33, 35, 41, 43}
       /\ row[1][2] \in OtherUpdates <=> row[1][1] \in {37, 39, 45, 49, 53, 55, 57, 61}
  BY DEF StepImmediate, StepMemory, IntegerUpdateLoads, OtherUpdates
<1>2. \A row \in Step31Memory \cup Step31Integer :
       /\ row[1][2] \in IntegerUpdateLoads <=> row[1][1] \in {55, 119, 311, 375}
       /\ row[1][2] \in OtherUpdates <=> row[1][1] \in {183, 247, 439, 567, 695}
  <2>1. \A row \in Step31Memory :
          /\ row[1][2] \in IntegerUpdateLoads <=> row[1][1] \in {55, 119, 311, 375}
          /\ row[1][2] \in OtherUpdates <=> row[1][1] \in {183, 247, 439, 567, 695}
    <3> SUFFICES ASSUME NEW row \in Step31Memory
                 PROVE  /\ row[1][2] \in IntegerUpdateLoads <=> row[1][1] \in {55, 119, 311, 375}
                        /\ row[1][2] \in OtherUpdates <=> row[1][1] \in {183, 247, 439, 567, 695}
      OBVIOUS
    <3> DEFINE updateLoads == {<<55, "lwzux">>, <<119, "lbzux">>, <<311, "lhzux">>, <<375, "lhaux">>}
               otherUpdates == {<<183, "stwux">>, <<247, "stbux">>, <<439, "sthux">>, <<567, "lfsux">>,
                                <<695, "stfsux">>}
               rest == {<<23, "lwzx">>, <<87, "lbzx">>, <<343, "lhax">>, <<279, "lhzx">>,
                        <<535, "lfsx">>, <<20, "lwarx">>, <<534, "lwbrx">>, <<150, "stwcx">>,
                        <<662, "stwbrx">>, <<151, "stwx">>, <<215, "stbx">>, <<407, "sthx">>,
                        <<597, "lswi">>, <<725, "stswi">>, <<983, "stfiwx">>, <<663, "stfsx">>,
                        <<1014, "dcbz">>, <<54, "dcbst">>, <<86, "dcbf">>}
    <3>1. row[1] \in updateLoads \cup otherUpdates \cup rest
      BY DEF Step31Memory
    <3>2. CASE row[1] \in updateLoads
      BY <3>2 DEF IntegerUpdateLoads, OtherUpdates
    <3>3. CASE row[1] \in otherUpdates
      BY <3>3 DEF IntegerUpdateLoads, OtherUpdates
    <3>4. CASE row[1] \in rest
      BY <3>4 DEF IntegerUpdateLoads, OtherUpdates
    <3>5. QED
      BY <3>1, <3>2, <3>3, <3>4
  <2>2. \A row \in Step31Integer :
          /\ row[1][2] \notin IntegerUpdateLoads \cup OtherUpdates
          /\ row[1][1] \notin {55, 119, 311, 375, 183, 247, 439, 567, 695}
    BY DEF Step31Integer, IntegerUpdateLoads, OtherUpdates
  <2>3. QED
    BY <2>1, <2>2
<1>3. \A row \in Step4Xo \cup Step4Xo5 \cup Step19 \cup Step59Xo5 \cup Step63Xo \cup Step63Xo5 :
        row[1][2] \notin IntegerUpdateLoads \cup OtherUpdates
  BY DEF Step4Xo, Step4Xo5, Step19, Step59Xo5, Step63Xo, Step63Xo5, IntegerUpdateLoads, OtherUpdates
<1>4. QED
  BY <1>1, <1>2, <1>3

\* Where no function of the semantics refuses more, the conditions are equivalent.
LEMMA Conditions ==
  ASSUME NEW w
  PROVE  /\ Validates4(w) <=> StepAccepts4(w)
         /\ Validates19(w) <=> StepAccepts19(w)
         /\ Validates63(w) <=> StepAccepts63(w)
         /\ Validates31(w) <=> StepAccepts31(w)
<1>1. Validates4(w) <=> StepAccepts4(w)
  BY DEF Validates4, StepAccepts4, Xo5, Frc, LowTwo
<1>2. Validates19(w) <=> StepAccepts19(w)
  BY DEF Validates19, StepAccepts19
<1>3. Validates63(w) <=> StepAccepts63(w)
  BY DEF Validates63, StepAccepts63, Xo5, Frc, LowTwo
<1>4. Validates31(w) <=> StepAccepts31(w)
  BY DEF Validates31, StepAccepts31, StepUnrecorded, StepRecordable
<1>5. QED
  BY <1>1, <1>2, <1>3, <1>4
\* What an operation that is looked up has to hold of the word.
LEMMA UpdateForms ==
  ASSUME NEW w, StepDispatch(w) # Rejected
  PROVE  /\ w.op \notin {4, 19, 31, 59, 63} =>
              (UpdateFormHolds(StepDispatch(w).op, w) <=>
                 /\ w.op \in {33, 35, 41, 43} => w.ra # 0 /\ w.ra # w.rt
                 /\ w.op \in {37, 39, 45, 49, 53, 55, 57, 61} => w.ra # 0)
         /\ w.op = 31 =>
              (UpdateFormHolds(StepDispatch(w).op, w) <=>
                 /\ w.xo \in {55, 119, 311, 375} => w.ra # 0 /\ w.ra # w.rt
                 /\ w.xo \in {183, 247, 439, 567, 695} => w.ra # 0)
         /\ w.op \in {4, 19, 59, 63} => UpdateFormHolds(StepDispatch(w).op, w)
<1>1. CASE w.op \notin {4, 19, 31, 59, 63}
  <2>1. StepDispatch(w) = Lookup(StepImmediate \cup StepMemory, w.op)
    BY <1>1 DEF StepDispatch
  <2>2. PICK row \in StepImmediate \cup StepMemory :
          row[1][1] = w.op /\ StepDispatch(w).op = row[1][2]
    BY <2>1, LookupIsRow
  <2>3. QED
    BY <1>1, <2>2, UpdateRows DEF UpdateFormHolds
<1>2. CASE w.op = 31
  <2>1. StepDispatch(w) = Lookup(Step31Memory \cup Step31Integer, w.xo)
    BY <1>2 DEF StepDispatch
  <2>2. PICK row \in Step31Memory \cup Step31Integer :
          row[1][1] = w.xo /\ StepDispatch(w).op = row[1][2]
    BY <2>1, LookupIsRow
  <2>3. QED
    BY <1>2, <2>2, UpdateRows DEF UpdateFormHolds
<1>3. CASE w.op \in {4, 19, 59, 63}
  <2>1. CASE w.op = 59 /\ w.xo = 24
    <3>1. StepDispatch(w).op = "fres"
      BY <2>1 DEF StepDispatch, Step59
    <3>2. QED
      BY <1>3, <3>1 DEF UpdateFormHolds, IntegerUpdateLoads, OtherUpdates
  <2>2. CASE ~(w.op = 59 /\ w.xo = 24)
    <3>1. PICK table \in {Step4Xo, Step4Xo5, Step19, Step59Xo5, Step63Xo, Step63Xo5},
               code \in {w.xo, Xo5(w)} : StepDispatch(w) = Lookup(table, code)
      BY <1>3, <2>2 DEF StepDispatch, Step59, LookupFirst
    <3>2. PICK row \in table : StepDispatch(w).op = row[1][2]
      BY <3>1, LookupIsRow
    <3>3. QED
      BY <1>3, <3>1, <3>2, UpdateRows DEF UpdateFormHolds
  <2>3. QED
    BY <2>1, <2>2
<1>4. QED
  BY <1>1, <1>2, <1>3

\* The code at which fdivs is listed.
LEMMA FdivsIsNamed == \A row \in Step59Xo5 : row[1][1] = 18 => row[1][2] = "fdivs"
BY DEF Step59Xo5

\* What the translator validates, the interpreter carries out.
LEMMA ValidatedIsAccepted ==
  ASSUME NEW w, ValidateInstruction(w), StepDispatch(w) # Rejected
  PROVE  StepAccepts(w) /\ UpdateFormHolds(StepDispatch(w).op, w)
<1>1. CASE w.op \in {4, 19, 63}
  BY <1>1, Conditions, UpdateForms DEF ValidateInstruction, StepAccepts
<1>2. CASE w.op = 31
  <2>1. Validates31(w) /\ StepAccepts31(w)
    BY <1>2, Conditions DEF ValidateInstruction
  <2>2. /\ w.xo \in {55, 119, 311, 375} => w.ra # 0 /\ w.ra # w.rt
        /\ w.xo \in {183, 247, 439, 567, 695} => w.ra # 0
    BY <2>1 DEF StepAccepts31
  <2>3. QED
    BY <1>2, <2>1, <2>2, UpdateForms DEF StepAccepts
<1>3. CASE w.op = 59
  <2>1. StepAccepts59(w)
    BY <1>3 DEF ValidateInstruction, Validates59, StepAccepts59, Xo5, Frc
  <2>2. QED
    BY <1>3, <2>1, UpdateForms DEF StepAccepts
<1>4. CASE w.op \notin {4, 19, 31, 59, 63}
  <2>1. ValidatesD(w)
    BY <1>4 DEF ValidateInstruction
  <2>2. /\ w.op \in {33, 35, 41, 43} => w.ra # 0 /\ w.ra # w.rt
        /\ w.op \in {37, 39, 45, 49, 53, 55, 57, 61} => w.ra # 0
    BY <2>1 DEF ValidatesD
  <2>3. StepAcceptsD(w)
    BY <2>1 DEF ValidatesD, StepAcceptsD
  <2>4. QED
    BY <1>4, <2>2, <2>3, UpdateForms DEF StepAccepts
<1>5. QED
  BY <1>1, <1>2, <1>3, <1>4

\* What the interpreter carries out, the translator validates, but for fdivs.
LEMMA AcceptedIsValidated ==
  ASSUME NEW w, StepAccepts(w), StepDispatch(w) # Rejected, UpdateFormHolds(StepDispatch(w).op, w)
  PROVE  ValidateInstruction(w) \/ StepDispatch(w).op = "fdivs"
<1>1. CASE w.op \in {4, 19, 63}
  BY <1>1, Conditions DEF ValidateInstruction, StepAccepts
<1>2. CASE w.op = 31
  BY <1>2, Conditions DEF ValidateInstruction, StepAccepts
<1>3. CASE w.op = 59
  <2>1. StepAccepts59(w)
    BY <1>3 DEF StepAccepts
  <2>2. CASE Xo5(w) = 18
    <3>1. w.xo # 24
      BY <2>2 DEF Xo5
    <3>2. StepDispatch(w) = Lookup(Step59Xo5, 18)
      BY <1>3, <2>2, <3>1 DEF StepDispatch, Step59
    <3>3. QED
      BY <3>2, LookupIsRow, FdivsIsNamed
  <2>3. CASE Xo5(w) # 18
    <3>1. Validates59(w)
      BY <2>1, <2>3 DEF Validates59, StepAccepts59
    <3>2. QED
      BY <1>3, <3>1 DEF ValidateInstruction
  <2>4. QED
    BY <2>2, <2>3
<1>4. CASE w.op \notin {4, 19, 31, 59, 63}
  <2>1. StepAcceptsD(w)
    BY <1>4 DEF StepAccepts
  <2>2. /\ w.op \in {33, 35, 41, 43} => w.ra # 0 /\ w.ra # w.rt
        /\ w.op \in {37, 39, 45, 49, 53, 55, 57, 61} => w.ra # 0
    BY <1>4, UpdateForms
  <2>3. ValidatesD(w)
    BY <2>1, <2>2 DEF ValidatesD, StepAcceptsD
  <2>4. QED
    BY <1>4, <2>3 DEF ValidateInstruction
<1>5. QED
  BY <1>1, <1>2, <1>3, <1>4

\* The inductive invariant: each has decoded the word, or has not yet.
DecodeInv ==
  /\ interpreted \in {Pending, Interpretation(word)}
  /\ translated \in {Pending, Translation(word, final)}

\* Whatever words there are, the two decoders agree on each: what a block does with
\* it and what the interpreter does with it is the same operation on the same
\* operands, and only fdivs is not translated (validate_instruction and
\* emit_instruction, and Executor::step).
THEOREM DecodersAlwaysAgree == DecodeSpec => []DecodersAgree
<1>1. DecodeInit => DecodeInv
  BY DEF DecodeInit, DecodeInv
<1>2. DecodeInv /\ [DecodeNext]_decodeVars => DecodeInv'
  BY DEF DecodeInv, DecodeNext, Interpret, Translate, decodeVars
<1>3. DecodeInv => DecodersAgree
  <2> SUFFICES ASSUME DecodeInv, Decoded PROVE TranslatedIsInterpreted /\ OnlyFdivsIsMissing
    BY DEF DecodersAgree, TranslatedIsInterpreted, OnlyFdivsIsMissing
  <2>1. interpreted = Interpretation(word) /\ translated = Translation(word, final)
    BY DEF DecodeInv, Decoded
  <2>2. TranslatedIsInterpreted
    <3> SUFFICES ASSUME translated # Rejected PROVE translated = interpreted
      BY DEF TranslatedIsInterpreted
    <3>1. ValidateInstruction(word) /\ translated = StepDispatch(word)
      BY <2>1, DispatchesAgree DEF Translation
    <3>2. QED
      BY <2>1, <3>1, ValidatedIsAccepted DEF Interpretation
  <2>3. OnlyFdivsIsMissing
    <3> SUFFICES ASSUME interpreted # Rejected, IsBranch(word) => final, interpreted.op # "fdivs"
                 PROVE  translated # Rejected
      BY DEF OnlyFdivsIsMissing
    <3>1. /\ StepAccepts(word) /\ UpdateFormHolds(StepDispatch(word).op, word)
          /\ interpreted = StepDispatch(word)
      BY <2>1 DEF Interpretation
    <3>2. ValidateInstruction(word)
      BY <3>1, AcceptedIsValidated
    <3>3. QED
      BY <2>1, <3>1, <3>2, DispatchesAgree DEF Translation
  <2>4. QED
    BY <2>2, <2>3
<1>4. QED
  BY <1>1, <1>2, <1>3, PTL DEF DecodeSpec
=============================================================================
