-------------------------- MODULE CafeLibrariesProofs --------------------------
(***************************************************************************)
(* Proofs about the libraries that share no state with the threads: the    *)
(* frames and the voices of AX, the files of FS and SAVE, and the display  *)
(* lists of GX2.  Each has its own specification and invariant.            *)
(***************************************************************************)
EXTENDS CafeAudioFrames, CafeAudioVoices, CafeFilesystem, CafeDisplayLists,
        FiniteSetTheorems, SequenceTheorems, WellFoundedInduction, TLAPS

\* A set of naturals that is not empty has a least element.
LEMMA LeastElement ==
  ASSUME NEW S \in SUBSET Nat, S # {}
  PROVE  \E m \in S : \A n \in S : m <= n
<1> DEFINE Less == {p \in Nat \X Nat : p[1] < p[2]}
<1>1. IsWellFoundedOn(Less, Nat)
  <2>1. OpToRel(<, Nat) = Less
    BY DEF OpToRel
  <2> QED BY <2>1, NatLessThanWellFounded
<1>2. \A n, m \in Nat : n < m => <<n, m>> \in Less
  OBVIOUS
<1> HIDE DEF Less
<1>3. PICK m \in S : \A n \in S : <<n, m>> \notin Less
  BY <1>1, WFMin
<1>4. ASSUME NEW n \in S PROVE m <= n
  <2>1. ~(n < m)
    BY <1>2, <1>3
  <2>2. QED
    BY <2>1
<1>5. QED
  BY <1>4

\* f carries start from step to step.
Iterates(f, start, step, N) ==
  \A i \in 0 .. N : f[i] = IF i = 0 THEN start ELSE step[<<i, f[i - 1]>>]

\* A value can be carried from step to step any number of times.
LEMMA Iteration ==
  ASSUME NEW X, NEW start \in X, NEW N \in Nat, NEW step \in [(1 .. N) \X X -> X]
  PROVE  \E f \in [0 .. N -> X] : Iterates(f, start, step, N)
<1> DEFINE Stops == {k \in 0 .. N : ~ \E f \in [0 .. k -> X] : Iterates(f, start, step, k)}
<1>1. ASSUME Stops # {} PROVE FALSE
  <2>1. PICK m \in Stops : \A k \in Stops : m <= k
    <3>1. Stops \in SUBSET Nat
      OBVIOUS
    <3> HIDE DEF Stops
    <3>2. QED
      BY <1>1, <3>1, LeastElement
  <2>2. CASE m = 0
    <3> DEFINE f == [i \in 0 .. 0 |-> start]
    <3>1. f \in [0 .. m -> X] /\ Iterates(f, start, step, m)
      BY <2>2 DEF Iterates
    <3>2. QED
      BY <3>1
  <2>3. CASE m # 0
    <3>1. m - 1 \in 0 .. N /\ m - 1 \notin Stops /\ m \in 1 .. N
      BY <2>1, <2>3
    <3>2. PICK f \in [0 .. m - 1 -> X] : Iterates(f, start, step, m - 1)
      BY <3>1
    <3> DEFINE last == step[<<m, f[m - 1]>>]
               g == [i \in 0 .. m |-> IF i = m THEN last ELSE f[i]]
    <3>3. last \in X
      BY <3>1
    <3> HIDE DEF last
    <3>4. g \in [0 .. m -> X]
      BY <3>1, <3>3
    <3>5. ASSUME NEW i \in 0 .. m
          PROVE  g[i] = IF i = 0 THEN start ELSE step[<<i, g[i - 1]>>]
      <4>1. CASE i = m
        <5>1. g[m] = last /\ g[m - 1] = f[m - 1]
          BY <3>1
        <5>2. QED
          BY ONLY <2>3, <4>1, <5>1 DEF last
      <4>2. CASE i # m
        <5>1. i \in 0 .. m - 1 /\ g[i] = f[i] /\ (i # 0 => g[i - 1] = f[i - 1])
          BY <3>1, <4>2
        <5>2. QED
          BY <3>2, <5>1 DEF Iterates
      <4>3. QED
        BY <4>1, <4>2
    <3> HIDE DEF g
    <3>6. Iterates(g, start, step, m)
      BY <3>5 DEF Iterates
    <3>7. QED
      BY <3>4, <3>6
  <2>4. QED
    BY <2>2, <2>3
<1>2. QED
  BY <1>1

\* What a first value has and every step keeps, every value has.
LEMMA StaysIn ==
  ASSUME NEW X, NEW N \in Nat, NEW f, f[0] \in X,
         \A i \in 1 .. N : f[i - 1] \in X => f[i] \in X
  PROVE  \A i \in 0 .. N : f[i] \in X
<1> DEFINE Out == {i \in 0 .. N : f[i] \notin X}
<1>1. ASSUME Out # {} PROVE FALSE
  <2>1. PICK m \in Out : \A k \in Out : m <= k
    <3>1. Out \in SUBSET Nat
      OBVIOUS
    <3> HIDE DEF Out
    <3>2. QED
      BY <1>1, <3>1, LeastElement
  <2>2. m \in 1 .. N /\ m - 1 \in 0 .. N /\ m - 1 \notin Out
    BY <2>1
  <2>3. QED
    BY <2>2
<1>2. QED
  BY <1>1

\* The parts of a flattened sequence are its own.
LEMMA FlattenType ==
  ASSUME NEW S, NEW N \in Nat, NEW seqs \in [1 .. N -> Seq(S)]
  PROVE  FlattenSeq(seqs) \in Seq(S)
<1>0. seqs \in Seq(Seq(S)) /\ Len(seqs) = N
  OBVIOUS
<1>1. CASE N = 0
  <2>1. seqs = <<>> /\ <<>> \in Seq(S)
    BY <1>0, <1>1
  <2>2. FlattenSeq(seqs) = seqs
    BY <1>0, <1>1 DEF FlattenSeq
  <2>3. QED
    BY ONLY <2>1, <2>2, Zenon
<1>2. ASSUME NEW K \in Nat, N = K + 1
      PROVE  FlattenSeq(seqs) \in Seq(S)
  <2> DEFINE step == [p \in (1 .. K) \X Seq(S) |-> p[2] \o seqs[p[1] + 1]]
             IsFlat(h) == h = [i \in 1 .. Len(seqs) |-> IF i = 1 THEN seqs[i] ELSE h[i - 1] \o seqs[i]]
             flat == CHOOSE h : IsFlat(h)
  <2>1. FlattenSeq(seqs) = flat[N]
    <3>1. Len(seqs) # 0
      BY <1>0, <1>2
    <3>2. FlattenSeq(seqs) = flat[Len(seqs)]
      BY <3>1, Zenon DEF FlattenSeq
    <3>3. QED
      BY <1>0, <3>2, Zenon
  <2>a. \A i \in 1 .. N : seqs[i] \in Seq(S)
    OBVIOUS
  <2>2. \E h : IsFlat(h)
    <3>1. step \in [(1 .. K) \X Seq(S) -> Seq(S)]
      <4>1. \A p \in (1 .. K) \X Seq(S) : p[2] \o seqs[p[1] + 1] \in Seq(S)
        BY <1>2, ConcatProperties
      <4>2. QED
        BY <4>1
    <3>2. seqs[1] \in Seq(S)
      BY <1>2
    <3>3. \A i \in 1 .. K, x \in Seq(S) : step[<<i, x>>] = x \o seqs[i + 1]
      OBVIOUS
    <3> HIDE DEF step
    <3>4. PICK f \in [0 .. K -> Seq(S)] : Iterates(f, seqs[1], step, K)
      BY ONLY <3>1, <3>2, K \in Nat, Iteration, Zenon
    <3>b. f[0] = seqs[1] /\ \A i \in 1 .. K : f[i] = step[<<i, f[i - 1]>>]
      <4>1. /\ 0 \in 0 .. K
            /\ \A i \in 1 .. K : i \in 0 .. K /\ i # 0
        OBVIOUS
      <4>2. QED
        BY ONLY <3>4, <4>1, Zenon DEF Iterates
    <3> DEFINE g == [i \in 1 .. N |-> f[i - 1]]
    <3>5. ASSUME NEW i \in 1 .. N
          PROVE  g[i] = IF i = 1 THEN seqs[i] ELSE g[i - 1] \o seqs[i]
      <4>1. CASE i = 1
        BY <3>b, <4>1
      <4>2. CASE i # 1
        <5>1. /\ i - 1 \in 1 .. K /\ (i - 1) - 1 \in 0 .. K /\ i - 1 \in 1 .. N /\ (i - 1) + 1 = i
          BY <1>2, <4>2
        <5>2. f[i - 1] = step[<<i - 1, f[(i - 1) - 1]>>] /\ f[(i - 1) - 1] \in Seq(S)
          BY <3>b, <5>1
        <5>3. step[<<i - 1, f[(i - 1) - 1]>>] = f[(i - 1) - 1] \o seqs[(i - 1) + 1]
          BY ONLY <3>3, <5>1, <5>2, Zenon
        <5>4. g[i] = f[i - 1] /\ g[i - 1] = f[(i - 1) - 1]
          BY <5>1
        <5>5. QED
          BY ONLY <4>2, <5>1, <5>2, <5>3, <5>4
      <4>3. QED
        BY <4>1, <4>2
    <3>6. g = [i \in 1 .. N |-> IF i = 1 THEN seqs[i] ELSE g[i - 1] \o seqs[i]]
      BY <3>5
    <3>7. IsFlat(g)
      BY <1>0, <3>6
    <3>8. QED
      BY <3>7
  <2>3. IsFlat(flat)
    BY <2>2, Zenon
  <2> HIDE DEF flat
  <2>4. /\ flat[1] = seqs[1]
        /\ \A i \in 2 .. N : flat[i] = flat[i - 1] \o seqs[i]
    <3>1. flat = [i \in 1 .. N |-> IF i = 1 THEN seqs[i] ELSE flat[i - 1] \o seqs[i]]
      BY <1>0, <2>3
    <3>2. \A i \in 1 .. N : flat[i] = IF i = 1 THEN seqs[i] ELSE flat[i - 1] \o seqs[i]
      BY ONLY <3>1, Zenon
    <3>3. flat[1] = seqs[1]
      BY ONLY <1>2, <3>2, K \in Nat
    <3>4. ASSUME NEW i \in 2 .. N PROVE flat[i] = flat[i - 1] \o seqs[i]
      <4>1. i \in 1 .. N /\ i # 1
        BY <1>2
      <4>2. QED
        BY ONLY <3>2, <4>1
    <3>5. QED
      BY <3>3, <3>4
  <2>5. \A i \in 1 .. N : flat[i] \in Seq(S)
    <3> DEFINE f == [i \in 0 .. K |-> flat[i + 1]]
    <3>1. f[0] \in Seq(S)
      BY <1>2, <2>4
    <3>2. ASSUME NEW i \in 1 .. K, f[i - 1] \in Seq(S) PROVE f[i] \in Seq(S)
      <4>1. i + 1 \in 2 .. N /\ (i + 1) - 1 = i /\ i \in 0 .. K /\ i - 1 \in 0 .. K /\ (i - 1) + 1 = i
            /\ i + 1 \in 1 .. N
        BY <1>2
      <4>2. flat[i + 1] = flat[(i + 1) - 1] \o seqs[i + 1]
        BY ONLY <2>4, <4>1, Zenon
      <4>3. f[i] = flat[i + 1] /\ f[i - 1] = flat[i]
        BY ONLY <4>1
      <4>4. flat[i] \in Seq(S) /\ seqs[i + 1] \in Seq(S)
        BY ONLY <2>a, <3>2, <4>1, <4>3
      <4>5. QED
        <5>1. flat[i] \o seqs[i + 1] \in Seq(S)
          BY ONLY <4>4, ConcatProperties
        <5>2. QED
          BY ONLY <4>1, <4>2, <4>3, <5>1, Zenon
    <3>3. \A i \in 0 .. K : f[i] = flat[i + 1]
      OBVIOUS
    <3> HIDE DEF f
    <3>4. \A i \in 0 .. K : f[i] \in Seq(S)
      BY ONLY <3>1, <3>2, K \in Nat, StaysIn, Zenon
    <3>5. ASSUME NEW i \in 1 .. N PROVE flat[i] \in Seq(S)
      <4>1. i - 1 \in 0 .. K /\ (i - 1) + 1 = i
        BY <1>2
      <4>2. f[i - 1] = flat[i]
        BY ONLY <3>3, <4>1
      <4>3. QED
        BY <3>4, <4>1, <4>2
    <3>6. QED
      BY <3>5
  <2>6. QED
    BY <1>2, <2>1, <2>5
<1>3. N # 0 => N = (N - 1) + 1 /\ N - 1 \in Nat
  OBVIOUS
<1>4. QED
  BY <1>1, <1>2, <1>3, Zenon

(***************************************************************************)
(* The path of an audio frame.                                             *)
(***************************************************************************)
\* What the time is worth, kept by every swap: the rounds and the part left over.
TimeKept ==
  /\ rounds \in Nat /\ swaps \in Nat /\ phase \in 0 .. SamplesPerFrame - 1
  /\ SamplesPerFrame * rounds + phase = swaps * SamplesPerSwap

\* A quotient and a remainder are those of the division.
LEMMA Quotient ==
  ASSUME NEW n \in Nat \ {0}, NEW q \in Nat, NEW r \in 0 .. n - 1
  PROVE  (n * q + r) \div n = q
OBVIOUS

\* A number is its quotient times the divisor and its remainder.
LEMMA Division ==
  ASSUME NEW a \in Nat, NEW n \in Nat \ {0}
  PROVE  /\ a \div n \in Nat /\ a % n \in 0 .. n - 1
         /\ n * (a \div n) + (a % n) = a
<1>1. a \div n \in Nat /\ a % n \in 0 .. n - 1
  OBVIOUS
<1>2. n * (a \div n) + (a % n) = a
  BY Z3
<1>3. QED
  BY <1>1, <1>2, Zenon

\* A swap queues as many rounds as its samples and the rest of the last one make.
LEMMA SwapKeepsTime ==
  ASSUME TimeKept, Swap
  PROVE  TimeKept'
<1> DEFINE samples == phase + SamplesPerSwap
           due == samples \div SamplesPerFrame
           left == samples % SamplesPerFrame
<1>1. /\ SamplesPerFrame \in Nat \ {0} /\ SamplesPerSwap \in Nat
      /\ samples \in Nat /\ swaps \in Nat /\ rounds \in Nat /\ phase \in Nat
  BY FramesConstants DEF TimeKept
<1> HIDE DEF samples
<1>2. due \in Nat /\ left \in 0 .. SamplesPerFrame - 1 /\ SamplesPerFrame * due + left = samples
  BY <1>1, Division
<1>3. rounds' = rounds + due /\ phase' = left /\ swaps' = swaps + 1
  BY DEF Swap, RoundsDue, PhaseLeft, samples
<1> HIDE DEF due, left
<1>4. SamplesPerFrame * rounds + phase = swaps * SamplesPerSwap
  BY DEF TimeKept
<1>5. SamplesPerFrame * (rounds + due) = SamplesPerFrame * rounds + SamplesPerFrame * due
  BY <1>1, <1>2
<1>6. (swaps + 1) * SamplesPerSwap = swaps * SamplesPerSwap + SamplesPerSwap
  BY <1>1
<1>7. SamplesPerFrame * (rounds + due) + left = (swaps + 1) * SamplesPerSwap
  <2>1. samples = phase + SamplesPerSwap
    BY DEF samples
  <2>2. \A x, y, z, u, v, w \in Int :
          x + y = z /\ u + v = y + w => x + u + v = z + w
    OBVIOUS
  <2>3. /\ SamplesPerFrame * rounds \in Int /\ SamplesPerFrame * due \in Int
        /\ swaps * SamplesPerSwap \in Int /\ left \in Int /\ phase \in Int
    BY <1>1, <1>2
  <2>4. QED
    BY <1>1, <1>2, <1>4, <1>5, <1>6, <2>1, <2>2, <2>3
<1>8. QED
  BY <1>1, <1>2, <1>3, <1>7 DEF TimeKept

\* The other steps of a frame leave the time alone.
LEMMA TimeStep == TimeKept /\ [FramesNext]_audioVars => TimeKept'
<1> SUFFICES ASSUME TimeKept, [FramesNext]_audioVars PROVE TimeKept'
  OBVIOUS
<1>1. CASE UNCHANGED <<rounds, swaps, phase>>
  BY <1>1 DEF TimeKept
<1>2. CASE Swap
  BY <1>2, SwapKeepsTime
<1>3. QED
  BY <1>1, <1>2
  DEF FramesNext, RegisterFinalMix, UnregisterFinalMix, RegisterAppFrame, DeregisterAppFrame,
      BeginCallback, ReturnCallback, audioVars

\* For every rate of swaps and every size of frame, no sample's worth of time is
\* lost or paid twice over any number of swaps.
THEOREM AudioKeepsTime == FramesSpec => []RoundsKeepTime
<1>1. FramesInit => TimeKept
  BY FramesConstants DEF FramesInit, TimeKept
<1>2. TimeKept => RoundsKeepTime
  BY FramesConstants, Quotient DEF TimeKept, RoundsKeepTime
<1>3. QED
  BY <1>1, <1>2, TimeStep, PTL DEF FramesSpec


(***************************************************************************)
(* The ring of captured frames.                                            *)
(***************************************************************************)
\* Frames captured so far: the one that is being filled is not among them.
Captured == mixes - (IF running = "device0" THEN 1 ELSE 0)

\* The place of the frame i places after the oldest.
Place(i) == (read + i) % RingSize

RingTypes ==
  /\ read \in 0 .. RingSize - 1 /\ filled \in 0 .. RingSize
  /\ mixes \in Nat /\ taken \in Nat /\ buffer \in Nat
  /\ ring \in [0 .. RingSize - 1 -> [serial : Nat, mix : Nat]]

\* The next frame goes where the oldest would be after the newest, and what the
\* renderer took is older than what is left.
RingInv ==
  /\ RingTypes
  /\ write = Place(filled)
  /\ taken + filled <= Captured
  /\ running = "device0" => buffer \in {0, mixes}
  /\ RingHoldsNewest

\* An index that passes the end of the ring is taken back once.
LEMMA RingWraps ==
  ASSUME NEW a \in 0 .. RingSize - 1, NEW k \in 0 .. RingSize
  PROVE  /\ (a + k) % RingSize = IF a + k < RingSize THEN a + k ELSE a + k - RingSize
         /\ (a + k) % RingSize \in 0 .. RingSize - 1
<1>1. RingSize \in Nat \ {0}
  BY FramesConstants
<1>2. a + k < RingSize => (a + k) % RingSize = a + k
  BY <1>1
<1>3. ASSUME a + k >= RingSize PROVE (a + k) % RingSize = a + k - RingSize
  <2>1. \A x \in RingSize .. 2 * RingSize - 1 : x % RingSize = x - RingSize
    BY <1>1
  <2>2. a + k \in RingSize .. 2 * RingSize - 1
    BY <1>1, <1>3
  <2>3. (a + k) % RingSize = (a + k) - RingSize
    BY <2>1, <2>2
  <2>4. (a + k) - RingSize = a + k - RingSize
    BY <1>1
  <2>5. QED
    BY <2>3, <2>4
<1>4. QED
  BY <1>1, <1>2, <1>3

\* An index of the ring is its own place.
LEMMA OwnPlace ==
  ASSUME NEW x \in 0 .. RingSize - 1
  PROVE  (x + 0) % RingSize = x
<1>1. RingSize \in Nat \ {0}
  BY FramesConstants
<1>2. x + 0 = x
  BY <1>1
<1>3. x % RingSize = x
  BY <1>1
<1>4. QED
  BY <1>2, <1>3

\* What the property says of the frame i places after the oldest.
FrameFits(i) ==
  LET frame == ring[Place(i)]
  IN  /\ frame.serial = Captured - filled + i + 1
      /\ frame.mix \in {0, frame.serial}
      /\ frame.serial > taken

\* The property of the ring, frame by frame.
LEMMA NewestUnfolds ==
  RingHoldsNewest <=> (/\ \A i \in 0 .. filled - 1 : FrameFits(i)
                       /\ running # "device0" => buffer = 0)
BY DEF RingHoldsNewest, FrameFits, Place, Captured

\* The places of the frames in the ring are in it, and apart from each other.
LEMMA PlacesApart ==
  ASSUME RingTypes, NEW i \in 0 .. RingSize, NEW j \in 0 .. RingSize
  PROVE  /\ Place(i) \in 0 .. RingSize - 1
         /\ i < j /\ j < RingSize => Place(i) # Place(j)
         /\ i = RingSize => Place(i) = read
         /\ i = 0 => Place(i) = read
<1>1. /\ RingSize \in Nat \ {0} /\ read \in 0 .. RingSize - 1
      /\ Place(i) = IF read + i < RingSize THEN read + i ELSE read + i - RingSize
      /\ Place(j) = IF read + j < RingSize THEN read + j ELSE read + j - RingSize
      /\ Place(i) \in 0 .. RingSize - 1
  BY FramesConstants, RingWraps DEF Place, RingTypes
<1>2. QED
  BY <1>1

\* Taking the frames: the renderer takes the newest and with it all others.
LEMMA SwapKeepsRing ==
  ASSUME RingInv, Swap
  PROVE  RingInv'
<1>1. /\ read' = Place(filled) /\ filled' = 0
      /\ taken' = IF filled = 0 THEN taken ELSE ring[(read + filled - 1) % RingSize].serial
      /\ UNCHANGED <<running, buffer, ring, write, mixes>>
  BY DEF Swap, Place
<1>2. RingTypes /\ RingSize \in Nat \ {0}
  BY FramesConstants DEF RingInv
<1>3. Place(filled) \in 0 .. RingSize - 1
  BY <1>2, PlacesApart DEF RingTypes
<1>4. Captured' = Captured /\ Captured \in Int
  BY <1>1, <1>2 DEF Captured, RingTypes
<1>5. taken' \in Nat /\ taken' <= Captured
  <2>1. CASE filled = 0
    BY <1>1, <1>2, <1>4, <2>1 DEF RingInv, RingTypes
  <2>2. CASE filled # 0
    <3>1. filled - 1 \in 0 .. filled - 1 /\ read + (filled - 1) = read + filled - 1
      BY <1>2, <2>2 DEF RingTypes
    <3>2. FrameFits(filled - 1)
      BY <3>1, NewestUnfolds DEF RingInv
    <3>3. taken' = ring[Place(filled - 1)].serial
      BY <1>1, <2>2, <3>1 DEF Place
    <3>4. taken' = Captured
      BY <1>2, <1>4, <3>2, <3>3 DEF FrameFits, RingTypes
    <3>5. taken' \in Nat
      <4>1. filled - 1 \in 0 .. RingSize
        BY <1>2, <2>2 DEF RingTypes
      <4>2. Place(filled - 1) \in 0 .. RingSize - 1
        BY <1>2, <4>1, PlacesApart
      <4>3. QED
        BY <1>2, <3>3, <4>2 DEF RingTypes
    <3>6. QED
      BY <3>4, <3>5
  <2>3. QED
    BY <2>1, <2>2
<1>6. RingTypes'
  BY <1>1, <1>2, <1>3, <1>5 DEF RingTypes
<1>7. write' = Place(filled)'
  <2>1. (read' + 0) % RingSize = read'
    <3>1. read' \in 0 .. RingSize - 1
      BY <1>6 DEF RingTypes
    <3>2. QED
      BY <3>1, OwnPlace
  <2>2. QED
    BY <1>1, <2>1 DEF RingInv, Place
<1>8. RingHoldsNewest'
  BY <1>1, <1>2 DEF RingInv, RingHoldsNewest
<1>9. QED
  BY <1>1, <1>4, <1>5, <1>6, <1>7, <1>8 DEF RingInv

\* A capture adds the newest frame and drops the oldest if the ring is full.
LEMMA CaptureKeepsRing ==
  ASSUME RingInv, ReturnCallback, running = "device0"
  PROVE  RingInv'
<1>1. /\ running' = "none" /\ buffer' = 0
      /\ ring' = [ring EXCEPT ![write] = [serial |-> mixes, mix |-> buffer]]
      /\ write' = (write + 1) % RingSize
      /\ read' = ReadAfter
      /\ filled' = IF filled = RingSize THEN filled ELSE filled + 1
      /\ UNCHANGED <<mixes, taken>>
  BY DEF ReturnCallback
<1>2. RingTypes /\ RingSize \in Nat \ {0} /\ 0 \in 0 .. RingSize /\ 1 \in 0 .. RingSize
  BY FramesConstants DEF RingInv
<1>3. write = Place(filled) /\ write \in 0 .. RingSize - 1
  BY <1>2, PlacesApart DEF RingInv, RingTypes
<1>4. read' = IF filled = RingSize THEN Place(1) ELSE read
  BY <1>1 DEF ReadAfter, Place
<1>5. read' \in 0 .. RingSize - 1 /\ filled' \in 0 .. RingSize
  <2>1. Place(1) \in 0 .. RingSize - 1
    BY <1>2, PlacesApart
  <2>2. QED
    BY <1>1, <1>2, <1>4, <2>1 DEF RingTypes
<1>6. RingTypes'
  <2>1. [serial |-> mixes, mix |-> buffer] \in [serial : Nat, mix : Nat]
    BY <1>2 DEF RingTypes
  <2>2. ring' \in [0 .. RingSize - 1 -> [serial : Nat, mix : Nat]]
    BY <1>1, <1>2, <2>1 DEF RingTypes
  <2>3. QED
    BY <1>1, <1>2, <1>5, <2>2 DEF RingTypes
<1>7. Captured' = Captured + 1 /\ Captured = mixes - 1 /\ mixes \in Nat
  BY <1>1, <1>2 DEF Captured, RingTypes
<1>8. /\ ring'[write] = [serial |-> mixes, mix |-> buffer]
      /\ \A x \in 0 .. RingSize - 1 : x # write => ring'[x] = ring[x]
  BY <1>1, <1>2, <1>3 DEF RingTypes
\* Where the frames are after it.
<1>9. \A i \in 0 .. RingSize :
        Place(i)' = IF filled = RingSize
                    THEN IF i < RingSize THEN Place(i + 1) ELSE Place(1)
                    ELSE Place(i)
  <2> TAKE i \in 0 .. RingSize
  <2>1. CASE filled # RingSize
    BY <1>4, <2>1 DEF Place
  <2>2. CASE filled = RingSize
    <3>1. /\ Place(1) = IF read + 1 < RingSize THEN read + 1 ELSE read + 1 - RingSize
          /\ Place(1) \in 0 .. RingSize - 1 /\ read \in 0 .. RingSize - 1
      BY <1>2, RingWraps DEF Place, RingTypes
    <3>2. Place(i)' = IF Place(1) + i < RingSize THEN Place(1) + i ELSE Place(1) + i - RingSize
      BY <1>4, <2>2, <3>1, RingWraps DEF Place
    <3>3. ASSUME i < RingSize PROVE Place(i)' = Place(i + 1)
      <4>1. i + 1 \in 0 .. RingSize
        BY <1>2, <3>3
      <4>2. Place(i + 1) = IF read + (i + 1) < RingSize THEN read + (i + 1)
                           ELSE read + (i + 1) - RingSize
        BY <3>1, <4>1, RingWraps DEF Place
      <4>3. QED
        BY <1>2, <3>1, <3>2, <3>3, <4>2
    <3>4. ASSUME i = RingSize PROVE Place(i)' = Place(1)
      BY <1>2, <3>1, <3>2, <3>4
    <3>5. QED
      BY <1>2, <2>2, <3>3, <3>4
  <2>3. QED
    BY <2>1, <2>2
<1>10. write' = Place(filled)'
  <2>1. write' = IF write + 1 < RingSize THEN write + 1 ELSE write + 1 - RingSize
    BY <1>1, <1>2, <1>3, RingWraps
  <2>2. /\ Place(filled) = IF read + filled < RingSize THEN read + filled
                           ELSE read + filled - RingSize
        /\ read \in 0 .. RingSize - 1 /\ filled \in 0 .. RingSize
    BY <1>2, RingWraps DEF Place, RingTypes
  <2>3. CASE filled = RingSize
    <3>1. Place(filled)' = Place(1)
      BY <1>1, <1>2, <1>5, <1>9, <2>3 DEF Place
    <3>2. Place(1) = IF read + 1 < RingSize THEN read + 1 ELSE read + 1 - RingSize
      BY <1>2, RingWraps DEF Place, RingTypes
    <3>3. QED
      BY <1>2, <1>3, <2>1, <2>2, <2>3, <3>1, <3>2
  <2>4. CASE filled # RingSize
    <3>1. Place(filled)' = (read + (filled + 1)) % RingSize
      BY <1>1, <1>4, <2>4 DEF Place
    <3>2. filled + 1 \in 0 .. RingSize
      BY <1>2, <2>2, <2>4
    <3>3. (read + (filled + 1)) % RingSize
            = IF read + (filled + 1) < RingSize THEN read + (filled + 1)
              ELSE read + (filled + 1) - RingSize
      BY <2>2, <3>2, RingWraps
    <3>4. QED
      BY <1>2, <1>3, <2>1, <2>2, <2>4, <3>1, <3>3
  <2>5. QED
    BY <2>3, <2>4
<1>11. ASSUME NEW i \in 0 .. filled' - 1
       PROVE  FrameFits(i)'
  <2>1. i \in 0 .. RingSize /\ i + 1 \in 0 .. RingSize /\ i < RingSize /\ filled \in 0 .. RingSize
    BY <1>1, <1>2 DEF RingTypes
  <2>2. CASE i = filled' - 1
    <3>1. Place(i)' = write
      <4>1. CASE filled = RingSize
        <5>1. i + 1 = RingSize
          BY <1>1, <1>2, <2>2, <4>1
        <5>2. Place(i)' = Place(i + 1)
          BY <1>9, <2>1, <4>1
        <5>3. QED
          BY <1>3, <4>1, <5>1, <5>2
      <4>2. CASE filled # RingSize
        <5>1. i = filled
          BY <1>1, <1>2, <2>1, <2>2, <4>2
        <5>2. QED
          BY <1>3, <1>9, <2>1, <4>2, <5>1
      <4>3. QED
        BY <4>1, <4>2
    <3>2. ring'[Place(i)'].serial = mixes /\ ring'[Place(i)'].mix = buffer
      BY <1>8, <3>1
    <3>3. Captured' - filled' + i + 1 = mixes
      <4>1. \A c, f \in Int : c - f + (f - 1) + 1 = c
        OBVIOUS
      <4>2. Captured' = mixes /\ filled' \in Int /\ mixes \in Int
        BY <1>5, <1>7
      <4>3. QED
        BY <2>2, <4>1, <4>2
    <3>4. taken < mixes
      BY <1>2, <1>7 DEF RingInv, RingTypes
    <3>5. QED
      BY <1>1, <3>2, <3>3, <3>4 DEF FrameFits, RingInv
  <2>3. CASE i # filled' - 1
    <3> DEFINE k == IF filled = RingSize THEN i + 1 ELSE i
    <3>1. k \in 0 .. filled - 1 /\ k \in 0 .. RingSize /\ (filled = RingSize => k < RingSize)
      BY <1>1, <1>2, <2>1, <2>3
    <3>2. Place(i)' = Place(k)
      BY <1>9, <2>1
    <3>3. FrameFits(k)
      BY <3>1, NewestUnfolds DEF RingInv
    <3>4. Place(k) # write /\ Place(k) \in 0 .. RingSize - 1
      <4>1. CASE filled = RingSize
        <5>1. k \in 0 .. RingSize /\ 0 < k /\ k < RingSize
          BY <1>2, <2>1, <3>1, <4>1
        <5>2. Place(k) # Place(0) /\ Place(0) = read /\ Place(filled) = read
          BY <1>2, <2>1, <4>1, <5>1, PlacesApart
        <5>3. QED
          BY <1>2, <1>3, <3>1, <5>2, PlacesApart
      <4>2. CASE filled # RingSize
        <5>1. k < filled /\ filled < RingSize
          BY <1>2, <2>1, <3>1, <4>2
        <5>2. QED
          BY <1>2, <1>3, <2>1, <3>1, <5>1, PlacesApart
      <4>3. QED
        BY <4>1, <4>2
    <3>5. ring'[Place(i)'] = ring[Place(k)]
      BY <1>8, <3>2, <3>4
    <3>6. Captured' - filled' + i + 1 = Captured - filled + k + 1
      BY <1>1, <1>2, <1>7, <2>1
    <3>7. QED
      BY <1>1, <3>3, <3>5, <3>6 DEF FrameFits
  <2>4. QED
    BY <2>2, <2>3
<1>12. RingHoldsNewest'
  <2>1. (\A i \in 0 .. filled - 1 : FrameFits(i))'
    BY <1>11
  <2>2. (running # "device0" => buffer = 0)'
    BY <1>1
  <2>3. QED
    BY <2>1, <2>2 DEF RingHoldsNewest, FrameFits, Place, Captured
<1>13. (taken + filled <= Captured)'
  BY <1>1, <1>2, <1>7 DEF RingInv, RingTypes
<1>14. QED
  BY <1>1, <1>6, <1>10, <1>12, <1>13 DEF RingInv

\* No step of a frame breaks the invariant of the ring.
LEMMA RingStep == RingInv /\ [FramesNext]_audioVars => RingInv'
<1> SUFFICES ASSUME RingInv, [FramesNext]_audioVars PROVE RingInv'
  OBVIOUS
\* A step that leaves the ring and the mixes alone may silence the buffer.
<1>1. CASE /\ UNCHANGED <<ring, read, write, filled, mixes, taken>>
           /\ buffer' \in {0, buffer}
           /\ (running' = "device0") = (running = "device0")
  <2>1. Captured' = Captured /\ RingTypes' /\ write' = Place(filled)'
    BY <1>1 DEF RingInv, RingTypes, Place, Captured
  <2>2. (running = "device0" => buffer \in {0, mixes})'
    BY <1>1 DEF RingInv
  <2>3. (\A i \in 0 .. filled - 1 : FrameFits(i))'
    <3>1. \A i : FrameFits(i)' <=> FrameFits(i)
      BY <1>1, <2>1 DEF FrameFits, Place
    <3>2. \A i \in 0 .. filled - 1 : FrameFits(i)
      BY NewestUnfolds DEF RingInv
    <3>3. QED
      BY <1>1, <3>1, <3>2
  <2>4. (running # "device0" => buffer = 0)'
    BY <1>1 DEF RingInv, RingHoldsNewest
  <2>5. RingHoldsNewest'
    BY <2>3, <2>4 DEF RingHoldsNewest, FrameFits, Place, Captured
  <2>6. QED
    BY <1>1, <2>1, <2>2, <2>5 DEF RingInv
<1>2. CASE BeginCallback
  <2>1. running = "none" /\ running' = Head(pending) /\ mixes \in Nat
    BY <1>2 DEF BeginCallback, RingInv, RingTypes
  <2>2. CASE Head(pending) = "device0"
    BY <1>2, <2>1, <2>2 DEF BeginCallback, RingInv, RingTypes, Place, Captured, RingHoldsNewest
  <2>3. CASE Head(pending) # "device0"
    BY <1>1, <1>2, <2>1, <2>3 DEF BeginCallback
  <2>4. QED
    BY <2>2, <2>3
<1>3. CASE ReturnCallback
  <2>1. CASE running = "device0"
    BY <1>3, <2>1, CaptureKeepsRing
  <2>2. CASE running # "device0"
    BY <1>1, <1>3, <2>2 DEF ReturnCallback
  <2>3. QED
    BY <2>1, <2>2
<1>4. CASE Swap
  BY <1>4, SwapKeepsRing
<1>5. ASSUME NEW device, RegisterFinalMix(device) \/ UnregisterFinalMix(device)
      PROVE  RingInv'
  BY <1>1, <1>5 DEF RegisterFinalMix, UnregisterFinalMix
<1>6. CASE RegisterAppFrame \/ DeregisterAppFrame \/ UNCHANGED audioVars
  BY <1>1, <1>6 DEF RegisterAppFrame, DeregisterAppFrame, audioVars
<1>7. QED
  BY <1>2, <1>3, <1>4, <1>5, <1>6 DEF FramesNext

\* For every size of the ring, and however swaps, callbacks and registrations
\* interleave, the ring holds the newest frames in the order they were captured,
\* each with its own mix or silence, and the renderer takes none twice.
THEOREM RingAlwaysNewest == FramesSpec => []RingHoldsNewest
<1>1. FramesInit => RingInv
  <2> SUFFICES ASSUME FramesInit PROVE RingInv
    OBVIOUS
  <2>1. RingSize \in Nat \ {0}
    BY FramesConstants
  <2>2. ring \in [0 .. RingSize - 1 -> [serial : Nat, mix : Nat]]
    BY DEF FramesInit
  <2>3. RingTypes /\ read = 0 /\ filled = 0
    BY <2>1, <2>2 DEF FramesInit, RingTypes
  <2>4. Place(filled) = 0
    BY <2>1, <2>3, PlacesApart
  <2>5. QED
    BY <2>3, <2>4 DEF FramesInit, RingInv, RingHoldsNewest, Captured
<1>2. RingInv => RingHoldsNewest
  BY DEF RingInv
<1>3. QED
  BY <1>1, <1>2, RingStep, PTL DEF FramesSpec

(***************************************************************************)
(* The voices.                                                             *)
(***************************************************************************)
VoiceRecords == [acquired : BOOLEAN, playing : BOOLEAN, looping : BOOLEAN, adpcm : BOOLEAN,
                 loop : Nat, end : Nat, current : Nat]
WordRecords == [playing : BOOLEAN, looping : BOOLEAN, loop : Nat, end : Nat, current : Nat]

\* What mixing may make of a voice v: its loop and its end stay, and if its
\* offsets made sense together they still do.
Continues(v, w) ==
  /\ w \in VoiceRecords
  /\ w.acquired = v.acquired /\ w.looping = v.looping /\ w.adpcm = v.adpcm
  /\ w.loop = v.loop /\ w.end = v.end
  /\ MakeSense(v) => MakeSense(w)

VoicesInv ==
  /\ voices \in [VoiceSlots -> VoiceRecords]
  /\ words \in [VoiceSlots -> WordRecords]
  /\ legal \in [VoiceSlots -> BOOLEAN]
  /\ WordsAgree
  /\ \A s \in VoiceSlots : voices[s].acquired /\ legal[s] => MakeSense(voices[s])

\* A remainder that does not reach the divisor is its own.
LEMMA Remainder ==
  ASSUME NEW n \in Nat \ {0}, NEW q \in Nat, NEW r \in 0 .. n - 1
  PROVE  (n * q + r) % n = r
OBVIOUS

\* One step along a block goes to the next remainder or to the next block.
LEMMA NextRemainder ==
  ASSUME NEW x \in Nat, NEW n \in Nat \ {0}, NEW k \in 0 .. n
  PROVE  (x + k) % n = IF (x % n) + k < n THEN (x % n) + k ELSE (x % n) + k - n
<1> DEFINE q == x \div n
           r == x % n
<1>1. q \in Nat /\ r \in 0 .. n - 1 /\ x = n * q + r
  BY Division
<1> HIDE DEF q, r
<1>2. CASE r + k < n
  <2>1. (n * q + (r + k)) % n = r + k
    BY <1>1, <1>2, Remainder
  <2>2. n * q \in Nat
    BY <1>1
  <2>3. x + k = n * q + (r + k)
    BY <1>1, <2>2
  <2>4. QED
    BY <1>2, <2>1, <2>3 DEF r
<1>3. CASE r + k >= n
  <2>1. (r + k) - n \in 0 .. n - 1 /\ q + 1 \in Nat
    BY <1>1, <1>3
  <2>2. (n * (q + 1) + ((r + k) - n)) % n = (r + k) - n
    BY <2>1, Remainder
  <2>3. n * (q + 1) = n * q + n /\ n * q \in Nat
    BY <1>1
  <2>4. x + k = n * (q + 1) + ((r + k) - n) /\ (r + k) - n = r + k - n
    BY <1>1, <2>1, <2>3
  <2>5. ~(r + k < n)
    BY <1>1, <1>3
  <2>6. QED
    BY <2>2, <2>4, <2>5 DEF r
<1>4. QED
  BY <1>1, <1>2, <1>3

\* Behind a header comes a sample.
LEMMA HeaderSkipped ==
  ASSUME NEW v \in VoiceRecords, NEW x \in Nat
  PROVE  /\ PastHeader(v, x) \in Nat /\ x <= PastHeader(v, x)
         /\ ~InHeader(v, PastHeader(v, x))
<1>1. AdpcmBlock \in Nat \ {0} /\ AdpcmBlock > 3 /\ 2 \in 0 .. AdpcmBlock
  BY VoicesConstants
<1>2. x % AdpcmBlock \in 0 .. AdpcmBlock - 1
  BY <1>1
<1>3. (x + 2) % AdpcmBlock = IF (x % AdpcmBlock) + 2 < AdpcmBlock THEN (x % AdpcmBlock) + 2
                             ELSE (x % AdpcmBlock) + 2 - AdpcmBlock
  BY <1>1, NextRemainder
<1>4. x % AdpcmBlock < 2 => ~((x + 2) % AdpcmBlock < 2)
  BY <1>1, <1>2, <1>3
<1>5. QED
  BY <1>4 DEF PastHeader, InHeader

\* From a sample before the end the next sample is not past it.
LEMMA NextSample ==
  ASSUME NEW v \in VoiceRecords, NEW x \in Nat, NEW e \in Nat,
         ~InHeader(v, x), ~InHeader(v, e), x < e
  PROVE  PastHeader(v, x + 1) <= e
<1>1. AdpcmBlock \in Nat \ {0} /\ AdpcmBlock > 3 /\ {1, 2} \subseteq 0 .. AdpcmBlock
  BY VoicesConstants
<1>2. x % AdpcmBlock \in 0 .. AdpcmBlock - 1
  BY <1>1
<1>3. CASE InHeader(v, x + 1)
  <2>1. v.adpcm /\ ~(x % AdpcmBlock < 2) /\ (x + 1) % AdpcmBlock < 2 /\ ~(e % AdpcmBlock < 2)
    BY <1>3 DEF InHeader
  <2>2. (x + 1) % AdpcmBlock = IF (x % AdpcmBlock) + 1 < AdpcmBlock THEN (x % AdpcmBlock) + 1
                               ELSE (x % AdpcmBlock) + 1 - AdpcmBlock
    BY <1>1, NextRemainder
  <2>3. (x + 2) % AdpcmBlock = IF (x % AdpcmBlock) + 2 < AdpcmBlock THEN (x % AdpcmBlock) + 2
                               ELSE (x % AdpcmBlock) + 2 - AdpcmBlock
    BY <1>1, NextRemainder
  <2>4. (x + 2) % AdpcmBlock < 2
    BY <1>1, <1>2, <2>1, <2>2, <2>3
  <2>5. e # x + 1 /\ e # x + 2
    BY <2>1, <2>4
  <2>6. PastHeader(v, x + 1) = x + 3
    BY <1>3 DEF PastHeader
  <2>7. QED
    BY <2>5, <2>6
<1>4. CASE ~InHeader(v, x + 1)
  BY <1>4 DEF PastHeader
<1>5. QED
  BY <1>3, <1>4

\* Decoding skips at most a header.
LEMMA DecodingContinues ==
  ASSUME NEW v \in VoiceRecords
  PROVE  /\ Continues(v, PastDecoding(v))
         /\ ~InHeader(PastDecoding(v), PastDecoding(v).current)
<1> DEFINE w == PastDecoding(v)
<1>1. /\ w \in VoiceRecords /\ w.acquired = v.acquired /\ w.looping = v.looping
      /\ w.adpcm = v.adpcm /\ w.loop = v.loop /\ w.end = v.end
      /\ w.current = PastHeader(v, v.current)
  BY HeaderSkipped DEF PastDecoding, VoiceRecords
<1>2. \A x : InHeader(w, x) <=> InHeader(v, x)
  BY <1>1 DEF InHeader
<1>3. ~InHeader(v, w.current)
  BY <1>1, HeaderSkipped DEF VoiceRecords
<1>4. \A x : PastHeader(w, x) = PastHeader(v, x)
  BY <1>2 DEF PastHeader
<1>5. PastHeader(w, w.current) = w.current
  BY <1>2, <1>3 DEF PastHeader
<1>6. MakeSense(v) => MakeSense(w)
  BY <1>1, <1>2, <1>4, <1>5 DEF MakeSense
<1>7. QED
  BY <1>1, <1>2, <1>3, <1>6 DEF Continues

\* One sample on, at the end back to the loop or stopped.
LEMMA AdvanceContinues ==
  ASSUME NEW v \in VoiceRecords
  PROVE  Continues(v, Advanced(v))
<1> DEFINE d == PastDecoding(v)
           w == Advanced(v)
<1>1. Continues(v, d) /\ d \in VoiceRecords /\ ~InHeader(d, d.current)
  BY DecodingContinues DEF Continues
<1>2. w = IF d.current = d.end
          THEN IF d.looping THEN [d EXCEPT !.current = d.loop] ELSE [d EXCEPT !.playing = FALSE]
          ELSE [d EXCEPT !.current = PastHeader(d, d.current + 1)]
  BY DEF Advanced
<1> HIDE DEF d, w
<1>3. PastHeader(d, d.current + 1) \in Nat /\ ~InHeader(d, PastHeader(d, d.current + 1))
  BY <1>1, HeaderSkipped DEF VoiceRecords
<1>4. /\ w \in VoiceRecords /\ w.acquired = d.acquired /\ w.looping = d.looping
      /\ w.adpcm = d.adpcm /\ w.loop = d.loop /\ w.end = d.end
      /\ w.current = IF d.current = d.end THEN IF d.looping THEN d.loop ELSE d.current
                     ELSE PastHeader(d, d.current + 1)
  <2>1. CASE d.current = d.end
    BY <1>1, <1>2, <2>1 DEF VoiceRecords
  <2>2. CASE d.current # d.end
    BY <1>1, <1>2, <1>3, <2>2 DEF VoiceRecords
  <2>3. QED
    BY <2>1, <2>2
<1>5. \A x : InHeader(w, x) <=> InHeader(d, x)
  BY <1>4 DEF InHeader
<1>6. \A x : PastHeader(w, x) = PastHeader(d, x)
  BY <1>5 DEF PastHeader
<1>7. ASSUME MakeSense(d) PROVE PastHeader(d, w.current) <= w.end
  <2>1. ~InHeader(d, d.end) /\ d.current <= d.end /\ d.current \in Nat /\ d.end \in Nat
    BY <1>1, <1>7 DEF MakeSense, PastHeader, VoiceRecords
  <2>2. CASE d.current = d.end
    BY <1>4, <1>7, <2>2 DEF MakeSense
  <2>3. CASE d.current # d.end
    <3>1. PastHeader(d, d.current + 1) <= d.end
      BY <1>1, <2>1, <2>3, NextSample
    <3>2. PastHeader(d, w.current) = w.current
      BY <1>3, <1>4, <2>3 DEF PastHeader
    <3>3. QED
      BY <1>4, <2>3, <3>1, <3>2
  <2>4. QED
    BY <2>2, <2>3
<1>8. MakeSense(d) => MakeSense(w)
  BY <1>4, <1>5, <1>6, <1>7 DEF MakeSense
<1>9. Continues(v, w)
  BY <1>1, <1>4, <1>8 DEF Continues
<1>10. QED
  BY <1>9 DEF w


\* The voice after each of n samples.
Track(by, v, n) ==
  by = [i \in 0 .. n |-> IF i = 0 \/ ~v.playing THEN v
                         ELSE IF by[i - 1].playing THEN Advanced(by[i - 1]) ELSE by[i - 1]]

\* A track for fewer samples goes on to the next one.
LEMMA TrackExists ==
  ASSUME NEW v
  PROVE  \A n \in Nat : \E by : Track(by, v, n)
<1> DEFINE Missing == {n \in Nat : ~\E by : Track(by, v, n)}
<1>1. SUFFICES ASSUME Missing # {} PROVE FALSE
  OBVIOUS
<1>2. PICK m \in Missing : \A n \in Missing : m <= n
  BY <1>1, LeastElement
<1>3. m \in Nat /\ ~\E by : Track(by, v, m)
  BY <1>2
<1>4. CASE m = 0
  <2> DEFINE only == [i \in 0 .. 0 |-> v]
  <2>1. Track(only, v, 0)
    BY DEF Track
  <2>2. QED
    BY <1>3, <1>4, <2>1
<1>5. CASE m # 0
  <2>1. m - 1 \in Nat /\ m - 1 \notin Missing
    BY <1>2, <1>3, <1>5
  <2>2. PICK by : Track(by, v, m - 1)
    BY <2>1
  <2> DEFINE last == IF ~v.playing THEN v
                     ELSE IF by[m - 1].playing THEN Advanced(by[m - 1]) ELSE by[m - 1]
             longer == [i \in 0 .. m |-> IF i = m THEN last ELSE by[i]]
  <2>3. \A i \in 0 .. m - 1 : longer[i] = by[i]
    BY <1>3
  <2>4. \A i \in 0 .. m - 1 : by[i] = IF i = 0 \/ ~v.playing THEN v
                         ELSE IF by[i - 1].playing THEN Advanced(by[i - 1]) ELSE by[i - 1]
    BY <2>2 DEF Track
  <2>5. longer[m] = last
    BY <1>3
  <2> HIDE DEF longer
  <2>6. ASSUME NEW i \in 0 .. m
        PROVE  longer[i] = IF i = 0 \/ ~v.playing THEN v
                           ELSE IF longer[i - 1].playing THEN Advanced(longer[i - 1])
                                ELSE longer[i - 1]
    <3>1. CASE i = m
      <4>1. longer[m - 1] = by[m - 1]
        BY <1>3, <1>5, <2>3
      <4>2. QED
        BY <1>5, <2>5, <3>1, <4>1
    <3>2. CASE i # m
      <4>1. i \in 0 .. m - 1 /\ (i # 0 => i - 1 \in 0 .. m - 1)
        BY <1>3, <3>2
      <4>2. CASE i = 0
        BY <2>3, <2>4, <4>1, <4>2
      <4>3. CASE i # 0
        BY <2>3, <2>4, <4>1, <4>3
      <4>4. QED
        BY <4>2, <4>3
    <3>3. QED
      BY <3>1, <3>2
  <2>7. longer = [i \in 0 .. m |-> longer[i]]
    BY DEF longer
  <2>8. Track(longer, v, m)
    BY <2>6, <2>7 DEF Track
  <2>9. QED
    BY <1>3, <2>8
<1>6. QED
  BY <1>4, <1>5

\* A voice that continues one that continues a third continues the third.
LEMMA ContinuesOn ==
  ASSUME NEW v, NEW w, NEW x, Continues(v, w), Continues(w, x)
  PROVE  Continues(v, x)
BY DEF Continues

\* Every sample of a track continues its first voice.
LEMMA TrackContinues ==
  ASSUME NEW v \in VoiceRecords, NEW n \in Nat, NEW by, Track(by, v, n)
  PROVE  \A i \in 0 .. n : Continues(v, by[i])
<1>1. Continues(v, v)
  BY DEF Continues
<1>2. \A i \in 0 .. n : by[i] = IF i = 0 \/ ~v.playing THEN v
                     ELSE IF by[i - 1].playing THEN Advanced(by[i - 1]) ELSE by[i - 1]
  BY DEF Track
<1> DEFINE Bad == {i \in 0 .. n : ~Continues(v, by[i])}
<1>3. SUFFICES ASSUME Bad # {} PROVE FALSE
  OBVIOUS
<1>4. Bad \in SUBSET Nat
  OBVIOUS
<1>5. PICK m \in Bad : \A i \in Bad : m <= i
  BY <1>3, <1>4, LeastElement
<1>6. m \in 0 .. n /\ ~Continues(v, by[m])
  BY <1>5
<1>7. by[m] # v
  BY <1>1, <1>6
<1>8. m # 0 /\ v.playing
  BY <1>2, <1>6, <1>7
<1>9. m - 1 \in 0 .. n /\ m - 1 \notin Bad
  BY <1>5, <1>6, <1>8
<1>10. Continues(v, by[m - 1])
  BY <1>9
<1>11. by[m - 1] \in VoiceRecords
  BY <1>10 DEF Continues
<1>12. by[m] \in {Advanced(by[m - 1]), by[m - 1]}
  BY <1>2, <1>6, <1>8
<1>13. Continues(v, Advanced(by[m - 1]))
  BY <1>10, <1>11, AdvanceContinues, ContinuesOn
<1>14. QED
  BY <1>6, <1>10, <1>12, <1>13

\* A voice advanced by any number of samples continues the one it was.
LEMMA SamplesContinue ==
  ASSUME NEW v \in VoiceRecords, NEW n \in Nat
  PROVE  Continues(v, AdvancedBy(v, n))
<1>1. PICK some : Track(some, v, n)
  BY TrackExists
<1>2. \E by : Track(by, v, n)
  BY <1>1
<1> DEFINE by == CHOOSE track : Track(track, v, n)
<1>3. Track(by, v, n)
  BY <1>2
<1>4. AdvancedBy(v, n) = by[n]
  BY DEF AdvancedBy, Track
<1>5. n \in 0 .. n
  OBVIOUS
<1> HIDE DEF by
<1>6. QED
  BY <1>3, <1>4, <1>5, TrackContinues


\* A guest's call changes one voice and its words alike, and keeps what it
\* knows of its offsets.
LEMMA VoiceChanged ==
  ASSUME VoicesInv, NEW s \in VoiceSlots, NEW v \in VoiceRecords, NEW w \in WordRecords,
         NEW sense \in BOOLEAN,
         voices' = [voices EXCEPT ![s] = v], words' = [words EXCEPT ![s] = w],
         legal' = [legal EXCEPT ![s] = sense],
         v.acquired => /\ w.playing = v.playing /\ w.looping = v.looping
                       /\ w.loop = v.loop /\ w.end = v.end /\ w.current = v.current,
         v.acquired /\ sense => MakeSense(v)
  PROVE  VoicesInv'
<1>1. /\ voices' \in [VoiceSlots -> VoiceRecords] /\ words' \in [VoiceSlots -> WordRecords]
      /\ legal' \in [VoiceSlots -> BOOLEAN]
  BY DEF VoicesInv
<1>2. \A t \in VoiceSlots : /\ voices'[t] = IF t = s THEN v ELSE voices[t]
                            /\ words'[t] = IF t = s THEN w ELSE words[t]
                            /\ legal'[t] = IF t = s THEN sense ELSE legal[t]
  BY DEF VoicesInv
<1>3. \A t \in VoiceSlots :
        voices'[t].acquired =>
          words'[t] = [playing |-> voices'[t].playing, looping |-> voices'[t].looping,
                       loop |-> voices'[t].loop, end |-> voices'[t].end,
                       current |-> voices'[t].current]
  <2> TAKE t \in VoiceSlots
  <2>1. CASE t = s
    BY <1>2, <2>1 DEF WordRecords
  <2>2. CASE t # s
    BY <1>2, <2>2 DEF VoicesInv, WordsAgree
  <2>3. QED
    BY <2>1, <2>2
<1>4. \A t \in VoiceSlots : voices'[t].acquired /\ legal'[t] => MakeSense(voices'[t])
  BY <1>2 DEF VoicesInv
<1>5. QED
  BY <1>1, <1>3, <1>4 DEF VoicesInv, WordsAgree

\* Publishing sets the state and the position of the words.
LEMMA PublishedWords ==
  ASSUME NEW w \in WordRecords, NEW v \in VoiceRecords
  PROVE  /\ Published(w, v) \in WordRecords
         /\ Published(w, v) = [playing |-> v.playing, looping |-> w.looping, loop |-> w.loop,
                               end |-> w.end, current |-> v.current]
<1> DEFINE p == Published(w, v)
<1>1. /\ p \in WordRecords /\ p.playing = v.playing /\ p.looping = w.looping /\ p.loop = w.loop
      /\ p.end = w.end /\ p.current = v.current
  BY DEF Published, WordRecords, VoiceRecords
<1> HIDE DEF p
<1>2. p = [playing |-> v.playing, looping |-> w.looping, loop |-> w.loop,
           end |-> w.end, current |-> v.current]
  BY <1>1 DEF WordRecords
<1>3. QED
  BY <1>1, <1>2 DEF p

\* What mixing publishes is what it played.
LEMMA MixingKeepsVoices ==
  ASSUME VoicesInv,
         NEW by \in [VoiceSlots -> 0 .. MaxAdvance], NEW more \in [VoiceSlots -> BOOLEAN],
         MixFrame(by, more)
  PROVE  VoicesInv'
<1> DEFINE plays == {s \in VoiceSlots : voices[s].acquired /\ voices[s].playing}
           advanced(s) == AdvancedBy(PastDecoding(voices[s]), by[s])
           mixed(s) == IF more[s] /\ advanced(s).playing THEN PastDecoding(advanced(s))
                       ELSE advanced(s)
<1>1. /\ voices' = [s \in VoiceSlots |-> IF s \in plays THEN mixed(s) ELSE voices[s]]
      /\ words' = [s \in VoiceSlots |-> IF s \in plays THEN Published(words[s], mixed(s))
                                        ELSE words[s]]
      /\ legal' = legal
  BY DEF MixFrame
<1>2. ASSUME NEW s \in VoiceSlots PROVE Continues(voices[s], mixed(s))
  <2>1. voices[s] \in VoiceRecords /\ by[s] \in Nat
    BY VoicesConstants DEF VoicesInv
  <2>2. Continues(voices[s], PastDecoding(voices[s])) /\ PastDecoding(voices[s]) \in VoiceRecords
    BY <2>1, DecodingContinues DEF Continues
  <2>3. Continues(PastDecoding(voices[s]), advanced(s))
    BY <2>1, <2>2, SamplesContinue
  <2>4. Continues(voices[s], advanced(s)) /\ advanced(s) \in VoiceRecords
    BY <2>2, <2>3, ContinuesOn DEF Continues
  <2>5. Continues(advanced(s), PastDecoding(advanced(s)))
    BY <2>4, DecodingContinues
  <2>6. Continues(voices[s], PastDecoding(advanced(s)))
    BY <2>4, <2>5, ContinuesOn
  <2>7. QED
    BY <2>4, <2>6
<1>3. plays \subseteq VoiceSlots
  OBVIOUS
<1> HIDE DEF mixed, plays
<1>4. \A s \in VoiceSlots :
        /\ voices'[s] = IF s \in plays THEN mixed(s) ELSE voices[s]
        /\ words'[s] = IF s \in plays THEN Published(words[s], mixed(s)) ELSE words[s]
        /\ voices[s] \in VoiceRecords /\ words[s] \in WordRecords
        /\ mixed(s) \in VoiceRecords
  BY <1>1, <1>2 DEF VoicesInv, Continues
<1>5. \A s \in VoiceSlots : Published(words[s], mixed(s)) \in WordRecords
  BY <1>4, PublishedWords
<1>6. voices' \in [VoiceSlots -> VoiceRecords] /\ words' \in [VoiceSlots -> WordRecords]
  BY <1>1, <1>4, <1>5
<1>7. ASSUME NEW s \in VoiceSlots, voices'[s].acquired
      PROVE  words'[s] = [playing |-> voices'[s].playing, looping |-> voices'[s].looping,
                          loop |-> voices'[s].loop, end |-> voices'[s].end,
                          current |-> voices'[s].current]
  <2>1. CASE s \in plays
    <3>1. voices[s].acquired /\ Continues(voices[s], mixed(s))
      BY <1>2, <2>1 DEF plays
    <3>2. words[s] = [playing |-> voices[s].playing, looping |-> voices[s].looping,
                      loop |-> voices[s].loop, end |-> voices[s].end,
                      current |-> voices[s].current]
      BY <3>1 DEF VoicesInv, WordsAgree
    <3>3. Published(words[s], mixed(s))
            = [playing |-> mixed(s).playing, looping |-> voices[s].looping,
               loop |-> voices[s].loop, end |-> voices[s].end, current |-> mixed(s).current]
      <4>1. Published(words[s], mixed(s))
              = [playing |-> mixed(s).playing, looping |-> words[s].looping,
                 loop |-> words[s].loop, end |-> words[s].end, current |-> mixed(s).current]
        BY <1>4, PublishedWords
      <4>2. /\ words[s].looping = voices[s].looping /\ words[s].loop = voices[s].loop
            /\ words[s].end = voices[s].end
        BY <3>2
      <4>3. QED
        BY <4>1, <4>2
    <3>4. QED
      BY <1>4, <2>1, <3>1, <3>3 DEF Continues
  <2>2. CASE s \notin plays
    BY <1>4, <1>7, <2>2 DEF VoicesInv, WordsAgree
  <2>3. QED
    BY <2>1, <2>2
<1>8. ASSUME NEW s \in VoiceSlots, voices'[s].acquired, legal'[s]
      PROVE  MakeSense(voices'[s])
  <2>1. voices[s].acquired => MakeSense(voices[s])
    BY <1>1, <1>8 DEF VoicesInv
  <2>2. QED
    BY <1>2, <1>4, <1>8, <2>1 DEF Continues
<1>9. QED
  BY <1>1, <1>6, <1>7, <1>8 DEF VoicesInv, WordsAgree

\* One step of a voice's calls: for each what it makes of the voice.
LEMMA CallKeepsVoices ==
  ASSUME VoicesInv, NEW s \in VoiceSlots, voices[s].acquired,
         \/ FreeVoice(s)
         \/ \E adpcm, looping \in BOOLEAN, loop, end, current \in Offsets :
              SetVoiceOffsets(s, adpcm, looping, loop, end, current)
         \/ \E offset \in Offsets : SetVoiceEndOffset(s, offset) \/ SetVoiceLoopOffset(s, offset)
         \/ \E on \in BOOLEAN : SetVoiceLoop(s, on) \/ SetVoiceState(s, on)
  PROVE  VoicesInv'
<1>1. /\ voices[s] \in VoiceRecords /\ words[s] \in WordRecords /\ legal[s] \in BOOLEAN
      /\ legal[s] => MakeSense(voices[s])
      /\ words[s] = [playing |-> voices[s].playing, looping |-> voices[s].looping,
                     loop |-> voices[s].loop, end |-> voices[s].end,
                     current |-> voices[s].current]
      /\ legal = [legal EXCEPT ![s] = legal[s]]
  BY DEF VoicesInv, WordsAgree
<1>2. Offsets \subseteq Nat
  BY VoicesConstants DEF Offsets
<1>3. \A v : MakeSense(v) \in BOOLEAN
  BY DEF MakeSense
<1>4. CASE FreeVoice(s)
  <2> DEFINE w == [words[s] EXCEPT !.playing = FALSE]
  <2>1. Unacquired \in VoiceRecords /\ w \in WordRecords /\ ~Unacquired.acquired
    BY <1>1 DEF Unacquired, VoiceRecords, WordRecords
  <2>2. /\ voices' = [voices EXCEPT ![s] = Unacquired]
        /\ words' = [words EXCEPT ![s] = w] /\ legal' = [legal EXCEPT ![s] = legal[s]]
    BY <1>1, <1>4 DEF FreeVoice
  <2> HIDE DEF w
  <2>3. QED
    BY <1>1, <2>1, <2>2, VoiceChanged
<1>5. ASSUME NEW adpcm \in BOOLEAN, NEW looping \in BOOLEAN, NEW loop \in Offsets,
             NEW end \in Offsets, NEW current \in Offsets,
             SetVoiceOffsets(s, adpcm, looping, loop, end, current)
      PROVE  VoicesInv'
  <2> DEFINE v == [voices[s] EXCEPT !.adpcm = adpcm, !.looping = looping, !.loop = loop,
                                    !.end = end, !.current = current]
             w == [words[s] EXCEPT !.looping = looping, !.loop = loop, !.end = end,
                                   !.current = current]
  <2> loop \in Nat /\ end \in Nat /\ current \in Nat
    BY <1>2
  <2>v. v \in VoiceRecords
    BY <1>1 DEF VoiceRecords
  <2>w. w \in WordRecords
    BY <1>1 DEF WordRecords
  <2>1. /\ w.playing = v.playing /\ w.looping = v.looping /\ w.loop = v.loop /\ w.end = v.end
        /\ w.current = v.current
    BY <1>1 DEF VoiceRecords, WordRecords
  <2>2. /\ voices' = [voices EXCEPT ![s] = v] /\ words' = [words EXCEPT ![s] = w]
        /\ legal' = [legal EXCEPT ![s] = MakeSense(v)]
    BY <1>5 DEF SetVoiceOffsets, Change
  <2> HIDE DEF v, w
  <2>3. QED
    BY <1>3, <2>v, <2>w, <2>1, <2>2, VoiceChanged
<1>6. ASSUME NEW end \in Offsets, SetVoiceEndOffset(s, end) PROVE VoicesInv'
  <2> DEFINE v == [voices[s] EXCEPT !.end = end]
             w == [words[s] EXCEPT !.end = end]
  <2>1. /\ v \in VoiceRecords /\ w \in WordRecords
        /\ w.playing = v.playing /\ w.looping = v.looping /\ w.loop = v.loop /\ w.end = v.end
        /\ w.current = v.current
    BY <1>1, <1>2 DEF VoiceRecords, WordRecords
  <2>2. /\ voices' = [voices EXCEPT ![s] = v] /\ words' = [words EXCEPT ![s] = w]
        /\ legal' = [legal EXCEPT ![s] = MakeSense(v)]
    BY <1>6 DEF SetVoiceEndOffset, Change
  <2> HIDE DEF v, w
  <2>3. QED
    BY <1>3, <2>1, <2>2, VoiceChanged
<1>7. ASSUME NEW loop \in Offsets, SetVoiceLoopOffset(s, loop) PROVE VoicesInv'
  <2> DEFINE v == [voices[s] EXCEPT !.loop = loop]
             w == [words[s] EXCEPT !.loop = loop]
  <2>1. /\ v \in VoiceRecords /\ w \in WordRecords
        /\ w.playing = v.playing /\ w.looping = v.looping /\ w.loop = v.loop /\ w.end = v.end
        /\ w.current = v.current
    BY <1>1, <1>2 DEF VoiceRecords, WordRecords
  <2>2. /\ voices' = [voices EXCEPT ![s] = v] /\ words' = [words EXCEPT ![s] = w]
        /\ legal' = [legal EXCEPT ![s] = MakeSense(v)]
    BY <1>7 DEF SetVoiceLoopOffset, Change
  <2> HIDE DEF v, w
  <2>3. QED
    BY <1>3, <2>1, <2>2, VoiceChanged
<1>8. ASSUME NEW looping \in BOOLEAN, SetVoiceLoop(s, looping) PROVE VoicesInv'
  <2> DEFINE v == [voices[s] EXCEPT !.looping = looping]
             w == [words[s] EXCEPT !.looping = looping]
  <2>1. /\ v \in VoiceRecords /\ w \in WordRecords
        /\ w.playing = v.playing /\ w.looping = v.looping /\ w.loop = v.loop /\ w.end = v.end
        /\ w.current = v.current
    BY <1>1 DEF VoiceRecords, WordRecords
  <2>2. /\ voices' = [voices EXCEPT ![s] = v] /\ words' = [words EXCEPT ![s] = w]
        /\ legal' = [legal EXCEPT ![s] = MakeSense(v)]
    BY <1>8 DEF SetVoiceLoop, Change
  <2> HIDE DEF v, w
  <2>3. QED
    BY <1>3, <2>1, <2>2, VoiceChanged
<1>9. ASSUME NEW playing \in BOOLEAN, SetVoiceState(s, playing) PROVE VoicesInv'
  <2> DEFINE v == [voices[s] EXCEPT !.playing = playing]
             w == [words[s] EXCEPT !.playing = playing]
  <2>1. /\ v \in VoiceRecords /\ w \in WordRecords
        /\ w.playing = v.playing /\ w.looping = v.looping /\ w.loop = v.loop /\ w.end = v.end
        /\ w.current = v.current
    BY <1>1 DEF VoiceRecords, WordRecords
  <2>2. MakeSense(voices[s]) => MakeSense(v)
    BY <1>1 DEF MakeSense, PastHeader, InHeader, VoiceRecords
  <2>3. /\ voices' = [voices EXCEPT ![s] = v] /\ words' = [words EXCEPT ![s] = w]
        /\ legal' = [legal EXCEPT ![s] = legal[s]]
    BY <1>1, <1>9 DEF SetVoiceState
  <2> HIDE DEF v, w
  <2>4. QED
    BY <1>1, <2>1, <2>2, <2>3, VoiceChanged
<1>10. QED
  BY <1>4, <1>5, <1>6, <1>7, <1>8, <1>9

\* No call and no mix breaks the invariant of the voices.
LEMMA VoicesStep == VoicesInv /\ [VoicesNext]_voiceVars => VoicesInv'
<1> SUFFICES ASSUME VoicesInv, [VoicesNext]_voiceVars PROVE VoicesInv'
  OBVIOUS
<1>1. Unacquired \in VoiceRecords /\ ZeroWords \in WordRecords /\ ~Unacquired.acquired
  BY DEF Unacquired, ZeroWords, VoiceRecords, WordRecords
<1>2. CASE UNCHANGED voiceVars
  BY <1>2 DEF voiceVars, VoicesInv, WordsAgree
<1>3. CASE ForgetVoices
  BY <1>1, <1>3 DEF ForgetVoices, VoicesInv, WordsAgree
<1>4. CASE AcquireVoice
  <2>1. PICK s \in VoiceSlots :
          /\ voices' = [voices EXCEPT ![s] = [Unacquired EXCEPT !.acquired = TRUE]]
          /\ words' = [words EXCEPT ![s] = ZeroWords]
          /\ legal' = [legal EXCEPT ![s] = FALSE]
    BY <1>4 DEF AcquireVoice
  <2> DEFINE v == [Unacquired EXCEPT !.acquired = TRUE]
  <2>2. /\ v \in VoiceRecords
        /\ ZeroWords.playing = v.playing /\ ZeroWords.looping = v.looping
        /\ ZeroWords.loop = v.loop /\ ZeroWords.end = v.end /\ ZeroWords.current = v.current
    BY DEF Unacquired, ZeroWords, VoiceRecords
  <2>3. voices' = [voices EXCEPT ![s] = v]
    BY <2>1
  <2> HIDE DEF v
  <2>4. QED
    BY <1>1, <2>1, <2>2, <2>3, VoiceChanged
<1>5. ASSUME NEW s \in VoiceSlots, voices[s].acquired,
             \/ FreeVoice(s)
             \/ \E adpcm, looping \in BOOLEAN, loop, end, current \in Offsets :
                  SetVoiceOffsets(s, adpcm, looping, loop, end, current)
             \/ \E offset \in Offsets : SetVoiceEndOffset(s, offset) \/ SetVoiceLoopOffset(s, offset)
             \/ \E on \in BOOLEAN : SetVoiceLoop(s, on) \/ SetVoiceState(s, on)
      PROVE  VoicesInv'
  BY <1>5, CallKeepsVoices
<1>6. ASSUME NEW by \in [VoiceSlots -> 0 .. MaxAdvance], NEW more \in [VoiceSlots -> BOOLEAN],
             MixFrame(by, more)
      PROVE  VoicesInv'
  BY <1>6, MixingKeepsVoices
<1>7. QED
  BY <1>2, <1>3, <1>4, <1>5, <1>6 DEF VoicesNext

\* The invariant of the voices holds in every reachable state.
LEMMA VoicesAlways == VoicesSpec => []VoicesInv
<1>1. VoicesInit => VoicesInv
  <2> SUFFICES ASSUME VoicesInit PROVE VoicesInv
    OBVIOUS
  <2>1. Unacquired \in VoiceRecords /\ ZeroWords \in WordRecords /\ ~Unacquired.acquired
    BY DEF Unacquired, ZeroWords, VoiceRecords, WordRecords
  <2>2. QED
    BY <2>1 DEF VoicesInit, VoicesInv, WordsAgree
<1>2. QED
  BY <1>1, VoicesStep, PTL DEF VoicesSpec

\* For every number of voices and every ratio, what the guest reads of a voice it
\* holds is what the mixer plays.
THEOREM WordsAlwaysAgree == VoicesSpec => []WordsAgree
<1>1. VoicesInv => WordsAgree
  BY DEF VoicesInv
<1>2. QED
  BY <1>1, VoicesAlways, PTL

\* For every size of block and every ratio, a voice whose offsets make sense
\* never passes its end.
THEOREM VoicesNeverPassEnd == VoicesSpec => []VoicesStayInside
<1>1. VoicesInv => VoicesStayInside
  BY DEF VoicesInv, VoicesStayInside, MakeSense
<1>2. QED
  BY <1>1, VoicesAlways, PTL

(***************************************************************************)
(* The filesystem.  For every set of clients, commands and files, and      *)
(* wherever the handle counter wraps: handles are never reused, always     *)
(* owned, and the title's content is never changed.                        *)
(***************************************************************************)
(* While the counter has not wrapped it is above every handle given out.     *)
HandlesFresh ==
  /\ OpenHandles \subseteq issued
  /\ nextHandle # 0 => \A h \in issued : h < nextHandle

(* An open file stays on the host: nothing removes one.                      *)
OpenFilesExist == \A h \in DOMAIN files : host[files[h].path] # Absent

FilesystemInv == TypeOK /\ HandlesOwned /\ HandlesFresh /\ OpenFilesExist /\ ContentUntouched

-----------------------------------------------------------------------------
(* Reporting an error makes no client. *)
LEMMA ReportKeepsClients ==
  ASSUME HandlesOwned, NEW c, NEW detail, Report(c, detail)
  PROVE  DOMAIN lastErrors' = clients
BY DEF HandlesOwned, Report

(* A mode is four flags. *)
LEMMA ModeFlags ==
  ASSUME NEW mode \in Modes
  PROVE  mode \in [read : BOOLEAN, write : BOOLEAN, truncate : BOOLEAN, append : BOOLEAN]
<1>1. \E r, w, t, a \in BOOLEAN : mode = Mode(r, w, t, a)
  <2>1. TRUE \in BOOLEAN /\ FALSE \in BOOLEAN
    OBVIOUS
  <2>2. CASE mode = Mode(TRUE, FALSE, FALSE, FALSE)
    BY <2>1, <2>2, Zenon
  <2>3. CASE mode = Mode(TRUE, TRUE, FALSE, FALSE)
    BY <2>1, <2>3, Zenon
  <2>4. CASE mode = Mode(FALSE, TRUE, TRUE, FALSE)
    BY <2>1, <2>4, Zenon
  <2>5. CASE mode = Mode(TRUE, TRUE, TRUE, FALSE)
    BY <2>1, <2>5, Zenon
  <2>6. CASE mode = Mode(FALSE, TRUE, FALSE, TRUE)
    BY <2>1, <2>6, Zenon
  <2>7. CASE mode = Mode(TRUE, TRUE, FALSE, TRUE)
    BY <2>1, <2>7, Zenon
  <2> QED
    BY <2>2, <2>3, <2>4, <2>5, <2>6, <2>7, Zenon DEF Modes
<1>2. PICK r \in BOOLEAN, w \in BOOLEAN, t \in BOOLEAN, a \in BOOLEAN : mode = Mode(r, w, t, a)
  BY <1>1, Zenon
<1>3. Mode(r, w, t, a) \in [read : BOOLEAN, write : BOOLEAN, truncate : BOOLEAN, append : BOOLEAN]
  BY DEF Mode
<1> QED
  BY <1>2, <1>3, Zenon

(* A step that leaves the registry and both tables' handles alone, and the   *)
(* host too, keeps the invariant.                                            *)
LEMMA QuietStep ==
  ASSUME FilesystemInv, NEW c, NEW detail, Report(c, detail),
         UNCHANGED <<registry, tables, hostVars, stopped>>
  PROVE  FilesystemInv'
<1>1. DOMAIN lastErrors' = clients
  BY ReportKeepsClients DEF FilesystemInv
<1> QED
  BY <1>1 DEF FilesystemInv, TypeOK, HandlesOwned, HandlesFresh, OpenHandles, OpenFilesExist, ContentUntouched,
              registry, tables, hostVars

(* Starting, stopping, and clients that come and go. *)
LEMMA RegistryStep ==
  ASSUME FilesystemInv, RegistryNext
  PROVE  FilesystemInv'
<1> USE DEF FilesystemInv, TypeOK, HandlesOwned, HandlesFresh, OpenHandles, OpenFilesExist, ContentUntouched,
            registry, tables, hostVars
<1>1. CASE FSInit
  BY <1>1 DEF FSInit
<1>2. CASE FSShutdown
  BY <1>2 DEF FSShutdown, Nothing
<1>3. CASE SAVEInit
  BY <1>3 DEF SAVEInit
<1>4. CASE SAVEShutdown
  BY <1>4 DEF SAVEShutdown
<1>5. CASE SAVEInitSaveDir
  BY <1>5 DEF SAVEInitSaveDir
<1>6. ASSUME NEW c \in Clients, FSAddClient(c)
      PROVE  FilesystemInv'
  <2>1. CASE c \in clients
    BY <1>6, <2>1, QuietStep DEF FSAddClient
  <2>2. CASE c \notin clients
    BY <1>6, <2>2 DEF FSAddClient
  <2> QED
    BY <2>1, <2>2
<1>7. ASSUME NEW c \in Clients, FSDelClient(c)
      PROVE  FilesystemInv'
  BY <1>7 DEF FSDelClient, CloseClientHandles, Without
<1>8. ASSUME NEW c \in Clients, Fail(c)
      PROVE  FilesystemInv'
  BY <1>8, QuietStep DEF Fail
<1>9. ASSUME NEW cmd \in Commands, FSInitCmdBlock(cmd)
      PROVE  FilesystemInv'
  BY <1>9 DEF FSInitCmdBlock
<1> QED
  BY <1>1, <1>2, <1>3, <1>4, <1>5, <1>6, <1>7, <1>8, <1>9 DEF RegistryNext

-----------------------------------------------------------------------------
(* Opening. *)

(* The handle given out is new, and the counter stays above all of them.     *)
LEMMA IssueKeeps ==
  ASSUME FilesystemInv, nextHandle # 0, Issue
  PROVE  /\ nextHandle \in Handles /\ nextHandle \notin issued
         /\ nextHandle' \in 0..LastHandle /\ issued' \subseteq Handles
         /\ issued' = issued \cup {nextHandle}
         /\ nextHandle' # 0 => \A h \in issued' : h < nextHandle'
BY FilesystemConstants DEF FilesystemInv, TypeOK, HandlesFresh, Issue, HandleAfter, Handles

(* A client's file or directory gets a handle of its own. *)
LEMMA OpenedFileOwned ==
  ASSUME FilesystemInv, nextHandle # 0, Issue, NEW record \in FileRecords,
         record.client \in clients, files' = With(files, nextHandle, record),
         UNCHANGED <<clients, directories>>
  PROVE  /\ DOMAIN files' \subseteq Handles /\ \A h \in DOMAIN files' : files'[h] \in FileRecords
         /\ \A h \in DOMAIN files' : files'[h].client \in clients
         /\ DOMAIN files' \cap DOMAIN directories' = {}
         /\ HandlesFresh'
<1>1. nextHandle \in Handles /\ nextHandle \notin issued /\ issued' = issued \cup {nextHandle}
      /\ (nextHandle' # 0 => \A h \in issued' : h < nextHandle')
  BY IssueKeeps
<1>2. DOMAIN files' = DOMAIN files \cup {nextHandle} /\ files'[nextHandle] = record
      /\ (\A g \in DOMAIN files : g # nextHandle => files'[g] = files[g])
  BY DEF With
<1> QED
  BY <1>1, <1>2 DEF FilesystemInv, TypeOK, HandlesOwned, HandlesFresh, OpenHandles

(* The same of a directory. *)
LEMMA OpenedDirectoryOwned ==
  ASSUME FilesystemInv, nextHandle # 0, Issue, NEW record \in DirectoryRecords,
         record.client \in clients, directories' = With(directories, nextHandle, record),
         UNCHANGED <<clients, files>>
  PROVE  /\ DOMAIN directories' \subseteq Handles
         /\ \A h \in DOMAIN directories' : directories'[h] \in DirectoryRecords
         /\ \A h \in DOMAIN directories' : directories'[h].client \in clients
         /\ DOMAIN files' \cap DOMAIN directories' = {}
         /\ HandlesFresh'
<1>1. nextHandle \in Handles /\ nextHandle \notin issued /\ issued' = issued \cup {nextHandle}
      /\ (nextHandle' # 0 => \A h \in issued' : h < nextHandle')
  BY IssueKeeps
<1>2. DOMAIN directories' = DOMAIN directories \cup {nextHandle}
      /\ directories'[nextHandle] = record
      /\ (\A g \in DOMAIN directories : g # nextHandle => directories'[g] = directories[g])
  BY DEF With
<1> QED
  BY <1>1, <1>2 DEF FilesystemInv, TypeOK, HandlesOwned, HandlesFresh, OpenHandles

(* What a file holds has a length within the bound. *)
LEMMA LengthBounded ==
  ASSUME TypeOK, NEW p \in Files
  PROVE  Length(host[p]) \in 0..MaxLength
<1>1. host[p] \in Contents \cup {Absent}
  BY DEF TypeOK
<1>2. CASE host[p] = Absent
  BY <1>2, FilesystemConstants DEF Length
<1>3. CASE host[p] # Absent
  BY <1>1, <1>3, FilesystemConstants DEF Length, Contents
<1> QED
  BY <1>2, <1>3

(* Opening a file changes no content and keeps the types. *)
LEMMA OpenedHost ==
  ASSUME FilesystemInv, NEW p \in Files, NEW mode \in Modes, MayOpen(p, mode),
         host' = Opened(p, mode)
  PROVE  /\ host' \in [Files -> Contents \cup {Absent}] /\ ContentUntouched'
         /\ host'[p] # Absent /\ \A f \in Files : host[f] # Absent => host'[f] # Absent
<1>1. <<>> \in Contents
  BY FilesystemConstants DEF Contents
<1>2. host' \in [Files -> Contents \cup {Absent}]
  BY <1>1 DEF FilesystemInv, TypeOK, Opened
<1>3. mode.truncate => mode.write
  BY DEF Modes, Mode
<1>4. ASSUME NEW f \in ContentFiles
      PROVE  host'[f] = StartContent[f]
  <2>1. f \in Files /\ host[f] = StartContent[f] /\ StartContent[f] # Absent
    BY FilesystemConstants DEF FilesystemInv, ContentUntouched, Files
  <2>2. CASE p = f
    <3>1. ~mode.truncate
      BY <1>3, <2>2, FilesystemConstants DEF MayOpen
    <3> QED
      BY <2>1, <2>2, <3>1 DEF Opened, FilesystemInv, TypeOK
  <2>3. CASE p # f
    BY <2>1, <2>3 DEF Opened, FilesystemInv, TypeOK
  <2> QED
    BY <2>2, <2>3
<1> QED
  BY <1>1, <1>2, <1>4, FilesystemConstants DEF ContentUntouched, Opened, FilesystemInv, TypeOK

(* Opening a file, with or without a handle left. *)
LEMMA OpenFileStep ==
  ASSUME FilesystemInv, NEW c \in Clients, NEW cmd \in Commands, NEW p \in Files,
         NEW mode \in Modes, NEW mapped \in BOOLEAN, OpenFile(c, cmd, p, mode, mapped)
  PROVE  FilesystemInv'
<1>1. CASE ~mapped
  BY <1>1 DEF OpenFile, Fault, FilesystemInv, TypeOK, HandlesOwned, HandlesFresh, OpenHandles,
              OpenFilesExist, ContentUntouched, registry, tables, hostVars
<1>2. CASE mapped
  <2>1. /\ MayOpen(p, mode) /\ host' = Opened(p, mode) /\ c \in clients
        /\ UNCHANGED <<registry, slot, stopped>>
    BY <1>2 DEF OpenFile, Accepted
  <2>2. /\ host' \in [Files -> Contents \cup {Absent}] /\ ContentUntouched'
        /\ host'[p] # Absent /\ \A f \in Files : host[f] # Absent => host'[f] # Absent
    BY <2>1, OpenedHost
  <2>3. CASE nextHandle = 0
    <3>1. Report(c, "error") /\ UNCHANGED tables
      BY <1>2, <2>3 DEF OpenFile
    <3>2. DOMAIN lastErrors' = clients
      BY <3>1, ReportKeepsClients DEF FilesystemInv
    <3> QED
      BY <2>1, <2>2, <3>1, <3>2
      DEF FilesystemInv, TypeOK, HandlesOwned, HandlesFresh, OpenHandles, OpenFilesExist,
          FileRecords, registry, tables
  <2>4. CASE nextHandle # 0
    <3>1. /\ files' = With(files, nextHandle, NewFile(c, p, mode))
          /\ Issue /\ Report(c, "ok") /\ UNCHANGED directories
      BY <1>2, <2>4 DEF OpenFile
    <3>2. DOMAIN lastErrors' = clients
      BY <3>1, ReportKeepsClients DEF FilesystemInv
    <3>3. /\ NewFile(c, p, mode) \in FileRecords
          /\ NewFile(c, p, mode).client = c /\ NewFile(c, p, mode).path = p
      <4>1. mode.read \in BOOLEAN /\ mode.write \in BOOLEAN /\ mode.append \in BOOLEAN
        BY ModeFlags
      <4>2. Length(host[p]) \in 0..MaxLength /\ 0 \in 0..MaxLength
        BY LengthBounded, FilesystemConstants DEF FilesystemInv
      <4>3. (IF mode.append /\ ~mode.read THEN Length(host[p]) ELSE 0) \in 0..MaxLength
        BY <4>2
      <4> QED
        BY <4>1, <4>3 DEF NewFile, FileRecords
    <3>4. /\ DOMAIN files' \subseteq Handles /\ \A h \in DOMAIN files' : files'[h] \in FileRecords
          /\ \A h \in DOMAIN files' : files'[h].client \in clients
          /\ DOMAIN files' \cap DOMAIN directories' = {}
          /\ HandlesFresh'
      <4>1. UNCHANGED <<clients, directories>>
        BY <2>1, <3>1 DEF registry
      <4> HIDE DEF NewFile
      <4> QED
        BY <2>1, <2>4, <3>1, <3>3, <4>1, OpenedFileOwned
    <3>5. nextHandle' \in 0..LastHandle /\ issued' \subseteq Handles
      BY <2>4, <3>1, IssueKeeps
    <3>6. OpenFilesExist'
      <4> HIDE DEF NewFile
      <4>1. \A g \in DOMAIN files' : g # nextHandle => g \in DOMAIN files /\ files'[g] = files[g]
        BY <3>1 DEF With
      <4>2. files'[nextHandle].path = p
        BY <3>1, <3>3 DEF With
      <4>3. \A g \in DOMAIN files : host[files[g].path] # Absent /\ files[g].path \in Files
        BY DEF FilesystemInv, TypeOK, OpenFilesExist, FileRecords
      <4> QED
        BY <2>2, <4>1, <4>2, <4>3 DEF OpenFilesExist
    <3> QED
      BY <2>1, <2>2, <3>1, <3>2, <3>4, <3>5, <3>6
      DEF FilesystemInv, TypeOK, HandlesOwned, registry
  <2> QED
    BY <2>3, <2>4
<1> QED
  BY <1>1, <1>2

(* Opening a directory, with or without a handle left. *)
LEMMA OpenDirStep ==
  ASSUME FilesystemInv, NEW c \in Clients, NEW cmd \in Commands, NEW inSlot \in BOOLEAN,
         OpenDir(c, cmd, inSlot)
  PROVE  FilesystemInv'
<1>1. CASE nextHandle = 0
  BY <1>1, QuietStep DEF OpenDir
<1>2. CASE nextHandle # 0
  <2> DEFINE record == [client |-> c, entries |-> Entries(inSlot), position |-> 0]
  <2>1. /\ directories' = With(directories, nextHandle, record)
        /\ Issue /\ Report(c, "ok") /\ UNCHANGED files
        /\ UNCHANGED <<registry, hostVars, stopped>> /\ c \in clients
    BY <1>2 DEF OpenDir, Accepted
  <2>2. DOMAIN lastErrors' = clients
    BY <2>1, ReportKeepsClients DEF FilesystemInv
  <2>3. record \in DirectoryRecords /\ record.client = c
    <3>1. IsFiniteSet({p \in SaveFiles : host[p] # Absent}) /\ IsFiniteSet(ContentFiles)
      BY FS_Subset, FilesystemConstants DEF Files
    <3>2. Entries(inSlot) \in Nat
      BY <3>1, FS_CardinalityType DEF Entries
    <3> QED
      BY <3>2 DEF DirectoryRecords
  <2> HIDE DEF record
  <2>4. /\ DOMAIN directories' \subseteq Handles
        /\ \A h \in DOMAIN directories' : directories'[h] \in DirectoryRecords
        /\ \A h \in DOMAIN directories' : directories'[h].client \in clients
        /\ DOMAIN files' \cap DOMAIN directories' = {}
        /\ HandlesFresh'
    <3>1. UNCHANGED <<clients, files>>
      BY <2>1 DEF registry
    <3> QED
      BY <1>2, <2>1, <2>3, <3>1, OpenedDirectoryOwned
  <2>5. nextHandle' \in 0..LastHandle /\ issued' \subseteq Handles
    BY <1>2, <2>1, IssueKeeps
  <2> QED
    BY <2>1, <2>2, <2>4, <2>5
    DEF FilesystemInv, TypeOK, HandlesOwned, OpenFilesExist, ContentUntouched, registry, hostVars
<1> QED
  BY <1>1, <1>2

-----------------------------------------------------------------------------
(* Using what is open. *)

Same(new, old) == new \in FileRecords /\ new.client = old.client /\ new.path = old.path

(* Changing a file's position, and nothing else of the tables, is harmless.  *)
LEMMA PositionStep ==
  ASSUME FilesystemInv, NEW h \in DOMAIN files, NEW position \in 0..MaxLength,
         files' = [files EXCEPT ![h].position = position]
  PROVE  /\ DOMAIN files' = DOMAIN files
         /\ \A g \in DOMAIN files : Same(files'[g], files[g])
BY DEF FilesystemInv, TypeOK, FileRecords, Same

(* A step of the files alone, which keeps every handle and owner. *)
LEMMA FileTableStep ==
  ASSUME FilesystemInv, NEW c, Report(c, "ok") \/ Report(c, "error"),
         DOMAIN files' \subseteq DOMAIN files,
         \A g \in DOMAIN files' : Same(files'[g], files[g]),
         UNCHANGED <<registry, nextHandle, directories, issued, slot, stopped>>,
         host' \in [Files -> Contents \cup {Absent}], ContentUntouched',
         \A f \in Files : host[f] # Absent => host'[f] # Absent
  PROVE  FilesystemInv'
<1>1. DOMAIN lastErrors' = clients
  BY ReportKeepsClients DEF FilesystemInv
<1>2. \A g \in DOMAIN files : host[files[g].path] # Absent /\ files[g].path \in Files
  BY DEF FilesystemInv, TypeOK, OpenFilesExist, FileRecords
<1>3. OpenFilesExist'
  BY <1>2 DEF OpenFilesExist, Same
<1> QED
  BY <1>1, <1>3 DEF FilesystemInv, TypeOK, HandlesOwned, HandlesFresh, OpenHandles, Same, registry

(* What a write leaves in a file is something a file can hold. *)
LEMMA OverwrittenType ==
  ASSUME NEW content \in Contents, NEW start \in 0..MaxLength, NEW data \in Seq(Bytes),
         start + Len(data) <= MaxLength
  PROVE  Overwritten(content, start, data) \in Contents
<1> DEFINE n == IF start + Len(data) > Len(content) THEN start + Len(data) ELSE Len(content)
<1>1. content \in Seq(Bytes \cup {Hole}) /\ Len(content) \in 0..MaxLength /\ Len(data) \in Nat
  BY FilesystemConstants DEF Contents
<1>2. n \in 0..MaxLength
  BY <1>1, FilesystemConstants
<1>3. \A i \in 1..n : (IF i \in (start + 1)..(start + Len(data)) THEN data[i - start]
                       ELSE IF i <= Len(content) THEN content[i] ELSE Hole) \in Bytes \cup {Hole}
  <2> SUFFICES ASSUME NEW i \in 1..n
               PROVE  (IF i \in (start + 1)..(start + Len(data)) THEN data[i - start]
                       ELSE IF i <= Len(content) THEN content[i] ELSE Hole) \in Bytes \cup {Hole}
    OBVIOUS
  <2>1. CASE i \in (start + 1)..(start + Len(data))
    <3>1. i - start \in 1..Len(data)
      BY <1>1, <2>1
    <3> QED
      BY <2>1, <3>1
  <2>2. CASE i \notin (start + 1)..(start + Len(data)) /\ i <= Len(content)
    BY <1>1, <1>2, <2>2
  <2>3. CASE i \notin (start + 1)..(start + Len(data)) /\ ~(i <= Len(content))
    BY <2>3
  <2> QED
    BY <2>1, <2>2, <2>3
<1>4. Overwritten(content, start, data) =
        [i \in 1..n |-> IF i \in (start + 1)..(start + Len(data)) THEN data[i - start]
                        ELSE IF i <= Len(content) THEN content[i] ELSE Hole]
  BY DEF Overwritten
<1> HIDE DEF n
<1>5. /\ Overwritten(content, start, data) \in Seq(Bytes \cup {Hole})
      /\ Len(Overwritten(content, start, data)) = n
  BY <1>2, <1>3, <1>4
<1> QED
  BY <1>2, <1>5, FilesystemConstants DEF Contents

(* A read moves the position to at most the end of the file. *)
LEMMA ReadFileStep ==
  ASSUME FilesystemInv, NEW c \in Clients, NEW cmd \in Commands, NEW h \in DOMAIN files,
         NEW n \in 1..MaxLength, ReadFile(c, cmd, h, n)
  PROVE  FilesystemInv'
<1> DEFINE left == Length(host[files[h].path]) - files[h].position
           transferred == IF left < 0 THEN 0 ELSE IF left < n THEN left ELSE n
<1>1. files[h].path \in Files /\ files[h].position \in 0..MaxLength
  BY DEF FilesystemInv, TypeOK, FileRecords
<1>2. Length(host[files[h].path]) \in 0..MaxLength
  BY <1>1, LengthBounded DEF FilesystemInv
<1>3. files[h].position + transferred \in 0..MaxLength
  BY <1>1, <1>2, FilesystemConstants
<1>4. files' = [files EXCEPT ![h].position = files[h].position + transferred]
  BY DEF ReadFile
<1> HIDE DEF transferred
<1>5. /\ DOMAIN files' = DOMAIN files
      /\ \A g \in DOMAIN files : Same(files'[g], files[g])
  BY <1>3, <1>4, PositionStep
<1>6. Report(c, "ok") \/ Report(c, "error")
  BY DEF ReadFile, Report
<1> QED
  BY <1>5, <1>6, FileTableStep DEF ReadFile, hostVars, FilesystemInv, TypeOK, ContentUntouched

(* A write leaves a file of the save directory, no longer than it may be. *)
LEMMA WriteFileStep ==
  ASSUME FilesystemInv, NEW c \in Clients, NEW cmd \in Commands, NEW h \in DOMAIN files,
         NEW byte \in Bytes, NEW mapped \in BOOLEAN, WriteFile(c, cmd, h, <<byte>>, mapped)
  PROVE  FilesystemInv'
<1>1. CASE ~mapped
  BY <1>1 DEF WriteFile, Fault, FilesystemInv, TypeOK, HandlesOwned, HandlesFresh, OpenHandles,
              OpenFilesExist, ContentUntouched, registry, tables, hostVars
<1>2. CASE mapped
  <2> DEFINE p == files[h].path
             start == WriteStart(files[h])
             data == <<byte>>
             content == Overwritten(host[p], start, data)
  <2>1. /\ p \in SaveFiles /\ start + Len(data) <= MaxLength
        /\ host' = [host EXCEPT ![p] = content]
        /\ files' = [files EXCEPT ![h].position = start + Len(data)]
        /\ Report(c, "ok")
        /\ UNCHANGED <<registry, nextHandle, directories, issued, slot, stopped>>
    BY <1>2 DEF WriteFile
  <2>2. p \in Files /\ start \in 0..MaxLength /\ host[p] \in Contents
    <3>1. p \in Files /\ files[h].position \in 0..MaxLength
      BY DEF FilesystemInv, TypeOK, FileRecords
    <3>2. Length(host[p]) \in 0..MaxLength
      BY <3>1, LengthBounded DEF FilesystemInv
    <3> QED
      BY <3>1, <3>2 DEF WriteStart, FilesystemInv, TypeOK, OpenFilesExist
  <2>3. data \in Seq(Bytes) /\ start + Len(data) \in 0..MaxLength
    BY <2>1, <2>2, FilesystemConstants
  <2> HIDE DEF data, start
  <2>4. content \in Contents
    BY <2>1, <2>2, <2>3, OverwrittenType
  <2> HIDE DEF content
  <2>5. /\ host' \in [Files -> Contents \cup {Absent}]
        /\ \A f \in Files : host[f] # Absent => host'[f] # Absent
    BY <2>1, <2>2, <2>4, FilesystemConstants DEF FilesystemInv, TypeOK
  <2>6. ContentUntouched'
    BY <2>1, FilesystemConstants DEF FilesystemInv, TypeOK, ContentUntouched, Files
  <2>7. /\ DOMAIN files' = DOMAIN files
        /\ \A g \in DOMAIN files : Same(files'[g], files[g])
    BY <2>1, <2>3, PositionStep
  <2> QED
    BY <2>1, <2>5, <2>6, <2>7, FileTableStep
<1> QED
  BY <1>1, <1>2

(* No command breaks the invariant. *)
LEMMA CommandStep ==
  ASSUME FilesystemInv, NEW c \in Clients, NEW cmd \in Commands, CommandNext(c, cmd)
  PROVE  FilesystemInv'
<1>1. CASE Query(c, cmd)
  BY <1>1, QuietStep DEF Query
<1>2. ASSUME NEW p \in Files, NEW mode \in Modes, NEW mapped \in BOOLEAN,
             OpenFile(c, cmd, p, mode, mapped)
      PROVE  FilesystemInv'
  BY <1>2, OpenFileStep
<1>3. ASSUME NEW inSlot \in BOOLEAN, OpenDir(c, cmd, inSlot)
      PROVE  FilesystemInv'
  BY <1>3, OpenDirStep
<1>4. ASSUME NEW h \in DOMAIN files, CloseFile(c, cmd, h)
      PROVE  FilesystemInv'
  <2>1. /\ DOMAIN files' \subseteq DOMAIN files
        /\ \A g \in DOMAIN files' : Same(files'[g], files[g])
    BY <1>4 DEF CloseFile, Same, FilesystemInv, TypeOK
  <2> QED
    BY <1>4, <2>1, FileTableStep
    DEF CloseFile, hostVars, FilesystemInv, TypeOK, ContentUntouched
<1>5. ASSUME NEW h \in DOMAIN files, NEW n \in 1..MaxLength, ReadFile(c, cmd, h, n)
      PROVE  FilesystemInv'
  BY <1>5, ReadFileStep
<1>6. ASSUME NEW h \in DOMAIN files, NEW byte \in Bytes, NEW mapped \in BOOLEAN,
             WriteFile(c, cmd, h, <<byte>>, mapped)
      PROVE  FilesystemInv'
  BY <1>6, WriteFileStep
<1>7. ASSUME NEW h \in DOMAIN files, NEW position \in 0..MaxLength,
             SetPosFile(c, cmd, h, position)
      PROVE  FilesystemInv'
  <2>1. /\ DOMAIN files' = DOMAIN files
        /\ \A g \in DOMAIN files : Same(files'[g], files[g])
    BY <1>7, PositionStep DEF SetPosFile
  <2> QED
    BY <1>7, <2>1, FileTableStep
    DEF SetPosFile, hostVars, FilesystemInv, TypeOK, ContentUntouched
<1>8. ASSUME NEW h \in DOMAIN directories, ReadDir(c, cmd, h)
      PROVE  FilesystemInv'
  <2>1. DOMAIN lastErrors' = clients
    BY <1>8, ReportKeepsClients DEF FilesystemInv, ReadDir
  <2>2. /\ DOMAIN directories' = DOMAIN directories
        /\ \A g \in DOMAIN directories :
             directories'[g] \in DirectoryRecords /\ directories'[g].client = directories[g].client
    BY <1>8 DEF ReadDir, FilesystemInv, TypeOK, DirectoryRecords
  <2> QED
    BY <1>8, <2>1, <2>2
    DEF ReadDir, FilesystemInv, TypeOK, HandlesOwned, HandlesFresh, OpenHandles, OpenFilesExist,
        ContentUntouched, registry, hostVars
<1>9. ASSUME NEW h \in DOMAIN directories, CloseDir(c, cmd, h)
      PROVE  FilesystemInv'
  <2>1. DOMAIN lastErrors' = clients
    BY <1>9, ReportKeepsClients DEF FilesystemInv, CloseDir
  <2> QED
    BY <1>9, <2>1
    DEF CloseDir, FilesystemInv, TypeOK, HandlesOwned, HandlesFresh, OpenHandles, OpenFilesExist,
        ContentUntouched, registry, hostVars
<1> QED
  BY <1>1, <1>2, <1>3, <1>4, <1>5, <1>6, <1>7, <1>8, <1>9 DEF CommandNext

-----------------------------------------------------------------------------
(* A title that starts has no handle, and its content is what it was. *)
LEMMA FilesystemStart == Init => FilesystemInv
<1> SUFFICES ASSUME Init PROVE FilesystemInv
  OBVIOUS
<1>1. PICK saved \in SUBSET SaveFiles :
        host = [p \in Files |-> IF p \in ContentFiles \cup saved THEN StartContent[p] ELSE Absent]
  BY DEF Init
<1>2. host \in [Files -> Contents \cup {Absent}]
  BY <1>1, FilesystemConstants
<1>3. ContentUntouched
  BY <1>1 DEF ContentUntouched, Files
<1>4. fsInitialized \in BOOLEAN /\ saveInitialized \in BOOLEAN /\ slot \in BOOLEAN /\ stopped \in BOOLEAN
  <2>1. SaveRoot \in BOOLEAN /\ FALSE \in BOOLEAN
    BY FilesystemConstants, Zenon
  <2> QED
    BY <2>1, Zenon DEF Init
<1>5. nextHandle \in 0..LastHandle
  BY FilesystemConstants DEF Init
<1>6. /\ DOMAIN files = {} /\ DOMAIN directories = {} /\ DOMAIN lastErrors = {}
      /\ clients = {} /\ commands = {} /\ issued = {}
  BY DEF Init, Nothing
<1> QED
  BY <1>2, <1>3, <1>4, <1>5, <1>6
  DEF FilesystemInv, TypeOK, HandlesOwned, HandlesFresh, OpenHandles, OpenFilesExist

(* No call breaks the invariant. *)
LEMMA FilesystemStep ==
  ASSUME FilesystemInv, [Next]_vars
  PROVE  FilesystemInv'
<1>1. CASE UNCHANGED vars
  BY <1>1 DEF FilesystemInv, TypeOK, HandlesOwned, HandlesFresh, OpenHandles, OpenFilesExist,
              ContentUntouched, vars, registry, tables, hostVars
<1> QED
  BY <1>1, RegistryStep, CommandStep DEF Next

(* Whatever the clients do, the invariant holds. *)
THEOREM FilesystemSafe == Spec => []FilesystemInv
BY FilesystemStart, FilesystemStep, PTL DEF Spec

(* Every handle belongs to a registered client and to one table. *)
THEOREM HandlesAlwaysOwned == Spec => []HandlesOwned
<1>1. FilesystemInv => HandlesOwned
  BY DEF FilesystemInv
<1> QED
  BY <1>1, FilesystemSafe, PTL

(* The files of the title's content are never changed. *)
THEOREM ContentSafe == Spec => []ContentUntouched
<1>1. FilesystemInv => ContentUntouched
  BY DEF FilesystemInv
<1> QED
  BY <1>1, FilesystemSafe, PTL

(* Only the two opens make a handle, and theirs is above all earlier ones.   *)
LEMMA NewHandlesAreNew ==
  ASSUME FilesystemInv, [Next]_vars
  PROVE  [(OpenHandles' \ OpenHandles) \cap issued = {}]_vars
<1> USE DEF OpenHandles
<1>1. CASE UNCHANGED vars
  BY <1>1
<1>2. CASE RegistryNext
  <2>1. OpenHandles' \subseteq OpenHandles
    BY <1>2 DEF RegistryNext, FSInit, FSShutdown, SAVEInit, SAVEShutdown, SAVEInitSaveDir,
                FSAddClient, FSDelClient, CloseClientHandles, Without, Fail, FSInitCmdBlock,
                Nothing, registry, tables, hostVars
  <2> QED
    BY <2>1
<1>3. ASSUME NEW c \in Clients, NEW cmd \in Commands, CommandNext(c, cmd)
      PROVE  (OpenHandles' \ OpenHandles) \cap issued = {}
  <2>1. nextHandle # 0 => nextHandle \notin issued
    BY DEF FilesystemInv, TypeOK, HandlesFresh, Handles
  <2>2. OpenHandles' \subseteq OpenHandles \/ (nextHandle # 0 /\ OpenHandles' \subseteq OpenHandles \cup {nextHandle})
    <3>1. ASSUME NEW p \in Files, NEW mode \in Modes, NEW mapped \in BOOLEAN,
                 OpenFile(c, cmd, p, mode, mapped)
          PROVE  UNCHANGED tables \/ (nextHandle # 0 /\ OpenHandles' \subseteq OpenHandles \cup {nextHandle})
      BY <3>1 DEF OpenFile, Fault, With, tables
    <3>2. ASSUME NEW inSlot \in BOOLEAN, OpenDir(c, cmd, inSlot)
          PROVE  UNCHANGED tables \/ (nextHandle # 0 /\ OpenHandles' \subseteq OpenHandles \cup {nextHandle})
      BY <3>2 DEF OpenDir, With, tables
    <3>3. ASSUME NEW h \in DOMAIN files,
                 \/ CloseFile(c, cmd, h)
                 \/ \E n \in 1..MaxLength : ReadFile(c, cmd, h, n)
                 \/ \E byte \in Bytes, mapped \in BOOLEAN : WriteFile(c, cmd, h, <<byte>>, mapped)
                 \/ \E position \in 0..MaxLength : SetPosFile(c, cmd, h, position)
          PROVE  OpenHandles' \subseteq OpenHandles
      <4>1. CASE CloseFile(c, cmd, h)
        BY <4>1 DEF CloseFile
      <4>2. ASSUME NEW n \in 1..MaxLength, ReadFile(c, cmd, h, n)
            PROVE  OpenHandles' \subseteq OpenHandles
        BY <4>2 DEF ReadFile
      <4>3. ASSUME NEW byte \in Bytes, NEW mapped \in BOOLEAN, WriteFile(c, cmd, h, <<byte>>, mapped)
            PROVE  OpenHandles' \subseteq OpenHandles
        BY <4>3 DEF WriteFile, Fault, tables
      <4>4. ASSUME NEW position \in 0..MaxLength, SetPosFile(c, cmd, h, position)
            PROVE  OpenHandles' \subseteq OpenHandles
        BY <4>4 DEF SetPosFile
      <4> QED
        BY <3>3, <4>1, <4>2, <4>3, <4>4
    <3>4. ASSUME NEW h \in DOMAIN directories, ReadDir(c, cmd, h) \/ CloseDir(c, cmd, h)
          PROVE  OpenHandles' \subseteq OpenHandles
      BY <3>4 DEF ReadDir, CloseDir
    <3>5. CASE Query(c, cmd)
      BY <3>5 DEF Query, tables
    <3>6. UNCHANGED tables => OpenHandles' \subseteq OpenHandles
      BY DEF tables
    <3> HIDE DEF OpenHandles
    <3> QED
      BY <1>3, <3>1, <3>2, <3>3, <3>4, <3>5, <3>6 DEF CommandNext
  <2> QED
    BY <2>1, <2>2
<1> QED
  BY <1>1, <1>2, <1>3 DEF Next

(* A handle that was ever given out is never given out again. *)
THEOREM HandlesSafe == Spec => HandlesNeverReused
BY FilesystemSafe, NewHandlesAreNew, PTL DEF Spec, HandlesNeverReused


(* Data written at the end of a file leaves what was there as its beginning. *)
LEMMA AppendExtends ==
  ASSUME NEW S, NEW content \in Seq(S), NEW data \in Seq(S), Hole \in S
  PROVE  IsPrefix(content, Overwritten(content, Len(content), data))
<1> DEFINE n == Len(content)
           t == Overwritten(content, n, data)
           front == SubSeq(t, 1, n)
<1>1. n \in Nat /\ Len(data) \in Nat /\ DOMAIN content = 1..n /\ DOMAIN data = 1..Len(data)
  OBVIOUS
<1>2. /\ t \in Seq(S) /\ n <= Len(t)
      /\ \A i \in 1..n : t[i] = content[i]
  <2> DEFINE long == n + Len(data)
  <2>1. long \in Nat /\ n <= long
    BY <1>1
  <2>2. t = [i \in 1..long |-> IF i \in (n + 1)..long THEN data[i - n]
                               ELSE IF i <= n THEN content[i] ELSE Hole]
    <3>1. CASE long > n
      BY <3>1 DEF Overwritten
    <3>2. CASE ~(long > n)
      <4>1. long = n
        <5>1. n \in Nat /\ long \in Nat
          BY <1>1
        <5> HIDE DEF n, long
        <5>2. QED
          BY ONLY <2>1, <3>2, <5>1
      <4>2. QED
        BY <3>2, <4>1 DEF Overwritten
    <3>3. QED
      BY <3>1, <3>2
  <2>3. ASSUME NEW i \in 1..long
        PROVE  /\ t[i] \in S
               /\ i <= n => t[i] = content[i]
    <3>1. CASE i <= n
      BY <1>1, <2>1, <2>2, <3>1
    <3>2. CASE ~(i <= n)
      <4>1. i - n \in 1..Len(data)
        BY <1>1, <2>1, <3>2
      <4>2. t[i] = data[i - n] /\ data[i - n] \in S
        BY <1>1, <2>1, <2>2, <3>2, <4>1
      <4>3. QED
        BY <3>2, <4>2
    <3>3. QED
      BY <3>1, <3>2
  <2>4. t \in Seq(S) /\ Len(t) = long
    <3>1. t \in [1..long -> S]
      BY <2>2, <2>3
    <3> HIDE DEF t, long
    <3>2. QED
      BY <2>1, <3>1
  <2>5. QED
    BY <1>1, <2>1, <2>3, <2>4
<1> HIDE DEF t
<1>3. /\ front \in Seq(S) /\ Len(front) = n
      /\ \A i \in 1..n : front[i] = t[i]
  <2>1. \A i \in 1..n : t[i] \in S
    BY <1>1, <1>2
  <2>2. /\ front \in Seq(S) /\ Len(front) = IF 1 <= n THEN n - 1 + 1 ELSE 0
        /\ \A i \in 1..(n - 1 + 1) : front[i] = t[1 + i - 1]
    BY <1>1, <1>2, <2>1, SubSeqProperties
  <2> HIDE DEF front
  <2>3. QED
    BY <1>1, <2>2
<1>4. SubSeq(content, 1, n) = content
  <2>1. \A i \in 1..n : content[i] \in S
    OBVIOUS
  <2> DEFINE whole == SubSeq(content, 1, n)
  <2>2. /\ whole \in Seq(S) /\ Len(whole) = IF 1 <= n THEN n - 1 + 1 ELSE 0
        /\ \A i \in 1..(n - 1 + 1) : whole[i] = content[1 + i - 1]
    BY <1>1, <2>1, SubSeqProperties
  <2> HIDE DEF whole
  <2>3. whole \in Seq(S) /\ Len(whole) = n /\ \A i \in 1..n : whole[i] = content[i]
    BY <1>1, <2>2
  <2>4. whole = content
    BY <1>1, <2>3
  <2>5. QED
    BY <2>4 DEF whole
<1>5. front = content
  <2> HIDE DEF front
  <2>1. QED
    BY <1>1, <1>2, <1>3
<1>6. QED
  BY <1>1, <1>2, <1>4, <1>5 DEF IsPrefix, front, t

(* What may happen to the contents of a file p.                              *)
ErasedRightly(p) ==
  /\ ~stopped'
  /\ \/ IsPrefix(host[p], host'[p])
     \/ host'[p] = <<>> /\ OpenHandles' # OpenHandles
     \/ host'[p] = <<>> /\ nextHandle = 0
     \/ \E h \in DOMAIN files : files[h].path = p /\ files[h].write /\ ~files[h].append

(* Of an open, only truncating, and then a handle was given out or none left. *)
LEMMA OpenErasesRightly ==
  ASSUME FilesystemInv, ~stopped, NEW c \in Clients, NEW cmd \in Commands, NEW q \in Files,
         NEW mode \in Modes, NEW mapped \in BOOLEAN, OpenFile(c, cmd, q, mode, mapped),
         NEW p \in Files, host[p] # Absent, host'[p] # host[p]
  PROVE  ErasedRightly(p)
<1>1. mapped
  BY DEF OpenFile, Fault, hostVars
<1>2. /\ host' = Opened(q, mode) /\ UNCHANGED stopped
      /\ nextHandle # 0 => files' = With(files, nextHandle, NewFile(c, q, mode))
  BY <1>1 DEF OpenFile
<1>3. host'[p] = <<>>
  BY <1>2 DEF Opened, FilesystemInv, TypeOK
<1>4. CASE nextHandle = 0
  BY <1>2, <1>3, <1>4 DEF ErasedRightly
<1>5. CASE nextHandle # 0
  <2>1. nextHandle \in OpenHandles'
    BY <1>2, <1>5 DEF With, OpenHandles
  <2>2. nextHandle \notin OpenHandles
    BY <1>5 DEF FilesystemInv, TypeOK, HandlesFresh, Handles
  <2>3. QED
    BY <1>2, <1>3, <2>1, <2>2 DEF ErasedRightly
<1>6. QED
  BY <1>4, <1>5

(* Of a write, nothing if the handle appends.                                *)
LEMMA WriteErasesRightly ==
  ASSUME FilesystemInv, ~stopped, NEW c \in Clients, NEW cmd \in Commands, NEW h \in DOMAIN files,
         NEW byte \in Bytes, NEW mapped \in BOOLEAN, WriteFile(c, cmd, h, <<byte>>, mapped),
         NEW p \in Files, host[p] # Absent, host'[p] # host[p]
  PROVE  ErasedRightly(p)
<1>1. mapped
  BY DEF WriteFile, Fault, hostVars
<1> DEFINE q == files[h].path
           start == WriteStart(files[h])
<1>2. /\ files[h].write /\ q \in SaveFiles
      /\ host' = [host EXCEPT ![q] = Overwritten(@, start, <<byte>>)] /\ UNCHANGED stopped
  BY <1>1 DEF WriteFile
<1>3. p = q
  BY <1>2 DEF FilesystemInv, TypeOK
<1>4. CASE ~files[h].append
  BY <1>2, <1>3, <1>4 DEF ErasedRightly
<1>5. CASE files[h].append
  <2>1. host[p] \in Seq(Bytes \cup {Hole})
    BY DEF FilesystemInv, TypeOK, Contents
  <2>2. start = Len(host[p])
    BY <1>3, <1>5 DEF WriteStart, Length
  <2>3. host'[p] = Overwritten(host[p], Len(host[p]), <<byte>>)
    BY <1>2, <1>3, <2>2 DEF FilesystemInv, TypeOK
  <2>4. <<byte>> \in Seq(Bytes \cup {Hole})
    OBVIOUS
  <2>5. IsPrefix(host[p], host'[p])
    <3> DEFINE S == Bytes \cup {Hole}
               content == host[p]
               data == <<byte>>
    <3>1. content \in Seq(S) /\ data \in Seq(S) /\ Hole \in S
      BY <2>1, <2>4
    <3> HIDE DEF S, content, data
    <3>2. IsPrefix(content, Overwritten(content, Len(content), data))
      BY ONLY <3>1, AppendExtends
    <3>3. QED
      BY <2>3, <3>2 DEF content, data
  <2>6. QED
    BY <1>2, <2>5 DEF ErasedRightly
<1>6. QED
  BY <1>4, <1>5

(* The other calls leave the host's files alone.                             *)
LEMMA OthersEraseNothing ==
  ASSUME FilesystemInv, [Next]_vars,
         NEW p \in Files, host[p] # Absent, host'[p] # host[p]
  PROVE  ErasedRightly(p)
<1>1. CASE UNCHANGED vars
  BY <1>1 DEF vars, hostVars
<1>2. CASE RegistryNext
  BY <1>2 DEF RegistryNext, FSInit, FSShutdown, SAVEInit, SAVEShutdown, SAVEInitSaveDir,
              FSAddClient, FSDelClient, Fail, FSInitCmdBlock, hostVars
<1>3. ASSUME NEW c \in Clients, NEW cmd \in Commands, CommandNext(c, cmd), ~stopped
      PROVE  ErasedRightly(p)
  <2>1. ASSUME NEW q \in Files, NEW mode \in Modes, NEW mapped \in BOOLEAN,
               OpenFile(c, cmd, q, mode, mapped)
        PROVE  ErasedRightly(p)
    BY <1>3, <2>1, OpenErasesRightly
  <2>2. ASSUME NEW h \in DOMAIN files, NEW byte \in Bytes, NEW mapped \in BOOLEAN,
               WriteFile(c, cmd, h, <<byte>>, mapped)
        PROVE  ErasedRightly(p)
    BY <1>3, <2>2, WriteErasesRightly
  <2>3. ASSUME NEW inSlot \in BOOLEAN, OpenDir(c, cmd, inSlot) PROVE UNCHANGED host
    BY <2>3 DEF OpenDir, hostVars
  <2>4. ASSUME NEW h \in DOMAIN files,
               \/ CloseFile(c, cmd, h)
               \/ \E n \in 1..MaxLength : ReadFile(c, cmd, h, n)
               \/ \E position \in 0..MaxLength : SetPosFile(c, cmd, h, position)
        PROVE  UNCHANGED host
    BY <2>4 DEF CloseFile, ReadFile, SetPosFile, hostVars
  <2>5. ASSUME NEW h \in DOMAIN directories, ReadDir(c, cmd, h) \/ CloseDir(c, cmd, h)
        PROVE  UNCHANGED host
    BY <2>5 DEF ReadDir, CloseDir, hostVars
  <2>6. CASE Query(c, cmd)
    BY <2>6 DEF Query, hostVars
  <2>7. QED
    BY <1>3, <2>1, <2>2, <2>3, <2>4, <2>5, <2>6 DEF CommandNext
<1>4. QED
  BY <1>1, <1>2, <1>3 DEF Next

(* What a save file holds is lost only to an open that truncates it and to a *)
(* write of a handle that does not append, and never by a call that faults.  *)
THEOREM NothingErasedWrongly == Spec => NothingErased
<1>1. ASSUME FilesystemInv, [Next]_vars
      PROVE  [\A p \in Files : host[p] # Absent /\ host'[p] # host[p] =>
                /\ ~stopped'
                /\ \/ IsPrefix(host[p], host'[p])
                   \/ host'[p] = <<>> /\ OpenHandles' # OpenHandles
                   \/ host'[p] = <<>> /\ nextHandle = 0
                   \/ \E h \in DOMAIN files : files[h].path = p /\ files[h].write /\ ~files[h].append]_vars
  BY <1>1, OthersEraseNothing DEF ErasedRightly
<1>2. QED
  BY <1>1, FilesystemSafe, PTL DEF Spec, NothingErased


(***************************************************************************)
(* Display lists.  However recordings nest and whatever is replayed        *)
(* between, the size of a list counts its commands.                        *)
(***************************************************************************)
ListCommands ==
  {command \in [op : {"bind", "call"}, slot : Slots \cup Lists, size : Nat,
                content : PayloadValues \cup {0}] :
     /\ command.op = "bind" => command.slot \in Slots /\ command.size # 0
     /\ command.op = "call" => command.slot \in Lists}
SetAside ==
  [address : Lists \cup {0}, capacity : Capacities \cup {0}, commands : Seq(ListCommands), size : Nat]
Recorders ==
  [active : BOOLEAN, address : Lists \cup {0}, capacity : Capacities \cup {0},
   commands : Seq(ListCommands), size : Nat, outer : Seq(SetAside)]

CountsCommands(x) == x.size = TokenSize * Len(x.commands)

(* What a core records, and what it set aside, are lists of commands.        *)
ListsInv ==
  /\ recorder \in [RecordingCores -> Recorders]
  /\ SizesCountCommands

(* Of a core that goes on to record r, only that one changes.                *)
LEMMA RecorderKeeps ==
  ASSUME ListsInv, NEW c \in RecordingCores, NEW r \in Recorders,
         recorder' = [recorder EXCEPT ![c] = r],
         CountsCommands(r), \A i \in DOMAIN r.outer : CountsCommands(r.outer[i]),
         \A l \in DOMAIN recorded' : CountsCommands(recorded'[l])
  PROVE  ListsInv'
<1>1. recorder' \in [RecordingCores -> Recorders]
  BY DEF ListsInv
<1>2. \A d \in RecordingCores : recorder'[d] = IF d = c THEN r ELSE recorder[d]
  BY DEF ListsInv
<1>3. \A d \in RecordingCores :
        CountsCommands(recorder[d]) /\ \A i \in DOMAIN recorder[d].outer :
                                         CountsCommands(recorder[d].outer[i])
  BY DEF ListsInv, SizesCountCommands, CountsCommands
<1>4. \A d \in RecordingCores :
        CountsCommands(recorder'[d]) /\ \A i \in DOMAIN recorder'[d].outer :
                                          CountsCommands(recorder'[d].outer[i])
  BY <1>2, <1>3
<1>5. QED
  BY <1>1, <1>4 DEF ListsInv, SizesCountCommands, CountsCommands

(* A recorded command adds a token. *)
LEMMA RecordCounts ==
  ASSUME ListsInv, NEW c \in RecordingCores, NEW command \in ListCommands,
         RecordCommand(c, command)
  PROVE  ListsInv'
<1> DEFINE r == recorder[c]
           next == [r EXCEPT !.commands = Append(@, command), !.size = @ + TokenSize]
<1>1. r \in Recorders /\ CountsCommands(r) /\ \A i \in DOMAIN r.outer : CountsCommands(r.outer[i])
  BY DEF ListsInv, SizesCountCommands, CountsCommands
<1>2. recorder' = [recorder EXCEPT ![c] = next] /\ recorded' = recorded
  BY DEF RecordCommand, ListsInv
<1>3. /\ Append(r.commands, command) \in Seq(ListCommands)
      /\ Len(Append(r.commands, command)) = Len(r.commands) + 1 /\ Len(r.commands) \in Nat
      /\ r.size \in Nat
  BY <1>1 DEF Recorders
<1>4. next \in Recorders /\ next.outer = r.outer
      /\ next.commands = Append(r.commands, command) /\ next.size = r.size + TokenSize
  <2> DEFINE longer == Append(r.commands, command)
             size == r.size + TokenSize
  <2>1. longer \in Seq(ListCommands) /\ size \in Nat
    BY <1>3 DEF TokenSize
  <2>2. next = [r EXCEPT !.commands = longer, !.size = size]
    OBVIOUS
  <2> HIDE DEF next, r, longer, size
  <2>3. next \in Recorders /\ next.outer = r.outer /\ next.commands = longer /\ next.size = size
    BY <1>1, <2>1, <2>2 DEF Recorders
  <2>4. QED
    BY <2>3 DEF longer, size
<1>5. CountsCommands(next)
  BY <1>1, <1>3, <1>4 DEF CountsCommands, TokenSize
<1>6. \A l \in DOMAIN recorded' : CountsCommands(recorded'[l])
  BY <1>2 DEF ListsInv, SizesCountCommands, CountsCommands
<1> HIDE DEF next
<1>7. QED
  BY <1>1, <1>2, <1>4, <1>5, <1>6, RecorderKeeps

(* A list that begins is empty, and one it interrupts is set aside whole.    *)
LEMMA BeginCounts ==
  ASSUME ListsInv, NEW c \in RecordingCores, NEW list \in Lists, NEW capacity \in Capacities,
         BeginList(c, list, capacity)
  PROVE  ListsInv'
<1> DEFINE r == recorder[c]
           layer == [address |-> r.address, capacity |-> r.capacity,
                     commands |-> r.commands, size |-> r.size]
           outer == IF ~r.active THEN <<>> ELSE Append(r.outer, layer)
           next == [active |-> TRUE, address |-> list, capacity |-> capacity,
                    commands |-> <<>>, size |-> 0, outer |-> outer]
<1>1. r \in Recorders /\ CountsCommands(r) /\ \A i \in DOMAIN r.outer : CountsCommands(r.outer[i])
  BY DEF ListsInv, SizesCountCommands, CountsCommands
<1>2. recorder' = [recorder EXCEPT ![c] = next] /\ recorded' = recorded
  BY DEF BeginList, ListsInv
<1>3. layer \in SetAside /\ CountsCommands(layer)
  BY <1>1 DEF Recorders, SetAside, CountsCommands
<1> HIDE DEF layer
<1>4. outer \in Seq(SetAside) /\ \A i \in DOMAIN outer : CountsCommands(outer[i])
  <2>1. CASE ~r.active
    BY <2>1
  <2>2. CASE r.active
    <3>1. r.outer \in Seq(SetAside)
      BY <1>1 DEF Recorders
    <3>2. outer = Append(r.outer, layer)
      BY <2>2
    <3>3. \A i \in DOMAIN outer : (i \in DOMAIN r.outer /\ outer[i] = r.outer[i]) \/ outer[i] = layer
      BY <1>3, <3>1, <3>2
    <3>4. QED
      BY <1>1, <1>3, <3>1, <3>2, <3>3
  <2>3. QED
    BY <2>1, <2>2
<1> HIDE DEF outer
<1>5. next \in Recorders /\ next.outer = outer /\ CountsCommands(next)
  BY <1>4 DEF Recorders, CountsCommands, TokenSize
<1>6. \A l \in DOMAIN recorded' : CountsCommands(recorded'[l])
  BY <1>2 DEF ListsInv, SizesCountCommands, CountsCommands
<1> HIDE DEF next
<1>7. QED
  BY <1>2, <1>4, <1>5, <1>6, RecorderKeeps

(* A core that records nothing counts nothing. *)
LEMMA IdleCounts ==
  Idle \in Recorders /\ CountsCommands(Idle) /\ \A i \in DOMAIN Idle.outer : CountsCommands(Idle.outer[i])
BY DEF Idle, Recorders, CountsCommands, TokenSize

(* A list that ends keeps its size, and the outer one gets its own back.     *)
LEMMA EndCounts ==
  ASSUME ListsInv, NEW c \in RecordingCores, EndList(c)
  PROVE  ListsInv'
<1> DEFINE r == recorder[c]
           next == IF r.outer = <<>> THEN Idle ELSE Outer(r)
<1>1. r \in Recorders /\ CountsCommands(r) /\ \A i \in DOMAIN r.outer : CountsCommands(r.outer[i])
  BY DEF ListsInv, SizesCountCommands, CountsCommands
<1>2. recorder' = [recorder EXCEPT ![c] = next]
  BY DEF EndList, ListsInv
<1>3. \A l \in DOMAIN recorded' : CountsCommands(recorded'[l])
  <2>1. PICK list : /\ list.size = r.size /\ list.commands = r.commands
                    /\ recorded' = [l \in DOMAIN recorded \cup {r.address} |->
                                      IF l = r.address THEN list ELSE recorded[l]]
    BY DEF EndList
  <2>2. \A l \in DOMAIN recorded : CountsCommands(recorded[l])
    BY DEF ListsInv, SizesCountCommands, CountsCommands
  <2>3. CountsCommands(list)
    BY <1>1, <2>1 DEF CountsCommands
  <2>4. QED
    BY <2>1, <2>2, <2>3
<1>4. next \in Recorders /\ CountsCommands(next) /\ \A i \in DOMAIN next.outer : CountsCommands(next.outer[i])
  <2>1. CASE r.outer = <<>>
    BY <2>1, IdleCounts
  <2>2. CASE r.outer # <<>>
    <3> DEFINE n == Len(r.outer)
               rest == SubSeq(r.outer, 1, n - 1)
    <3>1. r.outer \in Seq(SetAside) /\ n \in Nat /\ n # 0 /\ DOMAIN r.outer = 1..n
      BY <1>1, <2>2 DEF Recorders
    <3>2. r.outer[n] \in SetAside /\ CountsCommands(r.outer[n])
      BY <1>1, <3>1
    <3>3. rest \in Seq(SetAside) /\ \A i \in DOMAIN rest : CountsCommands(rest[i])
      <4>1. \A i \in 1..(n - 1) : r.outer[i] \in SetAside
        BY <3>1
      <4>2. /\ rest \in Seq(SetAside) /\ Len(rest) = IF 1 <= n - 1 THEN (n - 1) - 1 + 1 ELSE 0
            /\ \A i \in 1..((n - 1) - 1 + 1) : rest[i] = r.outer[1 + i - 1]
        BY <3>1, <4>1, SubSeqProperties
      <4> HIDE DEF rest
      <4>3. \A i \in DOMAIN rest : i \in DOMAIN r.outer /\ rest[i] = r.outer[i]
        BY <3>1, <4>2
      <4>4. QED
        BY <1>1, <4>2, <4>3
    <3>4. next = [active |-> TRUE, address |-> r.outer[n].address, capacity |-> r.outer[n].capacity,
                  commands |-> r.outer[n].commands, size |-> r.outer[n].size, outer |-> rest]
      BY <2>2 DEF Outer
    <3> HIDE DEF rest, n
    <3> DEFINE address == r.outer[n].address
               capacity == r.outer[n].capacity
               listed == r.outer[n].commands
               size == r.outer[n].size
    <3>5. /\ address \in Lists \cup {0} /\ capacity \in Capacities \cup {0}
          /\ listed \in Seq(ListCommands) /\ size \in Nat /\ size = TokenSize * Len(listed)
      BY <3>2 DEF SetAside, CountsCommands
    <3>6. next = [active |-> TRUE, address |-> address, capacity |-> capacity,
                  commands |-> listed, size |-> size, outer |-> rest]
      BY <3>4
    <3> HIDE DEF next, address, capacity, listed, size
    <3>7. next \in Recorders
      BY <3>3, <3>5, <3>6 DEF Recorders
    <3>8. next.commands = listed /\ next.size = size /\ next.outer = rest
      BY <3>6
    <3>9. QED
      BY <3>3, <3>5, <3>7, <3>8 DEF CountsCommands
  <2>3. QED
    BY <2>1, <2>2
<1> HIDE DEF next
<1>5. QED
  BY <1>2, <1>3, <1>4, RecorderKeeps

(* GX2Init drops what is being recorded and keeps what was. *)
LEMMA ReinitCounts ==
  ASSUME ListsInv, ReinitGx2
  PROVE  ListsInv'
<1>1. recorder' = [c \in RecordingCores |-> Idle] /\ recorded' = recorded
  BY DEF ReinitGx2
<1>2. QED
  BY <1>1, IdleCounts DEF ListsInv, SizesCountCommands, CountsCommands

(* What is recorded is a command. *)
LEMMA CommandTypes ==
  /\ \A s \in Slots, v \in PayloadValues : \A size \in PayloadSizes[s] :
       BindCommand(s, size, v) \in ListCommands
  /\ \A l \in Lists : CallCommand(l, TokenSize) \in ListCommands
<1>1. ASSUME NEW s \in Slots, NEW v \in PayloadValues, NEW size \in PayloadSizes[s]
      PROVE  BindCommand(s, size, v) \in ListCommands
  <2>1. size \in Nat /\ size # 0
    BY <1>1, DisplayConstants
  <2>2. QED
    BY <2>1 DEF BindCommand, ListCommands
<1>2. ASSUME NEW l \in Lists
      PROVE  CallCommand(l, TokenSize) \in ListCommands
  BY DEF CallCommand, ListCommands, TokenSize
<1>3. QED
  BY <1>1, <1>2

(* No step loses count. *)
LEMMA ListsStep ==
  ASSUME ListsInv, [DisplayNext]_displayVars
  PROVE  ListsInv'
<1>1. CASE UNCHANGED <<recorder, recorded>>
  BY <1>1 DEF ListsInv, SizesCountCommands
<1>2. ASSUME NEW c \in RecordingCores, NEW l \in Lists, NEW n \in 1 .. 2, CallList(c, l, n * TokenSize)
      PROVE  UNCHANGED <<recorder, recorded>>
  BY <1>2 DEF CallList
<1>3. ASSUME NEW c \in RecordingCores, NEW s \in Slots, BindNow(c, s)
      PROVE  UNCHANGED <<recorder, recorded>>
  BY <1>3 DEF BindNow
<1>4. UNCHANGED displayVars => UNCHANGED <<recorder, recorded>>
  BY DEF displayVars
<1>5. QED
  BY <1>1, <1>2, <1>3, <1>4, BeginCounts, RecordCounts, CommandTypes, EndCounts, ReinitCounts
  DEF DisplayNext

(* The size of every list, recorded, being recorded or set aside, counts the *)
(* commands kept for it, whatever the depth of nesting.                      *)
THEOREM SizesAlwaysCount == DisplaySpec => []SizesCountCommands
<1>1. DisplayInit => ListsInv
  BY IdleCounts DEF DisplayInit, ListsInv, SizesCountCommands, CountsCommands
<1>2. ListsInv => SizesCountCommands
  BY DEF ListsInv
<1>3. QED
  BY <1>1, <1>2, ListsStep, PTL DEF DisplaySpec


(***************************************************************************)
(* What a replay bound survives.  The recorded lists have arenas apart, the *)
(* payloads of one list are apart in its arena, and what a slot holds is    *)
(* the payload of a command still recorded.                                 *)
(***************************************************************************)
\* The largest of a set of indices is one of them.
LEMMA GreatestIndex ==
  ASSUME NEW N \in Nat, NEW S \in SUBSET (1 .. N), S # {}
  PROVE  Max(S) \in S
<1> DEFINE Left == {N - x : x \in S}
<1>1. Left \in SUBSET Nat /\ Left # {}
  <2>1. ASSUME NEW x \in S PROVE N - x \in Nat
    BY x \in 1 .. N
  <2>2. QED
    BY <2>1
<1>2. PICK m \in Left : \A n \in Left : m <= n
  <2> HIDE DEF Left
  <2>1. QED
    BY <1>1, LeastElement
<1>3. PICK x \in S : m = N - x
  BY <1>2
<1>4. \A y \in S : x >= y
  <2>1. ASSUME NEW y \in S PROVE x >= y
    <3>1. N - x <= N - y
      BY <1>2, <1>3
    <3>2. QED
      BY ONLY <3>1, x \in S, y \in S, S \in SUBSET (1 .. N), N \in Nat
  <2>2. QED
    BY <2>1
<1>5. QED
  BY ONLY <1>4, x \in S, Zenon DEF Max

\* Aligning goes up.
LEMMA AlignUp ==
  ASSUME NEW n \in Nat
  PROVE  Align(n) \in Nat /\ n <= Align(n)
<1> DEFINE a == n + PayloadAlign - 1
           q == a \div PayloadAlign
           r == a % PayloadAlign
           p == PayloadAlign * q
<1>1. PayloadAlign \in Nat \ {0}
  BY DisplayConstants
<1>2. a \in Nat
  BY <1>1
<1> HIDE DEF a
<1>3. q \in Nat /\ r \in 0 .. PayloadAlign - 1 /\ p + r = a
  BY <1>1, <1>2, Division
<1>4. Align(n) = q * PayloadAlign
  BY DEF Align, a
<1> HIDE DEF q, r
<1>5. q * PayloadAlign = p /\ p \in Nat
  BY <1>1, <1>3
<1> HIDE DEF p
<1>6. QED
  BY <1>1, <1>3, <1>4, <1>5 DEF a

\* How much further a command moves the end of the payloads.
EndAfter(command, end) ==
  IF PayloadOf(command) = 0 THEN end ELSE Align(end) + PayloadOf(command)

LEMMA EndAfterGrows ==
  ASSUME NEW command \in ListCommands, NEW end \in Nat
  PROVE  /\ PayloadOf(command) \in Nat
         /\ EndAfter(command, end) \in Nat /\ end <= EndAfter(command, end)
         /\ PayloadOf(command) # 0 => end + PayloadOf(command) <= EndAfter(command, end)
<1>1. PayloadOf(command) \in Nat
  BY DEF PayloadOf, ListCommands
<1>2. Align(end) \in Nat /\ end <= Align(end)
  BY AlignUp
<1>3. QED
  BY <1>1, <1>2 DEF EndAfter

\* The ends of the payloads of a list, one after the other.
LEMMA EndsFollow ==
  ASSUME NEW listed \in Seq(ListCommands)
  PROVE  LET ends == PayloadEnds(listed)
         IN  /\ ends[0] = 0
             /\ \A i \in 1 .. Len(listed) : ends[i] = EndAfter(listed[i], ends[i - 1])
<1> DEFINE N == Len(listed)
           IsEnds(h) == h = [i \in 0 .. Len(listed) |->
                               IF i = 0 THEN 0
                               ELSE IF PayloadOf(listed[i]) = 0 THEN h[i - 1]
                               ELSE Align(h[i - 1]) + PayloadOf(listed[i])]
           ends == CHOOSE h : IsEnds(h)
           step == [p \in (1 .. N) \X Nat |-> EndAfter(listed[p[1]], p[2])]
<1>1. PayloadEnds(listed) = ends
  BY DEF PayloadEnds
<1>2. N \in Nat /\ \A i \in 1 .. N : listed[i] \in ListCommands
  OBVIOUS
<1>3. \E h : IsEnds(h)
  <2>1. step \in [(1 .. N) \X Nat -> Nat]
    <3>1. \A p \in (1 .. N) \X Nat : EndAfter(listed[p[1]], p[2]) \in Nat
      BY <1>2, EndAfterGrows
    <3> HIDE DEF N
    <3>2. QED
      BY <3>1
  <2>2. \A i \in 1 .. N, x \in Nat : step[<<i, x>>] = EndAfter(listed[i], x)
    OBVIOUS
  <2> HIDE DEF step, N
  <2>3. PICK f \in [0 .. N -> Nat] : Iterates(f, 0, step, N)
    BY ONLY <1>2, <2>1, 0 \in Nat, Iteration, Zenon
  <2>4. ASSUME NEW i \in 0 .. N
        PROVE  f[i] = IF i = 0 THEN 0
                      ELSE IF PayloadOf(listed[i]) = 0 THEN f[i - 1]
                      ELSE Align(f[i - 1]) + PayloadOf(listed[i])
    <3>1. f[i] = IF i = 0 THEN 0 ELSE step[<<i, f[i - 1]>>]
      BY <2>3 DEF Iterates
    <3>2. CASE i # 0
      <4>1. i \in 1 .. N /\ i - 1 \in 0 .. N
        BY <1>2, <3>2
      <4>2. f[i - 1] \in Nat
        BY <4>1
      <4>3. step[<<i, f[i - 1]>>] = EndAfter(listed[i], f[i - 1])
        BY ONLY <2>2, <4>1, <4>2, Zenon
      <4>4. QED
        BY <3>1, <3>2, <4>3 DEF EndAfter
    <3>3. QED
      BY <3>1, <3>2
  <2>5. IsEnds(f)
    BY <2>4 DEF N
  <2>6. QED
    BY <2>5
<1>4. IsEnds(ends)
  BY <1>3, Zenon
<1> HIDE DEF ends
<1>5. \A i \in 0 .. N : ends[i] = IF i = 0 THEN 0
                                  ELSE IF PayloadOf(listed[i]) = 0 THEN ends[i - 1]
                                  ELSE Align(ends[i - 1]) + PayloadOf(listed[i])
  BY ONLY <1>4, Zenon
<1>6. ends[0] = 0
  BY <1>2, <1>5
<1>7. ASSUME NEW i \in 1 .. N PROVE ends[i] = EndAfter(listed[i], ends[i - 1])
  <2>1. i \in 0 .. N /\ i # 0
    BY <1>2
  <2>2. QED
    BY ONLY <1>5, <2>1, Zenon DEF EndAfter
<1>8. QED
  BY <1>1, <1>6, <1>7

LEMMA EndsGrow ==
  ASSUME NEW listed \in Seq(ListCommands)
  PROVE  LET ends == PayloadEnds(listed)
         IN  /\ \A i \in 0 .. Len(listed) : ends[i] \in Nat
             /\ \A i, j \in 0 .. Len(listed) : i <= j => ends[i] <= ends[j]
<1> DEFINE N == Len(listed)
           ends == PayloadEnds(listed)
<1>1. N \in Nat /\ \A i \in 1 .. N : listed[i] \in ListCommands
  OBVIOUS
<1>2. ends[0] = 0 /\ \A i \in 1 .. N : ends[i] = EndAfter(listed[i], ends[i - 1])
  BY EndsFollow
<1> HIDE DEF N, ends
<1>3. \A i \in 0 .. N : ends[i] \in Nat
  <2>1. ASSUME NEW i \in 1 .. N, ends[i - 1] \in Nat PROVE ends[i] \in Nat
    BY <1>1, <1>2, <2>1, EndAfterGrows
  <2>2. ends[0] \in Nat
    BY <1>2
  <2>3. QED
    BY ONLY <1>1, <2>1, <2>2, StaysIn, Zenon
<1>4. ASSUME NEW i \in 0 .. N
      PROVE  \A j \in 0 .. N : i <= j => ends[i] <= ends[j]
  <2> DEFINE Lower == {j \in 0 .. N : i <= j /\ ~(ends[i] <= ends[j])}
  <2>1. ASSUME Lower # {} PROVE FALSE
    <3>1. PICK m \in Lower : \A k \in Lower : m <= k
      <4>1. Lower \in SUBSET Nat
        BY <1>1
      <4> HIDE DEF Lower
      <4>2. QED
        BY <2>1, <4>1, LeastElement
    <3>2. m \in 0 .. N /\ i <= m /\ ~(ends[i] <= ends[m]) /\ ends[i] \in Nat
      BY <1>3, <3>1
    <3>3. m # i
      BY ONLY <3>2
    <3>4. /\ m \in 1 .. N /\ m - 1 \in 0 .. N /\ i <= m - 1 /\ m - 1 \notin Lower
      <4>1. m \in 1 .. N /\ m - 1 \in 0 .. N /\ i <= m - 1 /\ ~(m <= m - 1)
        BY ONLY <1>1, <3>2, <3>3, i \in 0 .. N
      <4> HIDE DEF Lower
      <4>2. QED
        BY <3>1, <4>1
    <3>5. ends[i] <= ends[m - 1] /\ ends[m - 1] \in Nat
      BY <1>3, <3>4
    <3>6. ends[m - 1] <= ends[m] /\ ends[m] \in Nat
      BY <1>1, <1>2, <1>3, <3>4, <3>5, EndAfterGrows
    <3>7. QED
      BY ONLY <3>2, <3>5, <3>6
  <2>2. QED
    BY <2>1
<1>5. QED
  BY <1>3, <1>4 DEF N, ends

\* The payload of a bind lies before those of the binds after it, and all of
\* them before the end.
LEMMA PayloadsInOrder ==
  ASSUME NEW listed \in Seq(ListCommands), NEW i \in DOMAIN listed, listed[i].op = "bind"
  PROVE  /\ listed[i].size \in Nat \ {0}
         /\ PayloadOffset(listed, i) \in Nat
         /\ PayloadOffset(listed, i) + listed[i].size <= PayloadEnd(listed)
         /\ \A j \in DOMAIN listed :
              j < i => PayloadEnds(listed)[j] <= PayloadOffset(listed, i)
         /\ PayloadOffset(listed, i) + listed[i].size = PayloadEnds(listed)[i]
<1> DEFINE N == Len(listed)
           ends == PayloadEnds(listed)
           size == listed[i].size
<1>1. N \in Nat /\ i \in 1 .. N /\ DOMAIN listed = 1 .. N /\ listed[i] \in ListCommands
  OBVIOUS
<1>2. size \in Nat \ {0} /\ PayloadOf(listed[i]) = size
  BY <1>1 DEF ListCommands, PayloadOf
<1>3. i \in 0 .. N /\ i - 1 \in 0 .. N /\ N \in 0 .. N
  BY <1>1
<1>4. /\ \A j \in 0 .. N : ends[j] \in Nat
      /\ \A j, k \in 0 .. N : j <= k => ends[j] <= ends[k]
  BY EndsGrow
<1>5. ends[i] = EndAfter(listed[i], ends[i - 1])
  BY <1>1, EndsFollow
<1>6. PayloadOffset(listed, i) = ends[i] - size /\ PayloadEnd(listed) = ends[N]
  BY <1>2 DEF PayloadOffset, PayloadEnd
<1> HIDE DEF ends, N, size
<1>7. ends[i - 1] \in Nat /\ ends[i] \in Nat /\ ends[N] \in Nat /\ ends[i] <= ends[N]
  BY <1>1, <1>3, <1>4
<1>8. ends[i - 1] + size <= ends[i]
  BY <1>1, <1>2, <1>5, <1>7, EndAfterGrows
<1>9. ASSUME NEW j \in DOMAIN listed, j < i
      PROVE  ends[j] <= ends[i] - size
  <2>1. j \in 0 .. N /\ j <= i - 1
    BY ONLY <1>1, <1>9
  <2>2. ends[j] <= ends[i - 1] /\ ends[j] \in Nat
    BY <1>3, <1>4, <2>1
  <2>3. QED
    BY ONLY <1>2, <1>7, <1>8, <2>2
<1>10. ends[i] - size \in Nat /\ (ends[i] - size) + size = ends[i]
  BY ONLY <1>2, <1>7, <1>8
<1>11. QED
  BY <1>2, <1>6, <1>7, <1>9, <1>10 DEF ends, size

\* The commands of the recorded lists that bind something.
Binds ==
  {ref \in [list : DOMAIN recorded, index : Nat] :
     ref.index \in DOMAIN recorded[ref.list].commands /\ CommandAt(ref).op = "bind"}

\* The arenas of the lists, each with room for the list's payloads, lie apart and
\* below the cursor.
ArenasApart ==
  /\ cursor \in Nat
  /\ \A l \in DOMAIN recorded :
       /\ recorded[l].commands \in Seq(ListCommands)
       /\ recorded[l].start \in Nat /\ recorded[l].room \in Nat
       /\ PayloadEnd(recorded[l].commands) <= recorded[l].room
       /\ recorded[l].start + recorded[l].room <= cursor
       /\ recorded[l].start + recorded[l].room <= ArenaSize
  /\ \A l, m \in DOMAIN recorded :
       l # m /\ recorded[l].room # 0 /\ recorded[m].room # 0
         => \/ recorded[l].start + recorded[l].room <= recorded[m].start
            \/ recorded[m].start + recorded[m].room <= recorded[l].start

\* A slot holds what a command still recorded bound, and that is in the arena.
Holds(s, ref) ==
  /\ held[s] = [list |-> ref.list, content |-> CommandAt(ref).content, size |-> CommandAt(ref).size]
  /\ bound[s] = PayloadPlace(ref)
  /\ \A a \in PayloadBytes(ref) : arena[a] = CommandAt(ref).content
HeldIsRecorded ==
  /\ DOMAIN arena = 0 .. ArenaSize - 1
  /\ DOMAIN bound = Slots /\ DOMAIN held = Slots
  /\ \A s \in Slots : held[s].list # 0 => \E ref \in Binds : Holds(s, ref)

PayloadsInv == ListsInv /\ ArenasApart /\ HeldIsRecorded

\* Where the bytes of a payload lie: inside the arena of its list.
LEMMA BytesInside ==
  ASSUME ArenasApart, NEW p \in Binds
  PROVE  /\ p.list \in DOMAIN recorded /\ p.index \in DOMAIN recorded[p.list].commands
         /\ CommandAt(p) \in ListCommands /\ CommandAt(p).op = "bind"
         /\ CommandAt(p).size \in Nat \ {0}
         /\ PayloadPlace(p) \in Nat /\ recorded[p.list].start <= PayloadPlace(p)
         /\ PayloadPlace(p) + CommandAt(p).size <= recorded[p.list].start + recorded[p.list].room
<1> DEFINE listed == recorded[p.list].commands
           start == recorded[p.list].start
           room == recorded[p.list].room
           offset == PayloadOffset(listed, p.index)
           size == listed[p.index].size
<1>1. p.list \in DOMAIN recorded /\ p.index \in DOMAIN listed /\ CommandAt(p).op = "bind"
  BY DEF Binds
<1>2. CommandAt(p) = listed[p.index] /\ PayloadPlace(p) = start + offset
  BY DEF CommandAt, PayloadPlace
<1>3. /\ listed \in Seq(ListCommands) /\ start \in Nat /\ room \in Nat
      /\ PayloadEnd(listed) <= room
  BY <1>1 DEF ArenasApart
<1>4. listed[p.index] \in ListCommands
  BY <1>1, <1>3
<1>5. /\ size \in Nat \ {0} /\ offset \in Nat
      /\ offset + size <= PayloadEnd(listed)
  BY <1>1, <1>2, <1>3, PayloadsInOrder
<1>6. PayloadEnd(listed) \in Nat
  <2>1. Len(listed) \in 0 .. Len(listed)
    BY <1>3
  <2>2. QED
    BY <1>3, <2>1, EndsGrow DEF PayloadEnd
<1> HIDE DEF listed, start, room, offset, size
<1>7. start + offset \in Nat /\ start <= start + offset /\ start + offset + size <= start + room
  BY ONLY <1>3, <1>5, <1>6
<1>8. QED
  BY <1>1, <1>2, <1>4, <1>5, <1>7 DEF listed, start, room, size

\* No byte of the arena belongs to two commands.
LEMMA OneOwner ==
  ASSUME ArenasApart, NEW p \in Binds, NEW q \in Binds, NEW a \in PayloadBytes(p), a \in PayloadBytes(q)
  PROVE  p = q
<1>1. /\ p.list \in DOMAIN recorded /\ p.index \in DOMAIN recorded[p.list].commands
      /\ q.list \in DOMAIN recorded /\ q.index \in DOMAIN recorded[q.list].commands
      /\ CommandAt(p).op = "bind" /\ CommandAt(q).op = "bind"
  BY BytesInside
<1>2. /\ CommandAt(p).size \in Nat \ {0} /\ PayloadPlace(p) \in Nat
      /\ recorded[p.list].start <= PayloadPlace(p)
      /\ PayloadPlace(p) + CommandAt(p).size <= recorded[p.list].start + recorded[p.list].room
  BY BytesInside
<1>3. /\ CommandAt(q).size \in Nat \ {0} /\ PayloadPlace(q) \in Nat
      /\ recorded[q.list].start <= PayloadPlace(q)
      /\ PayloadPlace(q) + CommandAt(q).size <= recorded[q.list].start + recorded[q.list].room
  BY BytesInside
<1>4. /\ a \in Nat /\ PayloadPlace(p) <= a /\ a < PayloadPlace(p) + CommandAt(p).size
      /\ PayloadPlace(q) <= a /\ a < PayloadPlace(q) + CommandAt(q).size
  BY <1>2, <1>3 DEF PayloadBytes
<1>5. p.list = q.list
  <2> DEFINE s1 == recorded[p.list].start
             r1 == recorded[p.list].room
             s2 == recorded[q.list].start
             r2 == recorded[q.list].room
  <2>1. s1 \in Nat /\ r1 \in Nat /\ s2 \in Nat /\ r2 \in Nat
    BY <1>1 DEF ArenasApart
  <2>2. p.list # q.list /\ r1 # 0 /\ r2 # 0 => s1 + r1 <= s2 \/ s2 + r2 <= s1
    BY <1>1 DEF ArenasApart
  <2>3. s1 <= PayloadPlace(p) /\ PayloadPlace(p) + CommandAt(p).size <= s1 + r1
    BY <1>2
  <2>4. s2 <= PayloadPlace(q) /\ PayloadPlace(q) + CommandAt(q).size <= s2 + r2
    BY <1>3
  <2>5. CommandAt(p).size \in Nat /\ CommandAt(q).size \in Nat /\ PayloadPlace(p) \in Nat /\ PayloadPlace(q) \in Nat
    BY <1>2, <1>3
  <2> HIDE DEF s1, r1, s2, r2
  <2>6. r1 # 0 /\ r2 # 0
    BY ONLY <1>4, <2>1, <2>3, <2>4, <2>5
  <2>7. ~(s1 + r1 <= s2) /\ ~(s2 + r2 <= s1)
    BY ONLY <1>4, <2>1, <2>3, <2>4, <2>5
  <2>8. QED
    BY <2>2, <2>6, <2>7
<1>6. ASSUME NEW x \in Binds, NEW y \in Binds, x.list = y.list, x.index < y.index,
             a \in PayloadBytes(x), a \in PayloadBytes(y)
      PROVE  FALSE
  <2> DEFINE listed == recorded[x.list].commands
             ends == PayloadEnds(listed)
             start == recorded[x.list].start
  <2>1. /\ listed \in Seq(ListCommands) /\ x.index \in DOMAIN listed
        /\ y.index \in DOMAIN listed /\ start \in Nat
        /\ listed[x.index].op = "bind" /\ listed[y.index].op = "bind"
    BY <1>6, BytesInside DEF ArenasApart, CommandAt
  <2>2. /\ listed[x.index].size \in Nat \ {0} /\ PayloadOffset(listed, x.index) \in Nat
        /\ PayloadOffset(listed, x.index) + listed[x.index].size = ends[x.index]
    BY <2>1, PayloadsInOrder
  <2>3. /\ listed[y.index].size \in Nat \ {0} /\ PayloadOffset(listed, y.index) \in Nat
        /\ ends[x.index] <= PayloadOffset(listed, y.index)
    BY <1>6, <2>1, PayloadsInOrder
  <2>4. /\ PayloadPlace(x) = start + PayloadOffset(listed, x.index)
        /\ PayloadPlace(y) = start + PayloadOffset(listed, y.index)
        /\ CommandAt(x).size = listed[x.index].size /\ CommandAt(y).size = listed[y.index].size
    BY <1>6 DEF PayloadPlace, CommandAt
  <2>5. a \in PayloadPlace(x) .. PayloadPlace(x) + CommandAt(x).size - 1 /\ a \in PayloadPlace(y) .. PayloadPlace(y) + CommandAt(y).size - 1
    BY <1>6 DEF PayloadBytes
  <2> HIDE DEF listed, ends, start
  <2> DEFINE at == PayloadPlace(x)
             to == PayloadPlace(y)
             size == CommandAt(x).size
             more == CommandAt(y).size
  <2>6. at \in Nat /\ to \in Nat /\ size \in Nat /\ more \in Nat
    BY ONLY <2>1, <2>2, <2>3, <2>4
  <2>7. at + size <= to
    BY ONLY <2>1, <2>2, <2>3, <2>4
  <2>8. a \in at .. at + size - 1 /\ a \in to .. to + more - 1
    BY <2>5
  <2> HIDE DEF at, to, size, more
  <2>9. QED
    BY ONLY <2>6, <2>7, <2>8
<1>7. p.index = q.index
  <2>1. p.index \in Nat /\ q.index \in Nat
    BY DEF Binds
  <2>2. p.index = q.index \/ p.index < q.index \/ q.index < p.index
    BY <2>1
  <2>3. QED
    BY <1>5, <1>6, <2>2
<1>8. QED
  BY <1>5, <1>7 DEF Binds

\* What a replay binds, given what the lists it calls bind.
Expanded(l, reached, inner) ==
  FlattenSeq([i \in 1 .. reached |->
    LET command == recorded[l].commands[i]
    IN  IF command.op = "bind" THEN <<[list |-> l, index |-> i]>>
        ELSE IF command.slot \notin DOMAIN recorded THEN <<>>
        ELSE inner[command.slot][Reached(command.slot, command.size)]])
NoBinds == [l \in DOMAIN recorded |-> [reached \in 0 .. Len(recorded[l].commands) |-> <<>>]]
ChainLonger(inner) ==
  [l \in DOMAIN recorded |-> [reached \in 0 .. Len(recorded[l].commands) |->
     Expanded(l, reached, inner)]]
\* Of every recorded list and every number of its commands, what they bind.
Replays ==
  {g \in [DOMAIN recorded -> UNION {[0 .. Len(recorded[l].commands) -> Seq(Binds)] :
                                    l \in DOMAIN recorded}] :
     \A l \in DOMAIN recorded : g[l] \in [0 .. Len(recorded[l].commands) -> Seq(Binds)]}

\* A call reaches no more commands than its list has.
LEMMA ReachedType ==
  ASSUME PayloadsInv, NEW l \in DOMAIN recorded, NEW size \in Nat
  PROVE  Reached(l, size) \in 0 .. Len(recorded[l].commands)
<1> DEFINE N == Len(recorded[l].commands)
<1>1. N \in Nat /\ recorded[l].size = TokenSize * N
  BY DEF PayloadsInv, ArenasApart, ListsInv, SizesCountCommands
<1>2. Reached(l, size) = IF size >= recorded[l].size THEN N ELSE size \div TokenSize
  BY DEF Reached
<1> HIDE DEF N
<1>3. Reached(l, size) \in 0 .. N
  BY <1>1, <1>2 DEF TokenSize
<1>4. QED
  BY <1>3 DEF N

\* Only commands of the recorded lists are carried out.
LEMMA ExpandedType ==
  ASSUME PayloadsInv, NEW inner \in Replays, NEW l \in DOMAIN recorded,
         NEW reached \in 0 .. Len(recorded[l].commands)
  PROVE  Expanded(l, reached, inner) \in Seq(Binds)
<1> DEFINE listed == recorded[l].commands
           Part(i) == IF listed[i].op = "bind" THEN <<[list |-> l, index |-> i]>>
                      ELSE IF listed[i].slot \notin DOMAIN recorded THEN <<>>
                      ELSE inner[listed[i].slot][Reached(listed[i].slot, listed[i].size)]
           parts == [i \in 1 .. reached |-> Part(i)]
<1>1. listed \in Seq(ListCommands) /\ Len(listed) \in Nat /\ DOMAIN listed = 1 .. Len(listed)
  BY DEF PayloadsInv, ArenasApart
<1>2. reached \in Nat /\ \A i \in 1 .. reached : i \in DOMAIN listed /\ listed[i] \in ListCommands
  BY <1>1
<1>3. ASSUME NEW i \in 1 .. reached PROVE Part(i) \in Seq(Binds)
  <2>1. i \in DOMAIN listed /\ listed[i] \in ListCommands /\ i \in Nat
    BY <1>2
  <2>2. CASE listed[i].op = "bind"
    <3> DEFINE ref == [list |-> l, index |-> i]
    <3>1. ref \in Binds
      BY <2>1, <2>2 DEF Binds, CommandAt
    <3> HIDE DEF ref
    <3>2. <<ref>> \in Seq(Binds)
      BY ONLY <3>1
    <3>3. QED
      BY <2>2, <3>2 DEF ref
  <2>3. CASE listed[i].op # "bind" /\ listed[i].slot \notin DOMAIN recorded
    <3>1. Part(i) = <<>>
      BY <2>3
    <3>2. <<>> \in Seq(Binds)
      OBVIOUS
    <3>3. QED
      BY ONLY <3>1, <3>2, Zenon
  <2>4. CASE listed[i].op # "bind" /\ listed[i].slot \in DOMAIN recorded
    <3> DEFINE m == listed[i].slot
               k == Reached(m, listed[i].size)
    <3>1. listed[i].size \in Nat
      BY <2>1 DEF ListCommands
    <3>2. k \in 0 .. Len(recorded[m].commands)
      BY <2>4, <3>1, ReachedType
    <3>3. inner[m] \in [0 .. Len(recorded[m].commands) -> Seq(Binds)]
      BY <2>4 DEF Replays
    <3>4. Part(i) = inner[m][k]
      BY <2>4
    <3> HIDE DEF m, k, Part
    <3>5. QED
      BY ONLY <3>2, <3>3, <3>4
  <2>5. QED
    BY <2>2, <2>3, <2>4
<1>4. Expanded(l, reached, inner) = FlattenSeq(parts)
  BY Zenon DEF Expanded
<1> HIDE DEF Part, listed
<1>5. parts \in [1 .. reached -> Seq(Binds)]
  BY <1>3
<1> HIDE DEF parts
<1>6. QED
  BY ONLY <1>2, <1>4, <1>5, FlattenType, Zenon

LEMMA ChainType ==
  ASSUME PayloadsInv
  PROVE  /\ NoBinds \in Replays
         /\ \A inner \in Replays : ChainLonger(inner) \in Replays
<1> DEFINE S == Seq(Binds)
           N(l) == 0 .. Len(recorded[l].commands)
<1>1. Replays = {g \in [DOMAIN recorded -> UNION {[N(l) -> S] : l \in DOMAIN recorded}] :
                   \A l \in DOMAIN recorded : g[l] \in [N(l) -> S]}
  BY DEF Replays
<1>2. <<>> \in S
  OBVIOUS
<1>3. NoBinds = [l \in DOMAIN recorded |-> [reached \in N(l) |-> <<>>]]
  BY DEF NoBinds
<1>4. ASSUME NEW inner \in Replays
      PROVE  /\ ChainLonger(inner) = [l \in DOMAIN recorded |-> [reached \in N(l) |->
                                        Expanded(l, reached, inner)]]
             /\ \A l \in DOMAIN recorded : \A reached \in N(l) : Expanded(l, reached, inner) \in S
  BY ExpandedType DEF ChainLonger
<1> HIDE DEF S, N
<1>5. NoBinds \in Replays
  <2>1. \A l \in DOMAIN recorded : [reached \in N(l) |-> <<>>] \in [N(l) -> S]
    BY <1>2
  <2>2. QED
    BY <1>1, <1>3, <2>1
<1>6. ASSUME NEW inner \in Replays PROVE ChainLonger(inner) \in Replays
  <2> DEFINE row(l) == [reached \in N(l) |-> Expanded(l, reached, inner)]
  <2>1. \A l \in DOMAIN recorded : row(l) \in [N(l) -> S]
    BY <1>4
  <2>2. ChainLonger(inner) = [l \in DOMAIN recorded |-> row(l)]
    BY <1>4, Zenon
  <2> HIDE DEF row
  <2>3. QED
    BY ONLY <1>1, <2>1, <2>2
<1>7. QED
  BY <1>5, <1>6

\* A call carries out binds of the recorded lists, one after another.
LEMMA ReplayType ==
  ASSUME PayloadsInv, NEW list \in DOMAIN recorded, NEW n \in 0 .. Len(recorded[list].commands)
  PROVE  Replay(list, n) \in Seq(Binds)
<1> DEFINE C == Cardinality(Lists)
           IsBinds(h) == h = [chain \in 0 .. C |->
                                IF chain = 0 THEN NoBinds ELSE ChainLonger(h[chain - 1])]
           binds == CHOOSE h : IsBinds(h)
           step == [p \in (1 .. C) \X Replays |-> ChainLonger(p[2])]
<1>1. C \in Nat
  BY DisplayConstants, FS_CardinalityType
<1>2. Replay(list, n) = binds[C][list][n]
  BY Zenon DEF Replay, NoBinds, ChainLonger, Expanded
<1>3. \E h : IsBinds(h)
  <2>1. step \in [(1 .. C) \X Replays -> Replays]
    <3>1. \A p \in (1 .. C) \X Replays : ChainLonger(p[2]) \in Replays
      BY ChainType
    <3> HIDE DEF C
    <3>2. QED
      BY ONLY <3>1
  <2>2. \A i \in 1 .. C, x \in Replays : step[<<i, x>>] = ChainLonger(x)
    OBVIOUS
  <2> HIDE DEF step, C
  <2>3. PICK f \in [0 .. C -> Replays] : Iterates(f, NoBinds, step, C)
    BY <1>1, <2>1, ChainType, Iteration, Zenon
  <2>4. ASSUME NEW i \in 0 .. C
        PROVE  f[i] = IF i = 0 THEN NoBinds ELSE ChainLonger(f[i - 1])
    <3>1. f[i] = IF i = 0 THEN NoBinds ELSE step[<<i, f[i - 1]>>]
      BY <2>3 DEF Iterates
    <3>2. CASE i # 0
      <4>1. i \in 1 .. C /\ i - 1 \in 0 .. C
        BY <1>1, <3>2
      <4>2. f[i - 1] \in Replays
        BY <4>1
      <4>3. step[<<i, f[i - 1]>>] = ChainLonger(f[i - 1])
        BY ONLY <2>2, <4>1, <4>2, Zenon
      <4>4. QED
        BY <3>1, <3>2, <4>3
    <3>3. QED
      BY <3>1, <3>2
  <2>5. IsBinds(f)
    BY <2>4
  <2>6. QED
    BY <2>5
<1>4. IsBinds(binds)
  BY <1>3, Zenon
<1> HIDE DEF binds, C
<1>5. \A i \in 0 .. C : binds[i] = IF i = 0 THEN NoBinds ELSE ChainLonger(binds[i - 1])
  BY ONLY <1>4, Zenon
<1>6. binds[0] \in Replays
  BY <1>1, <1>5, ChainType
<1>7. ASSUME NEW i \in 1 .. C, binds[i - 1] \in Replays PROVE binds[i] \in Replays
  <2>1. i \in 0 .. C /\ i # 0
    BY <1>1
  <2>2. binds[i] = ChainLonger(binds[i - 1])
    BY ONLY <1>5, <2>1
  <2>3. QED
    BY <1>7, <2>2, ChainType
<1>8. binds[C] \in Replays
  <2>1. \A i \in 0 .. C : binds[i] \in Replays
    BY ONLY <1>1, <1>6, <1>7, StaysIn, Zenon
  <2>2. QED
    BY <1>1, <2>1
<1>9. binds[C][list] \in [0 .. Len(recorded[list].commands) -> Seq(Binds)]
  BY <1>8 DEF Replays
<1>10. QED
  BY <1>2, <1>9

\* A call leaves the arenas where they are; of every payload it writes again,
\* and of every slot it binds, the last one counts.
LEMMA CallKeepsPayloads ==
  ASSUME PayloadsInv, NEW c \in RecordingCores, NEW list \in Lists, NEW size \in Nat,
         CallList(c, list, size)
  PROVE  ArenasApart' /\ HeldIsRecorded'
<1> DEFINE binds == Replay(list, Reached(list, size))
           Latest(js) == binds[Max(js)]
<1>1. /\ UNCHANGED <<recorder, recorded, cursor>>
      /\ list \in DOMAIN recorded
      /\ arena' = [a \in DOMAIN arena |->
           IF Writers(binds, a) = {} THEN arena[a] ELSE CommandAt(Latest(Writers(binds, a))).content]
      /\ bound' = [s \in Slots |->
           IF Binders(binds, s) = {} THEN bound[s] ELSE PayloadPlace(Latest(Binders(binds, s)))]
      /\ held' = [s \in Slots |->
           IF Binders(binds, s) = {} THEN held[s]
           ELSE [list |-> Latest(Binders(binds, s)).list,
                 content |-> CommandAt(Latest(Binders(binds, s))).content,
                 size |-> CommandAt(Latest(Binders(binds, s))).size]]
  BY DEF CallList
<1>2. binds \in Seq(Binds)
  BY <1>1, ReachedType, ReplayType
<1>3. Len(binds) \in Nat /\ DOMAIN binds = 1 .. Len(binds) /\ \A j \in DOMAIN binds : binds[j] \in Binds
  BY <1>2
<1> HIDE DEF binds
<1>4. \A js \in SUBSET DOMAIN binds : js # {} => Max(js) \in js
  BY <1>3, GreatestIndex
<1>5. /\ \A a : Writers(binds, a) \in SUBSET DOMAIN binds
      /\ \A s : Binders(binds, s) \in SUBSET DOMAIN binds
  BY DEF Writers, Binders
<1>6. ASSUME NEW ref \in Binds, NEW a \in PayloadBytes(ref),
             Writers(binds, a) = {} => arena[a] = CommandAt(ref).content
      PROVE  arena'[a] = CommandAt(ref).content
  <2>1. a \in DOMAIN arena
    <3>1. /\ PayloadPlace(ref) \in Nat /\ CommandAt(ref).size \in Nat \ {0}
          /\ PayloadPlace(ref) + CommandAt(ref).size
               <= recorded[ref.list].start + recorded[ref.list].room
          /\ ref.list \in DOMAIN recorded
      BY BytesInside DEF PayloadsInv
    <3>2. /\ recorded[ref.list].start + recorded[ref.list].room <= ArenaSize
          /\ recorded[ref.list].start \in Nat /\ recorded[ref.list].room \in Nat
      BY <3>1 DEF PayloadsInv, ArenasApart
    <3>3. ArenaSize \in Nat
      BY DisplayConstants
    <3>4. a \in 0 .. ArenaSize - 1
      BY ONLY <3>1, <3>2, <3>3, a \in PayloadBytes(ref) DEF PayloadBytes
    <3>5. QED
      BY <3>4 DEF PayloadsInv, HeldIsRecorded
  <2>2. CASE Writers(binds, a) = {}
    BY <1>1, <1>6, <2>1, <2>2
  <2>3. CASE Writers(binds, a) # {}
    <3> DEFINE j == Max(Writers(binds, a))
    <3>1. j \in Writers(binds, a)
      BY <1>4, <1>5, <2>3
    <3>2. j \in DOMAIN binds /\ a \in PayloadBytes(binds[j])
      BY <3>1 DEF Writers
    <3>3. binds[j] = ref
      BY <1>3, <3>2, OneOwner DEF PayloadsInv
    <3>4. arena'[a] = CommandAt(binds[j]).content
      BY <1>1, <2>1, <2>3
    <3> HIDE DEF j
    <3>5. QED
      BY <3>3, <3>4
  <2>4. QED
    BY <2>2, <2>3
<1>7. ASSUME NEW s \in Slots, held'[s].list # 0
      PROVE  \E ref \in Binds : /\ held'[s] = [list |-> ref.list, content |-> CommandAt(ref).content,
                                               size |-> CommandAt(ref).size]
                                /\ bound'[s] = PayloadPlace(ref)
                                /\ \A a \in PayloadBytes(ref) : arena'[a] = CommandAt(ref).content
  <2>1. CASE Binders(binds, s) = {}
    <3>1. held'[s] = held[s] /\ bound'[s] = bound[s]
      BY <1>1, <2>1
    <3>2. PICK ref \in Binds : Holds(s, ref)
      BY <1>7, <3>1 DEF PayloadsInv, HeldIsRecorded
    <3>3. \A a \in PayloadBytes(ref) : arena'[a] = CommandAt(ref).content
      BY <1>6, <3>2 DEF Holds
    <3>4. QED
      BY <3>1, <3>2, <3>3 DEF Holds
  <2>2. CASE Binders(binds, s) # {}
    <3> DEFINE j == Max(Binders(binds, s))
               ref == binds[j]
    <3>1. j \in DOMAIN binds
      BY <1>4, <1>5, <2>2
    <3>2. ref \in Binds
      BY <1>3, <3>1
    <3>3. \A a \in PayloadBytes(ref) : j \in Writers(binds, a)
      BY <3>1 DEF Writers
    <3>4. /\ held'[s] = [list |-> ref.list, content |-> CommandAt(ref).content,
                         size |-> CommandAt(ref).size]
          /\ bound'[s] = PayloadPlace(ref)
      BY <1>1, <2>2
    <3> HIDE DEF j, ref
    <3>5. \A a \in PayloadBytes(ref) : arena'[a] = CommandAt(ref).content
      BY <1>6, <3>2, <3>3
    <3>6. QED
      BY <3>2, <3>4, <3>5
  <2>3. QED
    BY <2>1, <2>2
<1>8. DOMAIN arena' = 0 .. ArenaSize - 1 /\ DOMAIN bound' = Slots /\ DOMAIN held' = Slots
  BY <1>1 DEF PayloadsInv, HeldIsRecorded
<1>9. Binds' = Binds /\ \A ref : /\ CommandAt(ref)' = CommandAt(ref)
                                 /\ PayloadPlace(ref)' = PayloadPlace(ref)
                                 /\ PayloadBytes(ref)' = PayloadBytes(ref)
  BY <1>1 DEF Binds, CommandAt, PayloadPlace, PayloadBytes
<1>10. HeldIsRecorded'
  BY <1>7, <1>8, <1>9 DEF HeldIsRecorded, Holds
<1>11. ArenasApart'
  BY <1>1 DEF PayloadsInv, ArenasApart
<1>12. QED
  BY <1>10, <1>11

\* A list that ends gets an arena that holds its payloads: its old one, none at
\* all, or one past those there are.  What is held of the list it replaces is
\* given up, and nothing else.
LEMMA EndKeepsPayloads ==
  ASSUME PayloadsInv, NEW c \in RecordingCores, EndList(c)
  PROVE  ArenasApart' /\ HeldIsRecorded'
<1> DEFINE address == recorder[c].address
           listed == recorder[c].commands
           required == PayloadEnd(listed)
           place == ArenaFor(address, required)
           new == [size |-> recorder[c].size, commands |-> listed,
                   start |-> place.start, room |-> place.room]
<1>1. /\ place.start + place.room <= ArenaSize
      /\ recorded' = [l \in DOMAIN recorded \cup {address} |->
                        IF l = address THEN new ELSE recorded[l]]
      /\ cursor' = NextCursor(address, required)
      /\ held' = [s \in Slots |-> IF held[s].list = address THEN Unbound ELSE held[s]]
      /\ UNCHANGED <<arena, bound>>
  BY DEF EndList
<1>2. listed \in Seq(ListCommands)
  BY DEF PayloadsInv, ListsInv, Recorders
<1>3. required \in Nat
  <2>1. Len(listed) \in 0 .. Len(listed)
    BY <1>2
  <2>2. QED
    BY <1>2, <2>1, EndsGrow DEF PayloadEnd
<1>4. /\ new.commands = listed /\ new.start = place.start /\ new.room = place.room
  OBVIOUS
<1> HIDE DEF listed, new, place
<1>5. cursor \in Nat /\ Align(cursor) \in Nat /\ cursor <= Align(cursor)
  BY AlignUp DEF PayloadsInv, ArenasApart
<1>6. /\ place.start \in Nat /\ place.room \in Nat /\ required <= place.room
      /\ cursor' \in Nat /\ cursor <= cursor' /\ place.start + place.room <= cursor'
      /\ \/ place.room = 0
         \/ address \in DOMAIN recorded /\ place.start = recorded[address].start
            /\ place.room = recorded[address].room
         \/ cursor <= place.start
  <2>1. CASE Kept(address, required)
    <3>1. address \in DOMAIN recorded /\ required <= recorded[address].room /\ cursor' = cursor
      BY <1>1, <2>1 DEF Kept, NextCursor
    <3>2. place.start = recorded[address].start /\ place.room = recorded[address].room
      BY <2>1 DEF place, ArenaFor
    <3>3. QED
      BY <1>5, <3>1, <3>2 DEF PayloadsInv, ArenasApart
  <2>2. CASE ~Kept(address, required) /\ required = 0
    <3>1. place.start = 0 /\ place.room = 0 /\ cursor' = cursor
      BY <1>1, <2>2 DEF place, ArenaFor, NextCursor
    <3>2. QED
      BY <1>5, <2>2, <3>1
  <2>3. CASE ~Kept(address, required) /\ required # 0
    <3>1. place.start = Align(cursor) /\ place.room = required /\ cursor' = Align(cursor) + required
      BY <1>1, <2>3 DEF place, ArenaFor, NextCursor
    <3>2. QED
      BY <1>3, <1>5, <3>1
  <2>4. QED
    BY <2>1, <2>2, <2>3
<1> HIDE DEF required
<1>7. DOMAIN recorded' = DOMAIN recorded \cup {address}
      /\ recorded'[address] = new
      /\ \A l \in DOMAIN recorded \ {address} : recorded'[l] = recorded[l]
  BY <1>1
<1>8. ASSUME NEW l \in DOMAIN recorded'
      PROVE  /\ recorded'[l].commands \in Seq(ListCommands)
             /\ recorded'[l].start \in Nat /\ recorded'[l].room \in Nat
             /\ PayloadEnd(recorded'[l].commands) <= recorded'[l].room
             /\ recorded'[l].start + recorded'[l].room <= cursor'
             /\ recorded'[l].start + recorded'[l].room <= ArenaSize
  <2>1. CASE l = address
    BY <1>1, <1>2, <1>4, <1>6, <1>7, <2>1 DEF required
  <2>2. CASE l # address
    <3> DEFINE list == recorded[l]
    <3>1. recorded'[l] = list
      BY <1>7, <2>2
    <3>2. /\ list.commands \in Seq(ListCommands) /\ list.start \in Nat /\ list.room \in Nat
          /\ PayloadEnd(list.commands) <= list.room
          /\ list.start + list.room <= cursor /\ list.start + list.room <= ArenaSize
      BY <1>7, <2>2 DEF PayloadsInv, ArenasApart
    <3> HIDE DEF list
    <3>3. list.start + list.room <= cursor'
      BY ONLY <1>5, <1>6, <3>2
    <3>4. QED
      BY <3>1, <3>2, <3>3
  <2>3. QED
    BY <2>1, <2>2
<1>9. ASSUME NEW l \in DOMAIN recorded, l # address, recorded[l].room # 0, place.room # 0
      PROVE  \/ recorded[l].start + recorded[l].room <= place.start
             \/ place.start + place.room <= recorded[l].start
  <2>1. /\ recorded[l].start + recorded[l].room <= cursor
        /\ recorded[l].start \in Nat /\ recorded[l].room \in Nat
    BY DEF PayloadsInv, ArenasApart
  <2>2. CASE cursor <= place.start
    BY ONLY <1>5, <1>6, <2>1, <2>2
  <2>3. CASE address \in DOMAIN recorded /\ place.start = recorded[address].start
             /\ place.room = recorded[address].room
    BY <1>9, <2>3 DEF PayloadsInv, ArenasApart
  <2>4. QED
    BY <1>6, <1>9, <2>2, <2>3
<1>10. ASSUME NEW l \in DOMAIN recorded', NEW m \in DOMAIN recorded', l # m,
              recorded'[l].room # 0, recorded'[m].room # 0
       PROVE  \/ recorded'[l].start + recorded'[l].room <= recorded'[m].start
              \/ recorded'[m].start + recorded'[m].room <= recorded'[l].start
  <2>1. CASE l = address
    BY <1>4, <1>7, <1>9, <1>10, <2>1
  <2>2. CASE m = address
    BY <1>4, <1>7, <1>9, <1>10, <2>2
  <2>3. CASE l # address /\ m # address
    <3>1. l \in DOMAIN recorded /\ m \in DOMAIN recorded
          /\ recorded'[l] = recorded[l] /\ recorded'[m] = recorded[m]
      BY <1>7, <2>3
    <3>2. QED
      BY <1>10, <3>1 DEF PayloadsInv, ArenasApart
  <2>4. QED
    BY <2>1, <2>2, <2>3
<1>11. ArenasApart'
  BY <1>6, <1>8, <1>10 DEF ArenasApart
<1>12. ASSUME NEW s \in Slots, held'[s].list # 0
       PROVE  \E ref \in Binds' : Holds(s, ref)'
  <2>1. held'[s] = held[s] /\ held[s].list # address
    BY <1>1, <1>12 DEF Unbound
  <2>2. PICK ref \in Binds : Holds(s, ref)
    BY <1>12, <2>1 DEF PayloadsInv, HeldIsRecorded
  <2>3. ref.list \in DOMAIN recorded /\ ref.list # address
    BY <2>1, <2>2 DEF Holds, Binds
  <2>4. recorded'[ref.list] = recorded[ref.list] /\ ref.list \in DOMAIN recorded'
    BY <1>7, <2>3
  <2>5. /\ CommandAt(ref)' = CommandAt(ref)
        /\ PayloadPlace(ref)' = PayloadPlace(ref)
    BY <2>4 DEF CommandAt, PayloadPlace
  <2>6. PayloadBytes(ref)' = PayloadBytes(ref)
    BY <2>5 DEF PayloadBytes
  <2>7. ref \in Binds'
    BY <2>2, <2>4, <2>5 DEF Binds
  <2>8. Holds(s, ref)'
    BY <1>1, <2>1, <2>2, <2>5, <2>6 DEF Holds
  <2>9. QED
    BY <2>7, <2>8
<1>13. HeldIsRecorded'
  BY <1>1, <1>12 DEF PayloadsInv, HeldIsRecorded
<1>14. QED
  BY <1>11, <1>13

\* What binds the guest's own memory, or drops all that is bound, holds nothing
\* of a list.
LEMMA UnboundKeepsPayloads ==
  ASSUME PayloadsInv, UNCHANGED <<recorded, cursor, arena>>,
         DOMAIN bound' = Slots, DOMAIN held' = Slots,
         \A s \in Slots : held'[s] = Unbound \/ (held'[s] = held[s] /\ bound'[s] = bound[s])
  PROVE  ArenasApart' /\ HeldIsRecorded'
<1>1. Binds' = Binds /\ \A ref : /\ CommandAt(ref)' = CommandAt(ref)
                                 /\ PayloadPlace(ref)' = PayloadPlace(ref)
                                 /\ PayloadBytes(ref)' = PayloadBytes(ref)
  BY DEF Binds, CommandAt, PayloadPlace, PayloadBytes
<1>2. ASSUME NEW s \in Slots, held'[s].list # 0
      PROVE  \E ref \in Binds' : Holds(s, ref)'
  <2>1. held'[s] = held[s] /\ bound'[s] = bound[s]
    BY <1>2 DEF Unbound
  <2>2. PICK ref \in Binds : Holds(s, ref)
    BY <1>2, <2>1 DEF PayloadsInv, HeldIsRecorded
  <2>3. Holds(s, ref)'
    BY <1>1, <2>1, <2>2 DEF Holds
  <2>4. QED
    BY <1>1, <2>3
<1>3. HeldIsRecorded'
  BY <1>2 DEF PayloadsInv, HeldIsRecorded
<1>4. QED
  BY <1>3 DEF PayloadsInv, ArenasApart

LEMMA PayloadsStep ==
  ASSUME PayloadsInv, [DisplayNext]_displayVars
  PROVE  PayloadsInv'
<1>1. ListsInv'
  BY ListsStep DEF PayloadsInv
<1>2. /\ DOMAIN bound = Slots /\ DOMAIN held = Slots
  BY DEF PayloadsInv, HeldIsRecorded
<1>3. ASSUME UNCHANGED <<recorded, cursor, arena, bound, held>>
      PROVE  ArenasApart' /\ HeldIsRecorded'
  <2>1. UNCHANGED <<recorded, cursor, arena>> /\ bound' = bound /\ held' = held
    BY <1>3
  <2>2. QED
    BY ONLY PayloadsInv, <1>2, <2>1, UnboundKeepsPayloads
<1>4. ASSUME NEW c \in RecordingCores, EndList(c)
      PROVE  ArenasApart' /\ HeldIsRecorded'
  BY <1>4, EndKeepsPayloads
<1>5. ASSUME NEW c \in RecordingCores, NEW l \in Lists, NEW n \in 1 .. 2, CallList(c, l, n * TokenSize)
      PROVE  ArenasApart' /\ HeldIsRecorded'
  <2>1. n * TokenSize \in Nat
    BY DEF TokenSize
  <2>2. QED
    BY <1>5, <2>1, CallKeepsPayloads
<1>6. ASSUME NEW c \in RecordingCores, NEW s \in Slots, BindNow(c, s)
      PROVE  ArenasApart' /\ HeldIsRecorded'
  <2>1. /\ bound' = [bound EXCEPT ![s] = -1] /\ held' = [held EXCEPT ![s] = Unbound]
        /\ UNCHANGED <<recorded, cursor, arena>>
    BY <1>6 DEF BindNow
  <2>2. /\ DOMAIN bound' = Slots /\ DOMAIN held' = Slots
        /\ \A x \in Slots : held'[x] = Unbound \/ (held'[x] = held[x] /\ bound'[x] = bound[x])
    BY <1>2, <2>1
  <2>3. QED
    BY <2>1, <2>2, UnboundKeepsPayloads
<1>7. ASSUME ReinitGx2
      PROVE  ArenasApart' /\ HeldIsRecorded'
  <2>1. UNCHANGED <<recorded, cursor, arena>>
    BY <1>7 DEF ReinitGx2
  <2>2. bound' = [s \in Slots |-> -1] /\ held' = [s \in Slots |-> Unbound]
    BY <1>7 DEF ReinitGx2
  <2>3. /\ DOMAIN bound' = Slots /\ DOMAIN held' = Slots
        /\ \A x \in Slots : held'[x] = Unbound \/ (held'[x] = held[x] /\ bound'[x] = bound[x])
    BY <2>2
  <2>4. QED
    BY <2>1, <2>3, UnboundKeepsPayloads
<1>8. ASSUME NEW c \in RecordingCores, NEW l \in Lists, NEW capacity \in Capacities,
             BeginList(c, l, capacity)
      PROVE  UNCHANGED <<recorded, cursor, arena, bound, held>>
  BY <1>8 DEF BeginList
<1>9. ASSUME NEW c \in RecordingCores, NEW command, RecordCommand(c, command)
      PROVE  UNCHANGED <<recorded, cursor, arena, bound, held>>
  BY <1>9 DEF RecordCommand
<1>10. UNCHANGED displayVars => UNCHANGED <<recorded, cursor, arena, bound, held>>
  BY DEF displayVars
<1>11. ArenasApart' /\ HeldIsRecorded'
  <2>1. CASE UNCHANGED displayVars
    BY <1>3, <1>10, <2>1
  <2>2. CASE DisplayNext
    <3>1. PICK c \in RecordingCores :
            \/ \E l \in Lists, capacity \in Capacities : BeginList(c, l, capacity)
            \/ \E command : RecordCommand(c, command)
            \/ EndList(c)
            \/ \E l \in Lists, n \in 1 .. 2 : CallList(c, l, n * TokenSize)
            \/ \E s \in Slots : BindNow(c, s)
            \/ ReinitGx2
      BY <2>2, Zenon DEF DisplayNext
    <3>2. CASE \E l \in Lists, capacity \in Capacities : BeginList(c, l, capacity)
      BY <1>3, <1>8, <3>2
    <3>3. CASE \E command : RecordCommand(c, command)
      <4>1. PICK command : RecordCommand(c, command)
        BY <3>3
      <4>2. QED
        BY <1>3, <1>9, <4>1
    <3>4. CASE \E l \in Lists, n \in 1 .. 2 : CallList(c, l, n * TokenSize)
      BY <1>5, <3>4
    <3>5. CASE \E s \in Slots : BindNow(c, s)
      BY <1>6, <3>5
    <3>6. QED
      BY <1>4, <1>7, <3>1, <3>2, <3>3, <3>4, <3>5
  <2>3. QED
    BY <2>1, <2>2
<1>12. QED
  BY <1>1, <1>11 DEF PayloadsInv

\* Whatever lists are recorded and replayed, nested or one in another, in whatever
\* order, and whatever the alignment and the size of the arena: what a replayed
\* command bound still holds what the command copied, until its own list is
\* recorded again (GX2EndDisplayList keeps the place of a list's data).
THEOREM PayloadsAlwaysSurvive == DisplaySpec => []PayloadsSurvive
<1>1. DisplayInit => PayloadsInv
  <2> SUFFICES ASSUME DisplayInit PROVE PayloadsInv
    OBVIOUS
  <2>1. ListsInv
    BY IdleCounts DEF DisplayInit, ListsInv, SizesCountCommands, CountsCommands
  <2>2. ArenasApart
    BY DisplayConstants DEF DisplayInit, ArenasApart
  <2>3. HeldIsRecorded
    BY DEF DisplayInit, HeldIsRecorded, Unbound
  <2>4. QED
    BY <2>1, <2>2, <2>3 DEF PayloadsInv
<1>2. PayloadsInv => PayloadsSurvive
  <2> SUFFICES ASSUME PayloadsInv, NEW s \in Slots, held[s].list # 0
               PROVE  \A a \in bound[s] .. bound[s] + held[s].size - 1 : arena[a] = held[s].content
    BY DEF PayloadsSurvive
  <2>1. PICK ref \in Binds : Holds(s, ref)
    BY DEF PayloadsInv, HeldIsRecorded
  <2>2. held[s].size = CommandAt(ref).size /\ held[s].content = CommandAt(ref).content
        /\ bound[s] = PayloadPlace(ref)
    BY <2>1 DEF Holds
  <2>3. QED
    BY <2>1, <2>2 DEF Holds, PayloadBytes
<1>3. QED
  BY <1>1, <1>2, PayloadsStep, PTL DEF DisplaySpec
=============================================================================
