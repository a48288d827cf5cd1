--------------------------- MODULE CafeHeapsProofs ---------------------------
(***************************************************************************)
(* Proofs about the heaps of CafeHeaps, for every size of heap, every      *)
(* request and every alignment: the ranges of a frame heap, the blocks of  *)
(* the expanded heap around it, and the room it finds.                     *)
(***************************************************************************)
EXTENDS CafeHeaps, SequenceTheorems, WellFoundedInduction, TLAPS

(* The inductive invariant. What was handed out lies below the head or above *)
(* the tail, which is what keeps a new range apart from all earlier ones.    *)
FrameInv ==
  /\ FrameTypeOK
  /\ handle # 0 => handle + FrameHeader <= head /\ head <= tail /\ tail <= last
  /\ handle = 0 => lent = <<>>
  /\ \A i \in DOMAIN lent :
       \/ Within(lent[i], handle + FrameHeader, head)
       \/ Within(lent[i], tail, last)
  /\ \A i, j \in DOMAIN lent : i # j => Apart(lent[i], lent[j])

-----------------------------------------------------------------------------
(* Rounding up never goes below a value, rounding down never above it or     *)
(* below zero.                                                               *)
LEMMA Rounding ==
  ASSUME NEW v \in Nat, NEW m \in Nat \ {0}
  PROVE  /\ UpTo(v, m) \in Nat /\ UpTo(v, m) >= v
         /\ DownTo(v, m) \in Nat /\ DownTo(v, m) <= v
<1>1. v % m \in 0..(m - 1) /\ (v + m - 1) % m \in 0..(m - 1)
  OBVIOUS
<1>2. v % m <= v
  OBVIOUS
<1> QED
  BY <1>1, <1>2 DEF UpTo, DownTo

(* A range between the marks is apart from all earlier ones, and the list    *)
(* it joins keeps its type.                                                  *)
LEMMA NewRangeApart ==
  ASSUME FrameInv, handle # 0,
         NEW first \in Nat, NEW size \in Nat \ {0},
         head <= first, first + size <= tail,
         lent' = Append(lent, <<first, size>>)
  PROVE  /\ lent' \in Seq(Nat \X (Nat \ {0}))
         /\ DOMAIN lent' = DOMAIN lent \cup {Len(lent) + 1}
         /\ Len(lent) + 1 \notin DOMAIN lent
         /\ \A i \in DOMAIN lent : lent'[i] = lent[i]
         /\ lent'[Len(lent) + 1] = <<first, size>>
         /\ \A i, j \in DOMAIN lent' : i # j => Apart(lent'[i], lent'[j])
<1>1. lent \in Seq(Nat \X (Nat \ {0}))
  BY DEF FrameInv, FrameTypeOK
<1>2. <<first, size>> \in Nat \X (Nat \ {0})
  OBVIOUS
<1>3. lent' \in Seq(Nat \X (Nat \ {0}))
  BY <1>1, <1>2
<1>4. /\ DOMAIN lent' = DOMAIN lent \cup {Len(lent) + 1}
      /\ Len(lent) + 1 \notin DOMAIN lent
      /\ \A i \in DOMAIN lent : lent'[i] = lent[i]
      /\ lent'[Len(lent) + 1] = <<first, size>>
  BY <1>1, <1>2
<1>5. \A i \in DOMAIN lent : Apart(lent[i], <<first, size>>) /\ Apart(<<first, size>>, lent[i])
  <2> SUFFICES ASSUME NEW i \in DOMAIN lent
               PROVE  Apart(lent[i], <<first, size>>) /\ Apart(<<first, size>>, lent[i])
    OBVIOUS
  <2>1. lent[i] \in Nat \X (Nat \ {0})
    BY <1>1
  <2>2. Within(lent[i], handle + FrameHeader, head) \/ Within(lent[i], tail, last)
    BY DEF FrameInv
  <2>3. head \in Nat /\ tail \in Nat
    BY DEF FrameInv, FrameTypeOK
  <2> QED
    BY <2>1, <2>2, <2>3 DEF Within, Apart
<1>6. \A i, j \in DOMAIN lent' : i # j => Apart(lent'[i], lent'[j])
  <2> SUFFICES ASSUME NEW i \in DOMAIN lent', NEW j \in DOMAIN lent', i # j
               PROVE  Apart(lent'[i], lent'[j])
    BY Zenon
  <2>1. \A k, l \in DOMAIN lent : k # l => Apart(lent[k], lent[l])
    BY DEF FrameInv
  <2>2. CASE i \in DOMAIN lent /\ j \in DOMAIN lent
    <3>1. Apart(lent[i], lent[j])
      BY <2>1, <2>2, Zenon
    <3> QED
      BY <1>4, <2>2, <3>1, Zenon
  <2>3. CASE i = Len(lent) + 1 /\ j \in DOMAIN lent
    BY <1>4, <1>5, <2>3, Zenon
  <2>4. CASE i \in DOMAIN lent /\ j = Len(lent) + 1
    BY <1>4, <1>5, <2>4, Zenon
  <2> QED
    BY <1>4, <2>2, <2>3, <2>4, Zenon
<1> QED
  BY <1>3, <1>4, <1>6, Zenon

(* Making a heap starts with nothing handed out. *)
LEMMA CreateFrameKeeps ==
  ASSUME FrameInv, NEW first \in Nat, NEW end \in Nat, CreateFrame(first, end)
  PROVE  FrameInv'
BY FrameConstants DEF FrameInv, FrameTypeOK, CreateFrame, Within, Apart

(* Neither way of allocating, nor destroying the heap, breaks the invariant. *)
LEMMA FrameStep ==
  ASSUME FrameInv, FrameNext
  PROVE  FrameInv'
<1>1. CASE DestroyFrame
  BY <1>1 DEF FrameInv, FrameTypeOK, DestroyFrame
<1>2. ASSUME NEW size \in FrameSizes, NEW m \in FrameAlignments, AllocateHead(size, m)
      PROVE  FrameInv'
  <2> DEFINE first == UpTo(head, m)
  <2>1. size \in Nat \ {0} /\ m \in Nat \ {0} /\ head \in Nat
    BY <1>2, FrameConstants DEF FrameInv, FrameTypeOK, AllocateHead
  <2>2. first \in Nat /\ first >= head
    BY <2>1, Rounding
  <2>3. first + size <= tail /\ handle # 0
    BY <1>2 DEF AllocateHead
  <2>5. head' = first + size /\ UNCHANGED <<handle, last, tail>>
        /\ lent' = Append(lent, <<first, size>>)
    BY <1>2 DEF AllocateHead
  <2> HIDE DEF first
  <2>4. /\ lent' \in Seq(Nat \X (Nat \ {0}))
        /\ DOMAIN lent' = DOMAIN lent \cup {Len(lent) + 1}
        /\ \A i \in DOMAIN lent : lent'[i] = lent[i]
        /\ lent'[Len(lent) + 1] = <<first, size>>
        /\ \A i, j \in DOMAIN lent' : i # j => Apart(lent'[i], lent'[j])
    BY <2>1, <2>2, <2>3, <2>5, NewRangeApart
  <2>a. handle \in Nat /\ last \in Nat /\ tail \in Nat
        /\ (\A i \in DOMAIN lent : lent[i] \in Nat \X (Nat \ {0}))
    BY DEF FrameInv, FrameTypeOK
  <2>6. \A i \in DOMAIN lent' :
          Within(lent'[i], handle' + FrameHeader, head') \/ Within(lent'[i], tail', last')
    <3>1. \A i \in DOMAIN lent :
            Within(lent[i], handle + FrameHeader, head') \/ Within(lent[i], tail, last)
      BY <2>a, <2>1, <2>2, <2>5, FrameConstants DEF FrameInv, Within
    <3>2. Within(<<first, size>>, handle + FrameHeader, head')
      BY <2>a, <2>1, <2>2, <2>3, <2>5, FrameConstants DEF FrameInv, Within
    <3> QED
      BY <2>4, <2>5, <3>1, <3>2
  <2>7. FrameTypeOK'
    BY <2>1, <2>2, <2>4, <2>5 DEF FrameInv, FrameTypeOK
  <2>8. handle' + FrameHeader <= head' /\ head' <= tail' /\ tail' <= last' /\ handle' # 0
    BY <2>1, <2>2, <2>3, <2>5, FrameConstants DEF FrameInv, FrameTypeOK
  <2> QED
    BY <2>4, <2>6, <2>7, <2>8 DEF FrameInv
<1>3. ASSUME NEW size \in FrameSizes, NEW m \in FrameAlignments, AllocateTail(size, m)
      PROVE  FrameInv'
  <2> DEFINE first == DownTo(tail - size, m)
  <2>1. /\ size \in Nat \ {0} /\ m \in Nat \ {0} /\ head \in Nat /\ tail \in Nat
        /\ tail - size \in Nat
    BY <1>3, FrameConstants DEF FrameInv, FrameTypeOK, AllocateTail
  <2>2. first \in Nat /\ first <= tail - size
    BY <2>1, Rounding
  <2>3. first >= head /\ handle # 0
    BY <1>3 DEF AllocateTail
  <2>4. tail' = first /\ UNCHANGED <<handle, last, head>>
        /\ lent' = Append(lent, <<first, size>>)
    BY <1>3 DEF AllocateTail
  <2> HIDE DEF first
  <2>5. /\ lent' \in Seq(Nat \X (Nat \ {0}))
        /\ DOMAIN lent' = DOMAIN lent \cup {Len(lent) + 1}
        /\ \A i \in DOMAIN lent : lent'[i] = lent[i]
        /\ lent'[Len(lent) + 1] = <<first, size>>
        /\ \A i, j \in DOMAIN lent' : i # j => Apart(lent'[i], lent'[j])
    <3>1. first + size <= tail /\ head <= first
      BY <2>1, <2>2, <2>3
    <3> QED
      BY <2>1, <2>2, <2>3, <2>4, <3>1, NewRangeApart
  <2>a. handle \in Nat /\ last \in Nat
        /\ (\A i \in DOMAIN lent : lent[i] \in Nat \X (Nat \ {0}))
    BY DEF FrameInv, FrameTypeOK
  <2>6. \A i \in DOMAIN lent' :
          Within(lent'[i], handle' + FrameHeader, head') \/ Within(lent'[i], tail', last')
    <3>1. \A i \in DOMAIN lent :
            Within(lent[i], handle + FrameHeader, head) \/ Within(lent[i], tail', last)
      BY <2>a, <2>1, <2>2, <2>4, FrameConstants DEF FrameInv, Within
    <3>2. Within(<<first, size>>, tail', last)
      BY <2>a, <2>1, <2>2, <2>3, <2>4, FrameConstants DEF FrameInv, Within
    <3> QED
      BY <2>4, <2>5, <3>1, <3>2
  <2>7. FrameTypeOK'
    BY <2>1, <2>2, <2>4, <2>5 DEF FrameInv, FrameTypeOK
  <2>8. handle' + FrameHeader <= head' /\ head' <= tail' /\ tail' <= last' /\ handle' # 0
    BY <2>1, <2>2, <2>3, <2>4, FrameConstants DEF FrameInv, FrameTypeOK
  <2> QED
    BY <2>5, <2>6, <2>7, <2>8 DEF FrameInv
<1> QED
  BY <1>1, <1>2, <1>3 DEF FrameNext

-----------------------------------------------------------------------------
(* Types of the surrounding heap, which say that a frame heap is made over   *)
(* a range of grains.                                                        *)

(* A rounded address is an address. *)
LEMMA HeapRounding ==
  ASSUME NEW v \in Nat, NEW m \in Nat \ {0}
  PROVE  /\ AlignUp(v, m) \in Nat /\ AlignUp(v, m) >= v
         /\ AlignDown(v, m) \in Nat /\ AlignDown(v, m) <= v
<1>1. v % m \in 0..(m - 1) /\ (v + m - 1) % m \in 0..(m - 1)
  OBVIOUS
<1>2. v % m <= v
  OBVIOUS
<1> QED
  BY <1>1, <1>2 DEF AlignUp, AlignDown

(* What is left of a block on either side of an allocation is a list of free *)
(* blocks.                                                                   *)
LEMMA PieceType ==
  ASSUME NEW first \in Nat, NEW end \in Nat
  PROVE  Piece(first, end) \in Seq(FreeBlocks)
<1>1. CASE first < end
  <2>1. [address |-> first, size |-> end - first] \in FreeBlocks
    BY <1>1 DEF FreeBlocks
  <2> QED
    BY <1>1, <2>1 DEF Piece
<1>2. CASE ~(first < end)
  BY <1>2 DEF Piece
<1> QED
  BY <1>1, <1>2

(* Joining two blocks of a list leaves a list of free blocks. *)
LEMMA JoinType ==
  ASSUME NEW blocks \in Seq(FreeBlocks), NEW i \in Int
  PROVE  Join(blocks, i) \in Seq(FreeBlocks)
<1>1. CASE i \in 1..(Len(blocks) - 1) /\ BlockEnd(blocks[i]) = blocks[i + 1].address
  <2>1. blocks[i] \in FreeBlocks /\ blocks[i + 1] \in FreeBlocks
    BY <1>1
  <2>a. \A b \in FreeBlocks : b.address \in Nat /\ b.size \in Nat \ {0}
    BY DEF FreeBlocks
  <2>b. blocks[i].address \in Nat /\ blocks[i].size \in Nat \ {0} /\ blocks[i + 1].size \in Nat \ {0}
    BY <2>1, <2>a
  <2>2. [address |-> blocks[i].address, size |-> blocks[i].size + blocks[i + 1].size] \in FreeBlocks
    <3>1. \A x \in Nat, y \in Nat \ {0} : [address |-> x, size |-> y] \in FreeBlocks
      BY DEF FreeBlocks
    <3>2. blocks[i].size + blocks[i + 1].size \in Nat \ {0}
      BY <2>b
    <3> QED
      BY <2>b, <3>1, <3>2, Zenon
  <2>3. SubSeq(blocks, 1, i - 1) \in Seq(FreeBlocks)
    BY <1>1, SubSeqProperties
  <2>4. SubSeq(blocks, i + 2, Len(blocks)) \in Seq(FreeBlocks)
    BY <1>1, SubSeqProperties
  <2> QED
    BY <1>1, <2>2, <2>3, <2>4, ConcatProperties DEF Join
<1>2. CASE ~(i \in 1..(Len(blocks) - 1) /\ BlockEnd(blocks[i]) = blocks[i + 1].address)
  BY <1>2 DEF Join
<1> QED
  BY <1>1, <1>2

(* Carving a block keeps the types of both tables. *)
LEMMA CarveTypes ==
  ASSUME HeapTypeOK, NEW i \in DOMAIN free, NEW n \in Nat \ {0}, NEW result \in Nat,
         NEW fromEnd \in BOOLEAN, UNCHANGED mirrored,
         free[i].address + Header <= result, result + n <= BlockEnd(free[i]),
         Carve(i, n, result, fromEnd)
  PROVE  HeapTypeOK'
<1> DEFINE b == free[i]
           first == RawStart(b, result - Header)
           end == RawEnd(b, result + n)
<1>1. /\ free \in Seq(FreeBlocks) /\ i \in 1..Len(free) /\ b \in FreeBlocks
      /\ Header \in Nat /\ MinimumSplit \in Nat \ {0}
  BY HeapConstants DEF HeapTypeOK, Header, MinimumSplit
<1>2. b.address \in Nat /\ BlockEnd(b) \in Nat /\ b.size \in Nat \ {0}
  BY <1>1 DEF FreeBlocks, BlockEnd
<1>3. first \in Nat /\ first <= result
  BY ONLY <1>1, <1>2, result \in Nat, b.address + Header <= result DEF RawStart
<1>4. end \in Nat /\ result + n <= end
  BY <1>1, <1>2 DEF RawEnd
<1> HIDE DEF first, end, b
<1>5. /\ SubSeq(free, 1, i - 1) \in Seq(FreeBlocks)
      /\ SubSeq(free, i + 1, Len(free)) \in Seq(FreeBlocks)
  BY <1>1, SubSeqProperties
<1>6. /\ Piece(b.address, first) \in Seq(FreeBlocks)
      /\ Piece(end, BlockEnd(b)) \in Seq(FreeBlocks)
  BY <1>2, <1>3, <1>4, PieceType
<1>7. free' = SubSeq(free, 1, i - 1) \o Piece(b.address, first)
                \o Piece(end, BlockEnd(b)) \o SubSeq(free, i + 1, Len(free))
  BY DEF Carve, first, end, b
<1>8. free' \in Seq(FreeBlocks)
  BY <1>5, <1>6, <1>7, ConcatProperties
<1>9. allocated' = [r \in DOMAIN allocated \cup {result} |->
                     IF r = result
                     THEN [raw |-> first, rawSize |-> end - first,
                           size |-> end - result, fromEnd |-> fromEnd]
                     ELSE allocated[r]]
  BY DEF Carve, first, end, b
<1>10. [raw |-> first, rawSize |-> end - first,
        size |-> end - result, fromEnd |-> fromEnd] \in Allocations
  BY <1>3, <1>4 DEF Allocations
<1> QED
  BY <1>8, <1>9, <1>10 DEF HeapTypeOK

(* Either kind of heap has room for a block. *)
LEMMA HeapHasRoom ==
  \A m \in BOOLEAN : End[m] - Start \in Nat \ {0}
<1>1. End[TRUE] - Start \in Nat \ {0} /\ End[FALSE] - Start \in Nat \ {0}
  <2>1. \A e, s \in Nat : e > s => e - s \in Nat \ {0}
    OBVIOUS
  <2>2. \A e, s, b \in Nat : e > s + b => e > s
    OBVIOUS
  <2>3. End[TRUE] \in Nat /\ End[FALSE] \in Nat /\ Start \in Nat /\ BlockSize \in Nat
    BY HeapConstants, Zenon
  <2> QED
    BY <2>1, <2>2, <2>3, HeapConstants, Zenon
<1> QED
  BY <1>1, Zenon

(* An allocation is carved from a free block it fits in. *)
LEMMA AllocationCarves ==
  ASSUME HeapTypeOK, NEW size \in Sizes, NEW alignment \in Alignments, Allocate(size, alignment)
  PROVE  \E i \in DOMAIN free, n \in Nat \ {0}, result \in Nat, fromEnd \in BOOLEAN :
           /\ free[i].address + Header <= result /\ result + n <= BlockEnd(free[i])
           /\ Carve(i, n, result, fromEnd) /\ UNCHANGED mirrored
<1> DEFINE n == RoundedSize(size)
           m == Magnitude(alignment)
<1>1. n \in Nat \ {0} /\ m \in Nat \ {0} /\ UNCHANGED mirrored
  BY HeapConstants DEF Allocate, RoundedSize, Magnitude
<1>2. PICK i \in DOMAIN free :
        /\ IsChosen(i, n, alignment)
        /\ IF alignment > 0
           THEN Carve(i, n, FirstResult(free[i], m), FALSE)
           ELSE Carve(i, n, LastResult(free[i], n, m), TRUE)
  BY DEF Allocate
<1>3. Fits(free[i], n, alignment)
  BY <1>2 DEF IsChosen, Fitting
<1> HIDE DEF n
<1>4. free[i] \in FreeBlocks /\ Header \in Nat
  BY HeapConstants DEF HeapTypeOK, Header
<1>5. free[i].address \in Nat /\ free[i].size \in Nat \ {0} /\ BlockEnd(free[i]) \in Nat
  BY <1>4 DEF FreeBlocks, BlockEnd
<1>6. CASE alignment > 0
  <2>1. FirstResult(free[i], m) \in Nat /\ FirstResult(free[i], m) >= free[i].address + Header
    BY <1>1, <1>4, <1>5, HeapRounding DEF FirstResult
  <2>2. FirstResult(free[i], m) + n <= BlockEnd(free[i])
    BY <1>3, <1>6 DEF Fits
  <2> QED
    BY <1>1, <1>2, <1>6, <2>1, <2>2
<1>7. CASE ~(alignment > 0)
  <2>1. n <= free[i].size - Header /\ LastResult(free[i], n, m) >= free[i].address + Header
    BY <1>3, <1>7 DEF Fits
  <2>2. BlockEnd(free[i]) - n \in Nat
    BY <1>1, <1>4, <1>5, <2>1 DEF BlockEnd
  <2>3. LastResult(free[i], n, m) \in Nat /\ LastResult(free[i], n, m) <= BlockEnd(free[i]) - n
    BY <1>1, <2>2, HeapRounding DEF LastResult
  <2>4. LastResult(free[i], n, m) + n <= BlockEnd(free[i])
    BY <1>1, <1>5, <2>3
  <2> QED
    BY <1>1, <1>2, <1>7, <2>1, <2>3, <2>4
<1> QED
  BY <1>6, <1>7

(* Every operation of the expanded heap keeps its types. *)
LEMMA HeapTypesKept ==
  ASSUME HeapTypeOK, HeapNext
  PROVE  HeapTypeOK'
<1>1. ASSUME NEW size \in Sizes, NEW alignment \in Alignments, Allocate(size, alignment)
      PROVE  HeapTypeOK'
  BY <1>1, AllocationCarves, CarveTypes
<1>2. ASSUME NEW address \in DOMAIN allocated, Free(address)
      PROVE  HeapTypeOK'
  <2> DEFINE b == Released(address)
  <2>1. b \in FreeBlocks
    BY DEF HeapTypeOK, Allocations, FreeBlocks, Released
  <2>2. PICK i \in 1..(Len(free) + 1) :
          LET inserted == SubSeq(free, 1, i - 1) \o <<b>> \o SubSeq(free, i, Len(free))
              joined == Join(inserted, i - 1)
          IN  free' = Join(joined, IF joined = inserted THEN i ELSE i - 1)
    BY <1>2 DEF Free
  <2> HIDE DEF b
  <2> DEFINE inserted == SubSeq(free, 1, i - 1) \o <<b>> \o SubSeq(free, i, Len(free))
             joined == Join(inserted, i - 1)
  <2>3. free \in Seq(FreeBlocks) /\ Len(free) \in Nat /\ i \in Int
    BY DEF HeapTypeOK
  <2>4. /\ SubSeq(free, 1, i - 1) \in Seq(FreeBlocks)
        /\ SubSeq(free, i, Len(free)) \in Seq(FreeBlocks)
    BY <2>3, SubSeqProperties
  <2>5. inserted \in Seq(FreeBlocks)
    BY <2>1, <2>4, ConcatProperties
  <2> HIDE DEF inserted
  <2>6. joined \in Seq(FreeBlocks)
    BY <2>3, <2>5, JoinType
  <2>7. free' = Join(joined, IF joined = inserted THEN i ELSE i - 1)
    BY <2>2 DEF inserted
  <2> HIDE DEF joined
  <2>8. free' \in Seq(FreeBlocks)
    <3>1. \A k \in Int : Join(joined, k) \in Seq(FreeBlocks)
      BY <2>6, JoinType
    <3>2. i - 1 \in Int /\ i \in Int
      BY <2>3
    <3> QED
      BY <2>7, <3>1, <3>2
  <2>9. allocated' = [r \in DOMAIN allocated \ {address} |-> allocated[r]] /\ UNCHANGED mirrored
    BY <1>2 DEF Free
  <2> QED
    BY <2>8, <2>9 DEF HeapTypeOK
<1>3. CASE Recreate
  <2>1. End[mirrored] - Start \in Nat \ {0}
    BY HeapHasRoom DEF HeapTypeOK
  <2>2. [address |-> Start, size |-> End[mirrored] - Start] \in FreeBlocks
    BY <2>1, HeapConstants DEF FreeBlocks
  <2> QED
    BY <1>3, <2>2 DEF HeapTypeOK, Recreate
<1> QED
  BY <1>1, <1>2, <1>3 DEF HeapNext

-----------------------------------------------------------------------------
(* Lists of free blocks.                                                     *)

(* The blocks of s lie between lo and hi in ascending order, each with room  *)
(* for its header, and only those at a place of T may touch the next one.    *)
Spaced(s, lo, hi, T) ==
  /\ s \in Seq(FreeBlocks)
  /\ \A k \in DOMAIN s : /\ s[k].size > Header
                         /\ lo <= s[k].address /\ BlockEnd(s[k]) <= hi
  /\ \A k, l \in DOMAIN s : k < l =>
       \/ BlockEnd(s[k]) < s[l].address
       \/ BlockEnd(s[k]) = s[l].address /\ l = k + 1 /\ k \in T

(* Grain g is in block b; in some block of s.                                *)
Inside(b, g) == b.address <= g /\ g < BlockEnd(b)
Covers(s, g) == \E k \in DOMAIN s : Inside(s[k], g)

(* What a list of free blocks holds. *)
LEMMA BlockTypes ==
  ASSUME NEW s \in Seq(FreeBlocks)
  PROVE  /\ Len(s) \in Nat /\ DOMAIN s = 1..Len(s)
         /\ \A k \in DOMAIN s : /\ s[k] \in FreeBlocks /\ s[k].address \in Nat
                                /\ s[k].size \in Nat \ {0} /\ BlockEnd(s[k]) \in Nat
                                /\ BlockEnd(s[k]) = s[k].address + s[k].size
<1>1. Len(s) \in Nat /\ DOMAIN s = 1..Len(s)
  OBVIOUS
<1>2. ASSUME NEW k \in DOMAIN s
      PROVE  /\ s[k] \in FreeBlocks /\ s[k].address \in Nat
             /\ s[k].size \in Nat \ {0} /\ BlockEnd(s[k]) \in Nat
             /\ BlockEnd(s[k]) = s[k].address + s[k].size
  <2>1. s[k] \in FreeBlocks
    BY <1>1, <1>2
  <2>2. s[k].address \in Nat /\ s[k].size \in Nat \ {0}
    BY <2>1 DEF FreeBlocks
  <2>3. QED
    BY <2>1, <2>2 DEF BlockEnd
<1>3. QED
  BY <1>1, <1>2

(* The size of a header. *)
LEMMA HeaderType ==
  ASSUME mirrored \in BOOLEAN
  PROVE  Header \in Nat /\ MinimumSplit = Header + 1
BY HeapConstants DEF Header, MinimumSplit

(* Two lists with a gap between them make one. *)
LEMMA SpacedConcat ==
  ASSUME mirrored \in BOOLEAN, NEW s, NEW t, NEW lo \in Int, NEW mid \in Int, NEW next \in Int,
         NEW hi \in Int, Spaced(s, lo, mid, {}), Spaced(t, next, hi, {}),
         lo <= next, mid <= hi, mid < next
  PROVE  /\ Spaced(s \o t, lo, hi, {})
         /\ \A g \in Int : Covers(s \o t, g) <=> Covers(s, g) \/ Covers(t, g)
<1> DEFINE u == s \o t
<1>1. s \in Seq(FreeBlocks) /\ t \in Seq(FreeBlocks)
  BY DEF Spaced
<1>2. /\ u \in Seq(FreeBlocks) /\ Len(u) = Len(s) + Len(t)
      /\ \A i \in 1..(Len(s) + Len(t)) : u[i] = IF i <= Len(s) THEN s[i] ELSE t[i - Len(s)]
  BY <1>1, ConcatProperties
<1> HIDE DEF u
<1>3. /\ Len(s) \in Nat /\ DOMAIN s = 1..Len(s) /\ Len(t) \in Nat /\ DOMAIN t = 1..Len(t)
      /\ DOMAIN u = 1..(Len(s) + Len(t))
      /\ \A k \in DOMAIN s : s[k].address \in Nat /\ s[k].size \in Nat /\ BlockEnd(s[k]) \in Nat
      /\ \A k \in DOMAIN t : t[k].address \in Nat /\ t[k].size \in Nat /\ BlockEnd(t[k]) \in Nat
  BY <1>1, <1>2, BlockTypes
<1>4. Header \in Nat
  BY HeaderType
<1>5. /\ \A k \in DOMAIN s : s[k].size > Header /\ lo <= s[k].address /\ BlockEnd(s[k]) <= mid
      /\ \A k \in DOMAIN t : t[k].size > Header /\ next <= t[k].address /\ BlockEnd(t[k]) <= hi
      /\ \A k, l \in DOMAIN s : k < l => BlockEnd(s[k]) < s[l].address
      /\ \A k, l \in DOMAIN t : k < l => BlockEnd(t[k]) < t[l].address
  BY DEF Spaced
<1>6. \A k \in DOMAIN u : \/ k \in DOMAIN s /\ u[k] = s[k]
                          \/ k > Len(s) /\ k - Len(s) \in DOMAIN t /\ u[k] = t[k - Len(s)]
  BY <1>2, <1>3
<1>7. ASSUME NEW k \in DOMAIN u
      PROVE  u[k].size > Header /\ lo <= u[k].address /\ BlockEnd(u[k]) <= hi
  <2>1. CASE k \in DOMAIN s /\ u[k] = s[k]
    <3>1. s[k].size > Header /\ lo <= s[k].address /\ BlockEnd(s[k]) <= mid /\ BlockEnd(s[k]) \in Nat
      BY <1>3, <1>5, <2>1
    <3>2. BlockEnd(s[k]) <= hi
      BY ONLY <3>1, mid <= hi, mid \in Int, hi \in Int
    <3>3. QED
      BY ONLY <2>1, <3>1, <3>2
  <2>2. CASE k > Len(s) /\ k - Len(s) \in DOMAIN t /\ u[k] = t[k - Len(s)]
    <3> DEFINE l == k - Len(s)
    <3>1. /\ t[l].size > Header /\ next <= t[l].address /\ BlockEnd(t[l]) <= hi
          /\ t[l].address \in Nat /\ u[k] = t[l]
      BY <1>3, <1>5, <2>2
    <3> HIDE DEF l
    <3>2. lo <= t[l].address
      BY ONLY <3>1, lo <= next, lo \in Int, next \in Int
    <3>3. QED
      BY ONLY <3>1, <3>2
  <2>3. QED
    BY <1>6, <2>1, <2>2
<1>8. ASSUME NEW k \in DOMAIN u, NEW l \in DOMAIN u, k < l
      PROVE  BlockEnd(u[k]) < u[l].address
  <2>1. k \in Nat /\ l \in Nat
    BY <1>3
  <2>2. CASE k \in DOMAIN s /\ u[k] = s[k]
    BY <1>3, <1>5, <1>6, <1>8, <2>1, <2>2
  <2>3. CASE k > Len(s) /\ k - Len(s) \in DOMAIN t /\ u[k] = t[k - Len(s)]
    <3>1. l - Len(s) \in DOMAIN t /\ u[l] = t[l - Len(s)] /\ k - Len(s) < l - Len(s)
      BY <1>3, <1>6, <1>8, <2>1, <2>3
    <3>2. QED
      BY <1>5, <2>3, <3>1
  <2>4. QED
    BY <1>6, <2>2, <2>3
<1>9. Spaced(u, lo, hi, {})
  BY <1>2, <1>7, <1>8 DEF Spaced
<1>10. ASSUME NEW g \in Int PROVE Covers(u, g) <=> Covers(s, g) \/ Covers(t, g)
  <2>1. Covers(u, g) => Covers(s, g) \/ Covers(t, g)
    BY <1>6 DEF Covers
  <2>2. ASSUME NEW k \in DOMAIN s, Inside(s[k], g) PROVE Covers(u, g)
    <3>1. k \in DOMAIN u /\ u[k] = s[k]
      BY <1>2, <1>3
    <3>2. QED
      BY <2>2, <3>1 DEF Covers
  <2>3. ASSUME NEW k \in DOMAIN t, Inside(t[k], g) PROVE Covers(u, g)
    <3>1. k + Len(s) \in DOMAIN u /\ u[k + Len(s)] = t[k]
      BY <1>2, <1>3
    <3>2. QED
      BY <2>3, <3>1 DEF Covers
  <2>4. QED
    BY <2>1, <2>2, <2>3 DEF Covers
<1>11. QED
  BY <1>9, <1>10 DEF u

(* The blocks before and after block i. *)
LEMMA SpacedParts ==
  ASSUME mirrored \in BOOLEAN, NEW s, NEW lo \in Int, NEW hi \in Int, Spaced(s, lo, hi, {}),
         NEW i \in DOMAIN s
  PROVE  /\ Spaced(SubSeq(s, 1, i - 1), lo, s[i].address - 1, {})
         /\ Spaced(SubSeq(s, i + 1, Len(s)), BlockEnd(s[i]) + 1, hi, {})
         /\ \A g \in Int : Covers(s, g) <=> \/ Covers(SubSeq(s, 1, i - 1), g)
                                            \/ Inside(s[i], g)
                                            \/ Covers(SubSeq(s, i + 1, Len(s)), g)
<1> DEFINE a == SubSeq(s, 1, i - 1)
           b == SubSeq(s, i + 1, Len(s))
<1>1. /\ s \in Seq(FreeBlocks) /\ Len(s) \in Nat /\ DOMAIN s = 1..Len(s)
      /\ \A k \in DOMAIN s : s[k] \in FreeBlocks /\ s[k].address \in Nat /\ BlockEnd(s[k]) \in Nat
  BY BlockTypes DEF Spaced
<1>2. /\ a \in Seq(FreeBlocks) /\ DOMAIN a = 1..(i - 1)
      /\ \A k \in 1..(i - 1) : a[k] = s[k]
  <2>1. \A k \in 1..(i - 1) : s[k] \in FreeBlocks
    BY <1>1
  <2>2. /\ a \in Seq(FreeBlocks) /\ Len(a) = IF 1 <= i - 1 THEN (i - 1) - 1 + 1 ELSE 0
        /\ \A k \in 1..((i - 1) - 1 + 1) : a[k] = s[1 + k - 1]
    BY <1>1, <2>1, SubSeqProperties
  <2> HIDE DEF a
  <2>3. DOMAIN a = 1..Len(a)
    BY <2>2
  <2>4. Len(a) = i - 1
    BY <1>1, <2>2
  <2>5. QED
    BY <1>1, <2>2, <2>3, <2>4
<1>3. /\ b \in Seq(FreeBlocks) /\ DOMAIN b = 1..(Len(s) - i)
      /\ \A k \in 1..(Len(s) - i) : b[k] = s[k + i]
  <2>1. \A k \in (i + 1)..Len(s) : s[k] \in FreeBlocks
    BY <1>1
  <2>2. /\ b \in Seq(FreeBlocks)
        /\ Len(b) = IF i + 1 <= Len(s) THEN Len(s) - (i + 1) + 1 ELSE 0
        /\ \A k \in 1..(Len(s) - (i + 1) + 1) : b[k] = s[(i + 1) + k - 1]
    <3>1. i + 1 \in Int /\ Len(s) \in Int
      BY <1>1
    <3>2. QED
      BY ONLY <2>1, <3>1, SubSeqProperties, SMTT(30)
  <2> HIDE DEF b
  <2>3. DOMAIN b = 1..Len(b)
    BY <2>2
  <2>4. Len(b) = Len(s) - i
    <3>1. i \in 1..Len(s) /\ Len(s) \in Nat
      BY <1>1
    <3>2. QED
      BY ONLY <2>2, <3>1
  <2>5. ASSUME NEW k \in 1..(Len(s) - i) PROVE b[k] = s[k + i]
    <3>1. k \in 1..(Len(s) - (i + 1) + 1) /\ (i + 1) + k - 1 = k + i
      BY <1>1
    <3>2. b[k] = s[(i + 1) + k - 1]
      BY <2>2, <3>1
    <3>3. QED
      BY <3>1, <3>2
  <2>6. QED
    BY <2>2, <2>3, <2>4, <2>5
<1> HIDE DEF a, b
<1>4. /\ \A k \in DOMAIN s : s[k].size > Header /\ lo <= s[k].address /\ BlockEnd(s[k]) <= hi
      /\ \A k, l \in DOMAIN s : k < l => BlockEnd(s[k]) < s[l].address
  BY DEF Spaced
<1>5. \A k \in DOMAIN a : k \in DOMAIN s /\ k < i /\ a[k] = s[k]
  BY <1>1, <1>2
<1>6. \A k \in DOMAIN b : k + i \in DOMAIN s /\ i < k + i /\ b[k] = s[k + i]
  BY <1>1, <1>3
<1>7. Spaced(a, lo, s[i].address - 1, {})
  <2>1. ASSUME NEW k \in DOMAIN a
        PROVE  a[k].size > Header /\ lo <= a[k].address /\ BlockEnd(a[k]) <= s[i].address - 1
    <3>1. BlockEnd(s[k]) < s[i].address /\ BlockEnd(s[k]) \in Nat /\ s[i].address \in Nat
      BY <1>1, <1>4, <1>5
    <3>2. QED
      BY <1>4, <1>5, <3>1
  <2>2. \A k, l \in DOMAIN a : k < l => BlockEnd(a[k]) < a[l].address
    BY <1>4, <1>5
  <2>3. QED
    BY <1>2, <2>1, <2>2 DEF Spaced
<1>8. Spaced(b, BlockEnd(s[i]) + 1, hi, {})
  <2>1. ASSUME NEW k \in DOMAIN b
        PROVE  b[k].size > Header /\ BlockEnd(s[i]) + 1 <= b[k].address /\ BlockEnd(b[k]) <= hi
    <3>1. BlockEnd(s[i]) < s[k + i].address /\ BlockEnd(s[i]) \in Nat /\ s[k + i].address \in Nat
      BY <1>1, <1>4, <1>6
    <3>2. QED
      BY <1>4, <1>6, <3>1
  <2>2. ASSUME NEW k \in DOMAIN b, NEW l \in DOMAIN b, k < l
        PROVE  BlockEnd(b[k]) < b[l].address
    <3>1. k + i \in DOMAIN s /\ l + i \in DOMAIN s /\ k + i < l + i
      BY <1>1, <1>3, <1>6, <2>2
    <3>2. QED
      BY <1>4, <1>6, <3>1
  <2>3. QED
    BY <1>3, <2>1, <2>2 DEF Spaced
<1>9. ASSUME NEW g \in Int
      PROVE  Covers(s, g) <=> Covers(a, g) \/ Inside(s[i], g) \/ Covers(b, g)
  <2>1. Covers(a, g) \/ Inside(s[i], g) \/ Covers(b, g) => Covers(s, g)
    BY <1>5, <1>6 DEF Covers
  <2>2. ASSUME NEW k \in DOMAIN s, Inside(s[k], g)
        PROVE  Covers(a, g) \/ Inside(s[i], g) \/ Covers(b, g)
    <3>1. CASE k < i
      <4>1. k \in DOMAIN a /\ a[k] = s[k]
        BY <1>1, <1>2, <3>1
      <4>2. QED
        BY <2>2, <4>1 DEF Covers
    <3>2. CASE k = i
      BY <2>2, <3>2
    <3>3. CASE k > i
      <4>1. k - i \in DOMAIN b /\ b[k - i] = s[k]
        <5>1. k - i \in 1..(Len(s) - i) /\ (k - i) + i = k
          BY <1>1, <3>3
        <5>2. QED
          BY <1>3, <5>1
      <4>2. QED
        BY <2>2, <4>1 DEF Covers
    <3>4. QED
      BY <1>1, <3>1, <3>2, <3>3
  <2>3. QED
    BY <2>1, <2>2 DEF Covers
<1>10. QED
  BY <1>7, <1>8, <1>9 DEF a, b

(* A piece of a block: nothing, or room for more than a header.              *)
LEMMA SpacedPiece ==
  ASSUME mirrored \in BOOLEAN, NEW first \in Nat, NEW end \in Nat,
         first = end \/ end - first > Header
  PROVE  /\ Spaced(Piece(first, end), first, end, {})
         /\ \A g \in Int : Covers(Piece(first, end), g) <=> first <= g /\ g < end
<1>0. Header \in Nat
  BY HeaderType
<1>1. CASE first = end
  <2>1. Piece(first, end) = <<>>
    BY <1>1 DEF Piece
  <2>2. QED
    BY <1>1, <2>1 DEF Spaced, Covers
<1>2. CASE end - first > Header
  <2> DEFINE b == [address |-> first, size |-> end - first]
  <2>1. Piece(first, end) = <<b>> /\ b \in FreeBlocks
    BY <1>0, <1>2 DEF Piece, FreeBlocks
  <2>2. b.address = first /\ b.size = end - first /\ BlockEnd(b) = end
    BY DEF BlockEnd
  <2> HIDE DEF b
  <2>3. DOMAIN <<b>> = {1} /\ <<b>>[1] = b /\ <<b>> \in Seq(FreeBlocks)
    BY <2>1
  <2>4. Spaced(<<b>>, first, end, {})
    BY <1>2, <2>2, <2>3 DEF Spaced
  <2>5. \A g \in Int : Covers(<<b>>, g) <=> Inside(b, g)
    BY <2>3 DEF Covers
  <2>6. QED
    BY <2>1, <2>2, <2>4, <2>5 DEF Inside
<1>3. QED
  BY <1>1, <1>2

(* Joining blocks i and i + 1: no grain changes hands, and they touch no     *)
(* more; later places move down by one where two blocks became one.          *)
LEMMA SpacedJoin ==
  ASSUME mirrored \in BOOLEAN, NEW s, NEW lo \in Int, NEW hi \in Int, NEW T \in SUBSET Int,
         Spaced(s, lo, hi, T), NEW i \in Int
  PROVE  /\ \/ Join(s, i) = s /\ Spaced(s, lo, hi, T \ {i})
            \/ /\ Join(s, i) # s
               /\ Spaced(Join(s, i), lo, hi, {k \in T : k < i} \cup {k - 1 : k \in {l \in T : l > i}})
         /\ \A g \in Int : Covers(Join(s, i), g) <=> Covers(s, g)
<1>1. /\ s \in Seq(FreeBlocks) /\ Len(s) \in Nat /\ DOMAIN s = 1..Len(s)
      /\ \A k \in DOMAIN s : /\ s[k] \in FreeBlocks /\ s[k].address \in Nat
                             /\ s[k].size \in Nat \ {0} /\ BlockEnd(s[k]) \in Nat
                             /\ BlockEnd(s[k]) = s[k].address + s[k].size
  BY BlockTypes DEF Spaced
<1>2. /\ \A k \in DOMAIN s : s[k].size > Header /\ lo <= s[k].address /\ BlockEnd(s[k]) <= hi
      /\ \A k, l \in DOMAIN s : k < l =>
           \/ BlockEnd(s[k]) < s[l].address
           \/ BlockEnd(s[k]) = s[l].address /\ l = k + 1 /\ k \in T
  BY DEF Spaced
<1>3. CASE ~(i \in 1..(Len(s) - 1) /\ BlockEnd(s[i]) = s[i + 1].address)
  <2>1. Join(s, i) = s
    BY <1>3 DEF Join
  <2>2. \A k, l \in DOMAIN s : k < l =>
           \/ BlockEnd(s[k]) < s[l].address
           \/ BlockEnd(s[k]) = s[l].address /\ l = k + 1 /\ k \in T \ {i}
    BY <1>1, <1>2, <1>3
  <2>3. Spaced(s, lo, hi, T \ {i})
    BY <1>1, <1>2, <2>2 DEF Spaced
  <2>4. QED
    BY <2>1, <2>3
<1>4. CASE i \in 1..(Len(s) - 1) /\ BlockEnd(s[i]) = s[i + 1].address
  <2> DEFINE b == [address |-> s[i].address, size |-> s[i].size + s[i + 1].size]
             first == SubSeq(s, 1, i - 1)
             rest == SubSeq(s, i + 2, Len(s))
             joined == first \o <<b>> \o rest
             left == {k \in T : k < i} \cup {k - 1 : k \in {l \in T : l > i}}
  <2>1. Join(s, i) = joined
    BY <1>4 DEF Join
  <2>2. i \in DOMAIN s /\ i + 1 \in DOMAIN s
    BY <1>1, <1>4
  <2>3. b \in FreeBlocks /\ b.address = s[i].address /\ b.size = s[i].size + s[i + 1].size
    <3> DEFINE a == s[i].address
               n == s[i].size + s[i + 1].size
    <3>1. a \in Nat /\ n \in Nat \ {0}
      BY <1>1, <2>2
    <3> HIDE DEF a, n
    <3>2. [address |-> a, size |-> n] \in FreeBlocks
      BY <3>1 DEF FreeBlocks
    <3>3. QED
      BY <3>2 DEF a, n
  <2>4. BlockEnd(b) = BlockEnd(s[i + 1]) /\ BlockEnd(b) \in Nat
    <3>1. /\ s[i].address \in Nat /\ s[i].size \in Nat /\ s[i + 1].size \in Nat
          /\ s[i].address + s[i].size = s[i + 1].address
          /\ BlockEnd(s[i + 1]) = s[i + 1].address + s[i + 1].size
      BY <1>1, <1>4, <2>2
    <3>2. BlockEnd(b) = b.address + b.size
      BY DEF BlockEnd
    <3> HIDE DEF b
    <3>3. QED
      BY ONLY <2>3, <3>1, <3>2
  <2>5. /\ first \in Seq(FreeBlocks) /\ Len(first) = i - 1
        /\ \A k \in 1..(i - 1) : first[k] = s[k]
    <3>1. \A k \in 1..(i - 1) : s[k] \in FreeBlocks
      BY <1>1, <1>4
    <3>2. /\ first \in Seq(FreeBlocks) /\ Len(first) = IF 1 <= i - 1 THEN (i - 1) - 1 + 1 ELSE 0
          /\ \A k \in 1..((i - 1) - 1 + 1) : first[k] = s[1 + k - 1]
      BY <3>1, SubSeqProperties
    <3> HIDE DEF first
    <3>3. Len(first) = i - 1
      BY <1>4, <3>2
    <3>4. ASSUME NEW k \in 1..(i - 1) PROVE first[k] = s[k]
      <4>1. k \in 1..((i - 1) - 1 + 1) /\ 1 + k - 1 = k
        BY <1>4
      <4>2. first[k] = s[1 + k - 1]
        BY <3>2, <4>1
      <4>3. QED
        BY <4>1, <4>2
    <3>5. QED
      BY <3>2, <3>3, <3>4
  <2>6. /\ rest \in Seq(FreeBlocks) /\ Len(rest) = Len(s) - i - 1
        /\ \A k \in 1..(Len(s) - i - 1) : rest[k] = s[k + i + 1]
    <3>1. \A k \in (i + 2)..Len(s) : s[k] \in FreeBlocks
      BY <1>1, <1>4
    <3>2. /\ rest \in Seq(FreeBlocks)
          /\ Len(rest) = IF i + 2 <= Len(s) THEN Len(s) - (i + 2) + 1 ELSE 0
          /\ \A k \in 1..(Len(s) - (i + 2) + 1) : rest[k] = s[(i + 2) + k - 1]
      BY <1>1, <3>1, SubSeqProperties
    <3> HIDE DEF rest
    <3>3. Len(rest) = Len(s) - i - 1
      <4>1. Len(rest) = IF i + 2 <= Len(s) THEN Len(s) - (i + 2) + 1 ELSE 0
        BY <3>2
      <4>2. Len(s) \in Nat /\ i \in 1..(Len(s) - 1)
        BY <1>1, <1>4
      <4>3. QED
        BY ONLY <4>1, <4>2
    <3>4. ASSUME NEW k \in 1..(Len(s) - i - 1) PROVE rest[k] = s[k + i + 1]
      <4>1. k \in 1..(Len(s) - (i + 2) + 1) /\ (i + 2) + k - 1 = k + i + 1
        BY <1>1, <1>4
      <4>2. rest[k] = s[(i + 2) + k - 1]
        BY <3>2, <4>1
      <4>3. QED
        BY <4>1, <4>2
    <3>5. QED
      BY <3>2, <3>3, <3>4
  <2> HIDE DEF b, first, rest
  <2>7. /\ first \o <<b>> \in Seq(FreeBlocks) /\ Len(first \o <<b>>) = i
        /\ (first \o <<b>>)[i] = b
        /\ \A k \in 1..(i - 1) : (first \o <<b>>)[k] = s[k]
    <3>1. <<b>> \in Seq(FreeBlocks) /\ Len(<<b>>) = 1 /\ <<b>>[1] = b
      BY <2>3
    <3>2. /\ first \o <<b>> \in Seq(FreeBlocks) /\ Len(first \o <<b>>) = Len(first) + Len(<<b>>)
          /\ \A k \in 1..(Len(first) + Len(<<b>>)) :
               (first \o <<b>>)[k] = IF k <= Len(first) THEN first[k] ELSE <<b>>[k - Len(first)]
      BY <2>5, <3>1, ConcatProperties
    <3>3. QED
      BY <1>4, <2>5, <3>1, <3>2
  <2>8. /\ joined \in Seq(FreeBlocks) /\ DOMAIN joined = 1..(Len(s) - 1)
        /\ joined[i] = b
        /\ \A k \in 1..(i - 1) : joined[k] = s[k]
        /\ \A k \in (i + 1)..(Len(s) - 1) : joined[k] = s[k + 1]
    <3> DEFINE front == first \o <<b>>
    <3> HIDE DEF front
    <3>1. front \in Seq(FreeBlocks) /\ Len(front) = i /\ front[i] = b
          /\ \A k \in 1..(i - 1) : front[k] = s[k]
      BY <2>7 DEF front
    <3>2. /\ front \o rest \in Seq(FreeBlocks) /\ Len(front \o rest) = Len(front) + Len(rest)
          /\ \A k \in 1..(Len(front) + Len(rest)) :
               (front \o rest)[k] = IF k <= Len(front) THEN front[k] ELSE rest[k - Len(front)]
      <4>1. front \in Seq(FreeBlocks) /\ rest \in Seq(FreeBlocks)
        BY <2>6, <3>1
      <4>2. QED
        BY ONLY <4>1, ConcatProperties
    <3>3. joined = front \o rest
      BY DEF front
    <3> HIDE DEF joined
    <3>4. Len(front) + Len(rest) = Len(s) - 1
      BY <1>1, <1>4, <2>6, <3>1
    <3>5. joined \in Seq(FreeBlocks) /\ DOMAIN joined = 1..(Len(s) - 1)
      BY <3>2, <3>3, <3>4
    <3>6. ASSUME NEW k \in (i + 1)..(Len(s) - 1) PROVE joined[k] = s[k + 1]
      <4>1. k \in 1..(Len(front) + Len(rest)) /\ ~(k <= Len(front)) /\ k - Len(front) = k - i
        BY <1>1, <1>4, <3>1, <3>4
      <4>2. joined[k] = rest[k - i]
        BY <3>2, <3>3, <4>1
      <4>3. k - i \in 1..(Len(s) - i - 1) /\ (k - i) + i + 1 = k + 1
        BY <1>1, <1>4
      <4>4. QED
        BY <2>6, <4>2, <4>3
    <3>7. joined[i] = b /\ \A k \in 1..(i - 1) : joined[k] = s[k]
      BY <1>1, <1>4, <3>1, <3>2, <3>3, <3>4
    <3>8. QED
      BY <3>5, <3>6, <3>7
  <2> HIDE DEF joined, left
  <2>9. joined # s
    BY <1>1, <1>4, <2>8
  <2>10. \A k \in DOMAIN joined :
           \/ k < i /\ k \in DOMAIN s /\ joined[k] = s[k]
           \/ k = i /\ joined[k] = b
           \/ k > i /\ k + 1 \in DOMAIN s /\ joined[k] = s[k + 1]
    BY <1>1, <1>4, <2>8
  <2>11. ASSUME NEW k \in DOMAIN joined
         PROVE  joined[k].size > Header /\ lo <= joined[k].address /\ BlockEnd(joined[k]) <= hi
    <3>1. b.size > Header /\ lo <= b.address /\ BlockEnd(b) <= hi
      <4>1. Header \in Nat
        BY HeaderType
      <4>2. QED
        <5>1. /\ s[i].size > Header /\ lo <= s[i].address /\ BlockEnd(s[i + 1]) <= hi
              /\ s[i].size \in Nat /\ s[i + 1].size \in Nat
          BY <1>1, <1>2, <2>2
        <5>2. QED
          BY ONLY <2>3, <2>4, <4>1, <5>1
    <3>2. QED
      BY <1>2, <2>10, <3>1
  <2>12. ASSUME NEW k \in DOMAIN joined, NEW l \in DOMAIN joined, k < l
         PROVE  \/ BlockEnd(joined[k]) < joined[l].address
                \/ BlockEnd(joined[k]) = joined[l].address /\ l = k + 1 /\ k \in left
    <3>0. k \in Int /\ l \in Int
      BY <2>8
    <3>1. CASE l < i
      <4>1. k \in DOMAIN s /\ l \in DOMAIN s /\ joined[k] = s[k] /\ joined[l] = s[l] /\ k < i
        BY <2>10, <2>12, <3>0, <3>1
      <4>2. QED
        BY <1>2, <2>12, <4>1 DEF left
    <3>2. CASE l = i
      <4>1. k \in DOMAIN s /\ i \in DOMAIN s /\ joined[k] = s[k]
            /\ joined[l].address = s[i].address /\ k < i
        BY <2>2, <2>3, <2>10, <2>12, <3>0, <3>2
      <4>2. QED
        BY <1>2, <3>2, <4>1 DEF left
    <3>3. CASE k = i
      <4>1. /\ l + 1 \in DOMAIN s /\ joined[l] = s[l + 1] /\ i + 1 < l + 1
            /\ BlockEnd(joined[k]) = BlockEnd(s[i + 1])
        BY <2>4, <2>10, <2>12, <3>0, <3>3
      <4>2. \/ BlockEnd(s[i + 1]) < s[l + 1].address
            \/ BlockEnd(s[i + 1]) = s[l + 1].address /\ l + 1 = i + 1 + 1 /\ i + 1 \in T
        BY <1>2, <2>2, <4>1
      <4>3. i + 1 \in T => i \in left
        BY DEF left
      <4>4. QED
        BY <3>0, <3>3, <4>1, <4>2, <4>3
    <3>4. CASE k < i /\ l > i
      <4>1. k \in DOMAIN s /\ l + 1 \in DOMAIN s /\ joined[k] = s[k] /\ joined[l] = s[l + 1]
            /\ k < l + 1 /\ l + 1 # k + 1
        BY <2>10, <2>12, <3>0, <3>4
      <4>2. QED
        BY <1>2, <4>1
    <3>5. CASE k > i
      <4>1. k + 1 \in DOMAIN s /\ l + 1 \in DOMAIN s /\ joined[k] = s[k + 1]
            /\ joined[l] = s[l + 1] /\ k + 1 < l + 1
        BY <2>10, <2>12, <3>0, <3>5
      <4>2. \/ BlockEnd(s[k + 1]) < s[l + 1].address
            \/ BlockEnd(s[k + 1]) = s[l + 1].address /\ l + 1 = k + 1 + 1 /\ k + 1 \in T
        BY <1>2, <4>1
      <4>3. k + 1 \in T => k \in left
        BY <3>0, <3>5 DEF left
      <4>4. QED
        BY <3>0, <4>1, <4>2, <4>3
    <3>6. QED
      BY <2>12, <3>0, <3>1, <3>2, <3>3, <3>4, <3>5
  <2>13. Spaced(joined, lo, hi, left)
    <3>1. \A k \in DOMAIN joined :
            joined[k].size > Header /\ lo <= joined[k].address /\ BlockEnd(joined[k]) <= hi
      BY <2>11
    <3>2. \A k, l \in DOMAIN joined : k < l =>
            \/ BlockEnd(joined[k]) < joined[l].address
            \/ BlockEnd(joined[k]) = joined[l].address /\ l = k + 1 /\ k \in left
      BY <2>12
    <3>3. QED
      BY <2>8, <3>1, <3>2, Zenon DEF Spaced
  <2>14. ASSUME NEW g \in Int PROVE Covers(joined, g) <=> Covers(s, g)
    <3>1. Inside(b, g) <=> Inside(s[i], g) \/ Inside(s[i + 1], g)
      <4>1. /\ s[i].address \in Nat /\ s[i + 1].address \in Nat /\ BlockEnd(s[i + 1]) \in Nat
            /\ s[i].size \in Nat \ {0} /\ s[i + 1].size \in Nat \ {0}
            /\ BlockEnd(s[i]) = s[i].address + s[i].size
            /\ BlockEnd(s[i + 1]) = s[i + 1].address + s[i + 1].size
            /\ BlockEnd(s[i]) = s[i + 1].address
        BY <1>1, <1>4, <2>2
      <4>2. QED
        BY ONLY <2>3, <2>4, <4>1, g \in Int DEF Inside
    <3>2. Covers(joined, g) => Covers(s, g)
      BY <2>2, <2>10, <3>1 DEF Covers
    <3>3. ASSUME NEW k \in DOMAIN s, Inside(s[k], g) PROVE Covers(joined, g)
      <4>1. CASE k < i
        <5>1. k \in DOMAIN joined /\ joined[k] = s[k]
          BY <1>1, <1>4, <2>8, <4>1
        <5>2. QED
          BY <3>3, <5>1 DEF Covers
      <4>2. CASE k = i \/ k = i + 1
        <5>1. i \in DOMAIN joined /\ Inside(joined[i], g)
          BY <1>4, <2>8, <3>1, <3>3, <4>2
        <5>2. QED
          BY <5>1 DEF Covers
      <4>3. CASE k > i + 1
        <5>1. k - 1 \in (i + 1)..(Len(s) - 1) /\ (k - 1) + 1 = k
          BY <1>1, <1>4, <4>3
        <5>2. k - 1 \in DOMAIN joined /\ joined[k - 1] = s[k]
          BY <1>4, <2>8, <5>1
        <5>3. QED
          BY <3>3, <5>2 DEF Covers
      <4>4. QED
        BY <1>1, <1>4, <4>1, <4>2, <4>3
    <3>4. QED
      BY <3>2, <3>3 DEF Covers
  <2>15. QED
    BY <2>1, <2>9, <2>13, <2>14 DEF left
<1>5. QED
  BY <1>3, <1>4

(* A block put where it belongs, between the blocks before and after it: it  *)
(* may touch both.                                                           *)
LEMMA SpacedInsert ==
  ASSUME mirrored \in BOOLEAN, NEW s, NEW lo \in Int, NEW hi \in Int, Spaced(s, lo, hi, {}),
         NEW b \in FreeBlocks, b.size > Header, lo <= b.address, BlockEnd(b) <= hi,
         NEW i \in 1..(Len(s) + 1),
         \A k \in 1..(i - 1) : BlockEnd(s[k]) <= b.address,
         \A k \in i..Len(s) : BlockEnd(b) <= s[k].address
  PROVE  LET u == SubSeq(s, 1, i - 1) \o <<b>> \o SubSeq(s, i, Len(s))
         IN  /\ Spaced(u, lo, hi, {i - 1, i})
             /\ \A g \in Int : Covers(u, g) <=> Covers(s, g) \/ Inside(b, g)
<1> DEFINE first == SubSeq(s, 1, i - 1)
           rest == SubSeq(s, i, Len(s))
           u == first \o <<b>> \o rest
<1>1. /\ s \in Seq(FreeBlocks) /\ Len(s) \in Nat /\ DOMAIN s = 1..Len(s)
      /\ \A k \in DOMAIN s : s[k] \in FreeBlocks /\ s[k].address \in Nat /\ BlockEnd(s[k]) \in Nat
                             /\ s[k].size \in Nat \ {0}
                             /\ BlockEnd(s[k]) = s[k].address + s[k].size
  BY BlockTypes DEF Spaced
<1>2. b.address \in Nat /\ b.size \in Nat \ {0} /\ BlockEnd(b) = b.address + b.size
  BY DEF FreeBlocks, BlockEnd
<1>3. /\ \A k \in DOMAIN s : s[k].size > Header /\ lo <= s[k].address /\ BlockEnd(s[k]) <= hi
      /\ \A k, l \in DOMAIN s : k < l => BlockEnd(s[k]) < s[l].address
  BY DEF Spaced
<1>4. /\ first \in Seq(FreeBlocks) /\ Len(first) = i - 1
      /\ \A k \in 1..(i - 1) : first[k] = s[k]
  <2>1. \A k \in 1..(i - 1) : s[k] \in FreeBlocks
    BY <1>1
  <2>2. /\ first \in Seq(FreeBlocks) /\ Len(first) = IF 1 <= i - 1 THEN (i - 1) - 1 + 1 ELSE 0
        /\ \A k \in 1..((i - 1) - 1 + 1) : first[k] = s[1 + k - 1]
    BY <2>1, SubSeqProperties
  <2> HIDE DEF first
  <2>3. QED
    BY <1>1, <2>2
<1>5. /\ rest \in Seq(FreeBlocks) /\ Len(rest) = Len(s) - i + 1
      /\ \A k \in 1..(Len(s) - i + 1) : rest[k] = s[k + i - 1]
  <2>1. \A k \in i..Len(s) : s[k] \in FreeBlocks
    BY <1>1
  <2>2. /\ rest \in Seq(FreeBlocks) /\ Len(rest) = IF i <= Len(s) THEN Len(s) - i + 1 ELSE 0
        /\ \A k \in 1..(Len(s) - i + 1) : rest[k] = s[i + k - 1]
    BY <1>1, <2>1, SubSeqProperties
  <2> HIDE DEF rest
  <2>3. QED
    BY <1>1, <2>2
<1> HIDE DEF first, rest
<1> DEFINE front == first \o <<b>>
<1>6. front \in Seq(FreeBlocks) /\ Len(front) = i /\ front[i] = b
      /\ \A k \in 1..(i - 1) : front[k] = s[k]
  <2>1. <<b>> \in Seq(FreeBlocks) /\ Len(<<b>>) = 1 /\ <<b>>[1] = b
    OBVIOUS
  <2>2. /\ front \in Seq(FreeBlocks) /\ Len(front) = Len(first) + Len(<<b>>)
        /\ \A k \in 1..(Len(first) + Len(<<b>>)) :
             front[k] = IF k <= Len(first) THEN first[k] ELSE <<b>>[k - Len(first)]
    BY <1>4, <2>1, ConcatProperties
  <2> HIDE DEF front
  <2>3. QED
    BY <1>1, <1>4, <2>1, <2>2
<1> HIDE DEF front
<1>7. /\ u \in Seq(FreeBlocks) /\ DOMAIN u = 1..(Len(s) + 1) /\ u[i] = b
      /\ \A k \in 1..(i - 1) : u[k] = s[k]
      /\ \A k \in (i + 1)..(Len(s) + 1) : u[k] = s[k - 1]
  <2>1. /\ front \o rest \in Seq(FreeBlocks) /\ Len(front \o rest) = Len(front) + Len(rest)
        /\ \A k \in 1..(Len(front) + Len(rest)) :
             (front \o rest)[k] = IF k <= Len(front) THEN front[k] ELSE rest[k - Len(front)]
    BY ONLY <1>5, <1>6, ConcatProperties
  <2>2. u = front \o rest
    BY DEF front
  <2> HIDE DEF u
  <2>3. Len(front) + Len(rest) = Len(s) + 1
    BY <1>1, <1>5, <1>6
  <2>4. u \in Seq(FreeBlocks) /\ DOMAIN u = 1..(Len(s) + 1)
    BY <2>1, <2>2, <2>3
  <2>5. u[i] = b /\ \A k \in 1..(i - 1) : u[k] = s[k]
    BY <1>1, <1>6, <2>1, <2>2, <2>3
  <2>6. ASSUME NEW k \in (i + 1)..(Len(s) + 1) PROVE u[k] = s[k - 1]
    <3>1. k \in 1..(Len(front) + Len(rest)) /\ ~(k <= Len(front)) /\ k - Len(front) = k - i
      BY <1>1, <1>6, <2>3
    <3>2. u[k] = rest[k - i]
      BY <2>1, <2>2, <3>1
    <3>3. k - i \in 1..(Len(s) - i + 1) /\ (k - i) + i - 1 = k - 1
      BY <1>1
    <3>4. QED
      BY <1>5, <3>2, <3>3
  <2>7. QED
    BY <2>4, <2>5, <2>6
<1> HIDE DEF u
<1>8. \A k \in DOMAIN u :
        \/ k < i /\ k \in DOMAIN s /\ u[k] = s[k]
        \/ k = i /\ u[k] = b
        \/ k > i /\ k - 1 \in DOMAIN s /\ u[k] = s[k - 1]
  BY <1>1, <1>7
<1>9. \A k \in DOMAIN u : u[k].size > Header /\ lo <= u[k].address /\ BlockEnd(u[k]) <= hi
  BY <1>3, <1>8
<1>10. ASSUME NEW k \in DOMAIN u, NEW l \in DOMAIN u, k < l
       PROVE  \/ BlockEnd(u[k]) < u[l].address
              \/ BlockEnd(u[k]) = u[l].address /\ l = k + 1 /\ k \in {i - 1, i}
  <2>0. k \in Int /\ l \in Int /\ i \in Int
    BY <1>1, <1>7
  <2>1. CASE l < i
    BY <1>3, <1>8, <1>10, <2>0, <2>1
  <2>2. CASE l = i
    <3>1. k \in DOMAIN s /\ u[k] = s[k] /\ k \in 1..(i - 1)
      BY <1>7, <1>8, <1>10, <2>0, <2>2
    <3>2. CASE k = i - 1
      <4>1. BlockEnd(s[k]) <= b.address /\ BlockEnd(s[k]) \in Nat
        BY <1>1, <3>1
      <4>2. BlockEnd(s[k]) < b.address \/ BlockEnd(s[k]) = b.address
        BY <1>2, <4>1
      <4>3. u[l] = b /\ l = k + 1
        BY <1>7, <2>0, <2>2, <3>2
      <4>4. QED
        BY <3>1, <3>2, <4>2, <4>3
    <3>3. CASE k # i - 1
      <4>1. i - 1 \in DOMAIN s /\ k < i - 1 /\ i - 1 \in 1..(i - 1)
        <5>1. /\ Len(s) \in Nat /\ i \in 1..(Len(s) + 1) /\ k \in 1..(i - 1)
              /\ DOMAIN s = 1..Len(s)
          BY <1>1, <3>1
        <5>2. QED
          BY ONLY <3>3, <5>1
      <4>2. BlockEnd(s[k]) < s[i - 1].address /\ BlockEnd(s[i - 1]) <= b.address
        BY <1>3, <3>1, <4>1
      <4>3. BlockEnd(s[k]) < b.address
        <5>1. /\ BlockEnd(s[k]) \in Nat /\ s[i - 1].address \in Nat
              /\ s[i - 1].size \in Nat \ {0}
              /\ BlockEnd(s[i - 1]) = s[i - 1].address + s[i - 1].size
          BY <1>1, <3>1, <4>1
        <5>2. QED
          BY ONLY <1>2, <4>2, <5>1
      <4>4. QED
        BY <1>7, <2>2, <3>1, <4>3
    <3>4. QED
      BY <3>2, <3>3
  <2>3. CASE k = i
    <3>1. l - 1 \in DOMAIN s /\ u[l] = s[l - 1] /\ l - 1 \in i..Len(s)
      <4>1. l > i
        BY <1>10, <2>3
      <4>2. l - 1 \in DOMAIN s /\ u[l] = s[l - 1]
        BY <1>8, <2>0, <4>1
      <4>3. QED
        BY <1>1, <2>0, <4>1, <4>2
    <3>2. CASE l = i + 1
      <4>0. l - 1 = i /\ i \in DOMAIN s /\ i \in i..Len(s)
        <5>1. i \in Int
          BY <1>1
        <5>2. l - 1 = i
          BY ONLY <3>2, <5>1
        <5>3. QED
          BY ONLY <3>1, <5>2
      <4>1. BlockEnd(b) <= s[i].address /\ s[i].address \in Nat /\ l - 1 = i
        BY <1>1, <4>0
      <4>2. BlockEnd(b) < s[i].address \/ BlockEnd(b) = s[i].address
        <5>1. BlockEnd(b) \in Nat
          BY <1>2
        <5>2. QED
          BY ONLY <4>1, <5>1
      <4>3. u[k] = b /\ u[l] = s[i] /\ l = k + 1
        BY <1>7, <2>3, <3>1, <3>2, <4>1
      <4>4. QED
        BY <2>3, <4>2, <4>3
    <3>3. CASE l # i + 1
      <4>1. i \in DOMAIN s /\ i < l - 1 /\ i \in i..Len(s)
        <5>1. i < l - 1
          BY <1>10, <2>0, <2>3, <3>3
        <5>2. Len(s) \in Nat /\ i \in 1..(Len(s) + 1) /\ DOMAIN s = 1..Len(s)
          BY <1>1
        <5>3. l - 1 \in Int /\ i <= l - 1 /\ l - 1 <= Len(s)
          BY ONLY <3>1, <5>2
        <5>4. 1 <= i /\ i <= Len(s) /\ i \in Int
          BY ONLY <5>2, <5>3
        <5>5. QED
          BY ONLY <5>1, <5>2, <5>4
      <4>2. BlockEnd(s[i]) < s[l - 1].address /\ BlockEnd(b) <= s[i].address
        BY <1>3, <3>1, <4>1
      <4>3. BlockEnd(b) < s[l - 1].address
        <5>1. /\ BlockEnd(b) \in Nat /\ BlockEnd(s[i]) \in Nat /\ s[i].address \in Nat
              /\ s[i].size \in Nat \ {0} /\ BlockEnd(s[i]) = s[i].address + s[i].size
          BY <1>1, <1>2, <4>1
        <5>2. s[l - 1].address \in Nat
          BY <1>1, <3>1
        <5>3. QED
          BY ONLY <4>2, <5>1, <5>2
      <4>4. QED
        BY <1>7, <2>3, <3>1, <4>3
    <3>4. QED
      BY <3>2, <3>3
  <2>4. CASE k < i /\ l > i
    <3>1. k \in DOMAIN s /\ l - 1 \in DOMAIN s /\ u[k] = s[k] /\ u[l] = s[l - 1]
          /\ k \in 1..(i - 1) /\ l - 1 \in i..Len(s)
      BY <1>1, <1>7, <1>8, <2>0, <2>4
    <3>2. BlockEnd(s[k]) <= b.address /\ BlockEnd(b) <= s[l - 1].address
      BY <3>1
    <3>3. QED
      <4>1. BlockEnd(s[k]) \in Nat /\ s[l - 1].address \in Nat
        BY <1>1, <3>1
      <4>2. BlockEnd(s[k]) < s[l - 1].address
        BY ONLY <1>2, <3>2, <4>1
      <4>3. QED
        BY ONLY <3>1, <4>2
  <2>5. CASE k > i
    <3>1. k - 1 \in DOMAIN s /\ l - 1 \in DOMAIN s /\ u[k] = s[k - 1] /\ u[l] = s[l - 1]
          /\ k - 1 < l - 1
      BY <1>8, <1>10, <2>0, <2>5
    <3>2. QED
      BY <1>3, <3>1
  <2>6. QED
    BY <1>10, <2>0, <2>1, <2>2, <2>3, <2>4, <2>5
<1>11. Spaced(u, lo, hi, {i - 1, i})
  BY <1>7, <1>9, <1>10 DEF Spaced
<1>12. ASSUME NEW g \in Int PROVE Covers(u, g) <=> Covers(s, g) \/ Inside(b, g)
  <2>1. Covers(u, g) => Covers(s, g) \/ Inside(b, g)
    BY <1>8 DEF Covers
  <2>2. ASSUME NEW k \in DOMAIN s, Inside(s[k], g) PROVE Covers(u, g)
    <3>1. CASE k < i
      <4>1. k \in DOMAIN u /\ u[k] = s[k]
        BY <1>1, <1>7, <3>1
      <4>2. QED
        BY <2>2, <4>1 DEF Covers
    <3>2. CASE k >= i
      <4>1. k + 1 \in (i + 1)..(Len(s) + 1) /\ (k + 1) - 1 = k
        BY <1>1, <3>2
      <4>2. k + 1 \in DOMAIN u /\ u[k + 1] = s[k]
        BY <1>1, <1>7, <4>1
      <4>3. QED
        BY <2>2, <4>2 DEF Covers
    <3>3. QED
      BY <1>1, <3>1, <3>2
  <2>3. Inside(b, g) => Covers(u, g)
    <3>1. i \in DOMAIN u
      BY <1>1, <1>7
    <3>2. QED
      BY <1>7, <3>1 DEF Covers
  <2>4. QED
    BY <2>1, <2>2, <2>3 DEF Covers
<1>13. QED
  BY <1>11, <1>12 DEF u, first, rest

-----------------------------------------------------------------------------
(* The expanded heap: what is free and what is allocated.                    *)

(* Grain g belongs to an allocation. *)
Holds(a, g) == a.raw <= g /\ g < a.raw + a.rawSize

(* The free list is in order and joined, a header and the payload fit in     *)
(* every allocation, and every grain of the heap has one holder.             *)
HeapShape ==
  /\ Spaced(free, Start, End[mirrored], {})
  /\ \A r \in DOMAIN allocated :
       /\ allocated[r].raw + Header <= r
       /\ r + allocated[r].size <= allocated[r].raw + allocated[r].rawSize
  /\ \A g \in Int : Start <= g /\ g < End[mirrored]
       <=> Covers(free, g) \/ \E r \in DOMAIN allocated : Holds(allocated[r], g)
  /\ \A r, s \in DOMAIN allocated : \A g \in Int :
       Holds(allocated[r], g) /\ Holds(allocated[s], g) => r = s
  /\ \A r \in DOMAIN allocated : \A g \in Int :
       Holds(allocated[r], g) => ~Covers(free, g)

(* The grains of a list lie between its ends. *)
LEMMA CoveredBetween ==
  ASSUME NEW s, NEW lo \in Int, NEW hi \in Int, NEW T, Spaced(s, lo, hi, T), NEW g \in Int,
         Covers(s, g)
  PROVE  lo <= g /\ g < hi
<1>1. PICK k \in DOMAIN s : Inside(s[k], g)
  BY DEF Covers
<1>2. lo <= s[k].address /\ BlockEnd(s[k]) <= hi
  BY DEF Spaced
<1>3. s[k].address \in Nat /\ BlockEnd(s[k]) \in Nat
  BY BlockTypes DEF Spaced
<1>4. QED
  BY <1>1, <1>2, <1>3 DEF Inside

(* The types of an allocation. *)
LEMMA AllocationTypes ==
  ASSUME HeapTypeOK, NEW r \in DOMAIN allocated
  PROVE  /\ allocated[r].raw \in Nat /\ allocated[r].rawSize \in Nat \ {0}
         /\ allocated[r].size \in Nat \ {0} /\ r \in Nat
BY DEF HeapTypeOK, Allocations

(* The address of an allocation is one of its grains. *)
LEMMA HoldsItsAddress ==
  ASSUME HeapTypeOK, HeapShape, NEW r \in DOMAIN allocated
  PROVE  Holds(allocated[r], r)
<1>1. /\ allocated[r].raw \in Nat /\ allocated[r].rawSize \in Nat \ {0}
      /\ allocated[r].size \in Nat \ {0} /\ r \in Nat /\ Header \in Nat
  BY AllocationTypes, HeaderType DEF HeapTypeOK
<1>2. /\ allocated[r].raw + Header <= r
      /\ r + allocated[r].size <= allocated[r].raw + allocated[r].rawSize
  BY DEF HeapShape
<1>3. QED
  BY <1>1, <1>2 DEF Holds

(* The ends of a heap. *)
LEMMA EndTypes ==
  ASSUME HeapTypeOK
  PROVE  /\ Start \in Nat /\ End[mirrored] \in Nat /\ Header \in Nat
         /\ Start + Header < End[mirrored]
<1>1. mirrored \in BOOLEAN
  BY DEF HeapTypeOK
<1>0. /\ Start \in Nat /\ BlockSize \in Nat /\ End[TRUE] \in Nat /\ End[FALSE] \in Nat
      /\ Start + BlockSize < End[TRUE] /\ Start < End[FALSE]
  <2>1. End[TRUE] \in Nat /\ End[FALSE] \in Nat
    BY HeapConstants, Zenon
  <2>2. QED
    BY <2>1, HeapConstants
<1>2. CASE mirrored
  <2>1. mirrored = TRUE /\ Header = BlockSize
    BY <1>1, <1>2 DEF Header
  <2>2. QED
    BY <1>0, <2>1
<1>3. CASE ~mirrored
  <2>0. mirrored = FALSE
    BY <1>1, <1>3, Zenon
  <2>a. Header = 0
    BY <1>3 DEF Header
  <2>1. mirrored = FALSE /\ Header = 0
    BY <2>0, <2>a
  <2>2. Start + 0 < End[FALSE] /\ 0 \in Nat
    <3>1. Start \in Nat /\ Start < End[FALSE]
      BY <1>0
    <3>2. Start + 0 = Start
      BY ONLY <3>1
    <3>3. QED
      BY ONLY <3>1, <3>2
  <2>3. QED
    BY <1>0, <2>1, <2>2, Zenon
<1>4. QED
  BY <1>1, <1>2, <1>3

(* Only the grains of the block an allocation is carved from, from first to  *)
(* end, change hands; its address was nobody's.                              *)
LEMMA CarveKeepsShape ==
  ASSUME HeapTypeOK, HeapShape, NEW i \in DOMAIN free, NEW n \in Nat \ {0}, NEW result \in Nat,
         NEW fromEnd \in BOOLEAN, UNCHANGED mirrored,
         free[i].address + Header <= result, result + n <= BlockEnd(free[i]),
         Carve(i, n, result, fromEnd)
  PROVE  HeapShape' /\ result \notin DOMAIN allocated
<1> DEFINE b == free[i]
           first == RawStart(b, result - Header)
           end == RawEnd(b, result + n)
           before == SubSeq(free, 1, i - 1)
           after == SubSeq(free, i + 1, Len(free))
           limit == End[mirrored]
           new == [raw |-> first, rawSize |-> end - first, size |-> end - result,
                   fromEnd |-> fromEnd]
<1>1. /\ mirrored \in BOOLEAN /\ free \in Seq(FreeBlocks)
      /\ Start \in Nat /\ limit \in Nat /\ Header \in Nat /\ MinimumSplit = Header + 1
  BY EndTypes, HeaderType DEF HeapTypeOK
<1>2. b.address \in Nat /\ BlockEnd(b) \in Nat /\ BlockEnd(b) = b.address + b.size
      /\ b.size \in Nat \ {0}
  BY <1>1, BlockTypes
<1>3. Start <= b.address /\ BlockEnd(b) <= limit
  BY DEF HeapShape, Spaced
<1>4. /\ first \in Nat /\ b.address <= first /\ first + Header <= result
      /\ first = b.address \/ first - b.address > Header
  BY <1>1, <1>2 DEF RawStart
<1>5. /\ end \in Nat /\ result + n <= end /\ end <= BlockEnd(b)
      /\ end = BlockEnd(b) \/ BlockEnd(b) - end > Header
  BY ONLY <1>1, <1>2, n \in Nat \ {0}, result \in Nat, result + n <= BlockEnd(b) DEF RawEnd
<1>6. /\ free' = before \o Piece(b.address, first) \o Piece(end, BlockEnd(b)) \o after
      /\ allocated' = [r \in DOMAIN allocated \cup {result} |->
                         IF r = result THEN new ELSE allocated[r]]
  BY DEF Carve
<1>7. /\ Spaced(before, Start, b.address - 1, {})
      /\ Spaced(after, BlockEnd(b) + 1, limit, {})
      /\ \A g \in Int : Covers(free, g) <=> Covers(before, g) \/ Inside(b, g) \/ Covers(after, g)
  BY <1>1, SpacedParts DEF HeapShape
<1> HIDE DEF b, first, end, before, after, limit
<1> DEFINE low == Piece(b.address, first)
           high == Piece(end, BlockEnd(b))
<1>8. /\ Spaced(low, b.address, first, {})
      /\ \A g \in Int : Covers(low, g) <=> b.address <= g /\ g < first
  BY <1>1, <1>2, <1>4, SpacedPiece
<1>9. /\ Spaced(high, end, BlockEnd(b), {})
      /\ \A g \in Int : Covers(high, g) <=> end <= g /\ g < BlockEnd(b)
  BY <1>1, <1>2, <1>5, SpacedPiece
<1> HIDE DEF low, high
<1> DEFINE list1 == before \o low
           list2 == list1 \o high
           list3 == list2 \o after
<1>10. /\ Spaced(list1, Start, first, {})
       /\ \A g \in Int : Covers(list1, g) <=> Covers(before, g) \/ Covers(low, g)
  <2> DEFINE floor == b.address - 1
             head1 == b.address
  <2>1. /\ Start \in Int /\ floor \in Int /\ head1 \in Int /\ first \in Int
        /\ Start <= head1 /\ floor <= first /\ floor < head1
    BY ONLY <1>1, <1>2, <1>3, <1>4
  <2>2. Spaced(before, Start, floor, {}) /\ Spaced(low, head1, first, {})
    BY <1>7, <1>8
  <2> HIDE DEF floor, head1
  <2>3. QED
    BY ONLY <1>1, <2>1, <2>2, SpacedConcat
<1> HIDE DEF list1
<1>11. /\ Spaced(list2, Start, BlockEnd(b), {})
       /\ \A g \in Int : Covers(list2, g) <=> Covers(list1, g) \/ Covers(high, g)
  <2> DEFINE top == BlockEnd(b)
  <2>1. /\ Start \in Int /\ first \in Int /\ end \in Int /\ top \in Int
        /\ Start <= end /\ first <= top /\ first < end
    BY ONLY <1>1, <1>2, <1>3, <1>4, <1>5, n \in Nat \ {0}, result \in Nat
  <2>2. Spaced(list1, Start, first, {}) /\ Spaced(high, end, top, {})
    BY <1>9, <1>10
  <2> HIDE DEF top
  <2>3. Spaced(list2, Start, top, {})
        /\ \A g \in Int : Covers(list2, g) <=> Covers(list1, g) \/ Covers(high, g)
    BY ONLY <1>1, <2>1, <2>2, SpacedConcat
  <2>4. QED
    BY <2>3 DEF top
<1> HIDE DEF list2
<1>12. /\ Spaced(list3, Start, limit, {})
       /\ \A g \in Int : Covers(list3, g) <=> Covers(list2, g) \/ Covers(after, g)
  <2> DEFINE top == BlockEnd(b)
             above == BlockEnd(b) + 1
  <2>1. /\ Start \in Int /\ top \in Int /\ above \in Int /\ limit \in Int
        /\ Start <= above /\ top <= limit /\ top < above
    BY ONLY <1>1, <1>2, <1>3
  <2>2. Spaced(list2, Start, top, {}) /\ Spaced(after, above, limit, {})
    BY <1>7, <1>11
  <2> HIDE DEF top, above
  <2>3. QED
    BY ONLY <1>1, <2>1, <2>2, SpacedConcat
<1>13. free' = list3
  BY <1>6 DEF list1, list2, low, high
<1> HIDE DEF list3
<1>14. \A g \in Int : Holds(new, g) <=> first <= g /\ g < end
  BY <1>4, <1>5 DEF Holds
<1>15. ASSUME NEW g \in Int, Holds(new, g) PROVE Covers(free, g)
  <2>1. first <= g /\ g < end
    BY <1>14, <1>15
  <2>2. Inside(b, g)
    BY <1>1, <1>2, <1>4, <1>5, <2>1 DEF Inside
  <2>3. QED
    BY <1>7, <2>2
<1>16. ASSUME NEW g \in Int
       PROVE  Covers(free', g) <=> Covers(free, g) /\ ~Holds(new, g)
  <2> DEFINE floor == b.address - 1
             above == BlockEnd(b) + 1
  <2>0. Start \in Int /\ floor \in Int /\ above \in Int /\ limit \in Int
        /\ Spaced(before, Start, floor, {}) /\ Spaced(after, above, limit, {})
    <3>1. Start \in Int /\ floor \in Int /\ above \in Int /\ limit \in Int
      BY ONLY <1>1, <1>2
    <3>2. QED
      BY <1>7, <3>1
  <2>1. Covers(before, g) => g < b.address
    <3>1. floor < b.address
      BY <1>2
    <3> HIDE DEF floor
    <3>2. Covers(before, g) => g < floor
      BY ONLY <2>0, g \in Int, CoveredBetween
    <3>3. QED
      BY <1>2, <2>0, <3>1, <3>2
  <2>2. Covers(after, g) => g >= BlockEnd(b)
    <3>1. above > BlockEnd(b)
      BY <1>2
    <3> HIDE DEF above
    <3>2. Covers(after, g) => above <= g
      BY ONLY <2>0, g \in Int, CoveredBetween
    <3>3. QED
      BY <1>2, <2>0, <3>1, <3>2
  <2>3. Covers(free', g) <=> \/ Covers(before, g) \/ Covers(after, g)
                             \/ b.address <= g /\ g < first
                             \/ end <= g /\ g < BlockEnd(b)
    <3>1. Covers(free', g) <=> Covers(list2, g) \/ Covers(after, g)
      BY ONLY <1>12, <1>13, g \in Int
    <3>2. Covers(list2, g) <=> Covers(list1, g) \/ Covers(high, g)
      BY ONLY <1>11, g \in Int
    <3>3. Covers(list1, g) <=> Covers(before, g) \/ Covers(low, g)
      BY ONLY <1>10, g \in Int
    <3>4. QED
      BY <1>8, <1>9, <3>1, <3>2, <3>3
  <2>4. Covers(free, g) <=> \/ Covers(before, g) \/ Covers(after, g)
                            \/ b.address <= g /\ g < BlockEnd(b)
    BY <1>7 DEF Inside
  <2>5. /\ b.address \in Nat /\ first \in Nat /\ end \in Nat /\ BlockEnd(b) \in Nat
        /\ b.address <= first /\ first <= end /\ end <= BlockEnd(b)
    BY <1>1, <1>2, <1>4, <1>5
  <2>6. Holds(new, g) <=> first <= g /\ g < end
    BY <1>14
  <2>7. QED
    BY ONLY <2>1, <2>2, <2>3, <2>4, <2>5, <2>6, g \in Int
<1>17. Holds(new, result) /\ result \notin DOMAIN allocated
  <2>1. Holds(new, result)
    BY <1>1, <1>4, <1>5, <1>14
  <2>2. Covers(free, result)
    BY <1>15, <2>1
  <2>3. QED
    BY <2>1, <2>2, HoldsItsAddress DEF HeapShape
<1>18. /\ DOMAIN allocated' = DOMAIN allocated \cup {result}
       /\ allocated'[result] = new
       /\ \A r \in DOMAIN allocated : allocated'[r] = allocated[r]
  BY <1>6, <1>17
<1>19. new.raw = first /\ new.rawSize = end - first /\ new.size = end - result
  OBVIOUS
<1> HIDE DEF new
<1>20. Header' = Header /\ End[mirrored'] = limit
  BY DEF Header, limit
<1>21. Spaced(free, Start, End[mirrored], {})'
  BY <1>12, <1>13, <1>20 DEF Spaced
<1>22. ASSUME NEW r \in DOMAIN allocated'
       PROVE  /\ allocated'[r].raw + Header' <= r
              /\ r + allocated'[r].size <= allocated'[r].raw + allocated'[r].rawSize
  <2>1. CASE r \in DOMAIN allocated
    BY <1>18, <1>20, <2>1 DEF HeapShape
  <2>2. CASE r = result
    BY <1>1, <1>4, <1>5, <1>18, <1>19, <1>20, <2>2
  <2>3. QED
    BY <1>18, <2>1, <2>2
<1>23. ASSUME NEW g \in Int
       PROVE  Start <= g /\ g < limit
              <=> Covers(free', g) \/ \E r \in DOMAIN allocated' : Holds(allocated'[r], g)
  <2>1. Start <= g /\ g < limit
        <=> Covers(free, g) \/ \E r \in DOMAIN allocated : Holds(allocated[r], g)
    BY DEF HeapShape, limit
  <2>2. (\E r \in DOMAIN allocated' : Holds(allocated'[r], g))
        <=> Holds(new, g) \/ \E r \in DOMAIN allocated : Holds(allocated[r], g)
    BY <1>18
  <2>3. QED
    BY <1>15, <1>16, <2>1, <2>2
<1>24. ASSUME NEW r \in DOMAIN allocated', NEW s \in DOMAIN allocated', NEW g \in Int,
              Holds(allocated'[r], g), Holds(allocated'[s], g)
       PROVE  r = s
  <2>1. \A t \in DOMAIN allocated : Holds(allocated[t], g) => ~Holds(new, g)
    BY <1>15 DEF HeapShape
  <2>2. \A t, u \in DOMAIN allocated : Holds(allocated[t], g) /\ Holds(allocated[u], g) => t = u
    BY DEF HeapShape
  <2>3. QED
    BY <1>18, <1>24, <2>1, <2>2
<1>25. ASSUME NEW r \in DOMAIN allocated', NEW g \in Int, Holds(allocated'[r], g)
       PROVE  ~Covers(free', g)
  <2>1. \A t \in DOMAIN allocated : Holds(allocated[t], g) => ~Covers(free, g)
    BY DEF HeapShape
  <2>2. QED
    BY <1>16, <1>18, <1>25, <2>1
<1>26. HeapShape'
  BY <1>20, <1>21, <1>22, <1>23, <1>24, <1>25 DEF HeapShape
<1>27. QED
  BY <1>17, <1>26

(* A released block goes back between the free blocks before and after it,   *)
(* and is joined with those it touches.                                      *)
LEMMA FreeKeepsShape ==
  ASSUME HeapTypeOK, HeapShape, NEW address \in DOMAIN allocated, Free(address)
  PROVE  HeapShape'
<1> DEFINE b == Released(address)
           limit == End[mirrored]
<1>1. /\ mirrored \in BOOLEAN /\ free \in Seq(FreeBlocks)
      /\ Start \in Nat /\ limit \in Nat /\ Header \in Nat
  BY EndTypes DEF HeapTypeOK
<1>2. /\ allocated[address].raw \in Nat /\ allocated[address].rawSize \in Nat \ {0}
      /\ allocated[address].size \in Nat \ {0} /\ address \in Nat
      /\ allocated[address].raw + Header <= address
      /\ address + allocated[address].size <= allocated[address].raw + allocated[address].rawSize
  BY AllocationTypes DEF HeapShape
<1>3. /\ b \in FreeBlocks /\ b.address = allocated[address].raw
      /\ b.size = allocated[address].rawSize
      /\ BlockEnd(b) = allocated[address].raw + allocated[address].rawSize
  BY <1>2 DEF Released, FreeBlocks, BlockEnd
<1>4. \A g \in Int : Inside(b, g) <=> Holds(allocated[address], g)
  BY <1>2, <1>3 DEF Inside, Holds
<1>5. \A g \in Int : Inside(b, g) => ~Covers(free, g)
  BY <1>4 DEF HeapShape
<1>6. b.size > Header /\ Start <= b.address /\ BlockEnd(b) <= limit
  <2>1. Inside(b, b.address) /\ b.address \in Int
    BY <1>2, <1>3 DEF Inside
  <2>2. Inside(b, BlockEnd(b) - 1) /\ BlockEnd(b) - 1 \in Int
    BY <1>2, <1>3 DEF Inside
  <2>3. \A g \in Int : Inside(b, g) => Start <= g /\ g < limit
    BY <1>4 DEF HeapShape
  <2>4. Start <= b.address /\ BlockEnd(b) - 1 < limit
    BY <2>1, <2>2, <2>3
  <2>5. QED
    BY ONLY <1>1, <1>2, <1>3, <2>4
<1>7. PICK i \in 1..(Len(free) + 1) :
        /\ IsPosition(i, b.address)
        /\ LET inserted == SubSeq(free, 1, i - 1) \o <<b>> \o SubSeq(free, i, Len(free))
               joined == Join(inserted, i - 1)
           IN  free' = Join(joined, IF joined = inserted THEN i ELSE i - 1)
  BY DEF Free
<1>8. /\ allocated' = [r \in DOMAIN allocated \ {address} |-> allocated[r]]
      /\ UNCHANGED mirrored
  BY DEF Free
<1> HIDE DEF b, limit
<1>9. /\ Len(free) \in Nat /\ DOMAIN free = 1..Len(free)
      /\ \A k \in DOMAIN free : free[k].address \in Nat /\ BlockEnd(free[k]) \in Nat
                                /\ free[k].size \in Nat \ {0}
                                /\ BlockEnd(free[k]) = free[k].address + free[k].size
  BY <1>1, BlockTypes
<1>10. ASSUME NEW k \in 1..(i - 1) PROVE BlockEnd(free[k]) <= b.address
  <2>1. k \in DOMAIN free /\ free[k].address < b.address
    BY <1>7, <1>9 DEF IsPosition
  <2>2. BlockEnd(free[k]) > b.address => Covers(free, b.address)
    <3>1. /\ BlockEnd(free[k]) = free[k].address + free[k].size /\ free[k].address \in Nat
          /\ free[k].size \in Nat
      BY <1>9, <2>1
    <3>2. b.address \in Nat
      BY <1>2, <1>3
    <3>3. BlockEnd(free[k]) > b.address => Inside(free[k], b.address)
      BY ONLY <2>1, <3>1, <3>2 DEF Inside
    <3>4. QED
      BY ONLY <2>1, <3>3 DEF Covers
  <2>3. Inside(b, b.address) /\ b.address \in Int
    BY <1>2, <1>3 DEF Inside
  <2>4. QED
    BY <1>2, <1>3, <1>5, <1>9, <2>1, <2>2, <2>3
<1>11. ASSUME NEW k \in i..Len(free) PROVE BlockEnd(b) <= free[k].address
  <2>1. k \in DOMAIN free /\ free[k].address >= b.address
    BY <1>7, <1>9 DEF IsPosition
  <2>2. Covers(free, free[k].address) /\ free[k].address \in Int
    BY <1>9, <2>1 DEF Covers, Inside
  <2>3. ~Inside(b, free[k].address)
    BY <1>5, <2>2
  <2>4. QED
    BY <1>2, <1>3, <1>9, <2>1, <2>3 DEF Inside
<1> DEFINE inserted == SubSeq(free, 1, i - 1) \o <<b>> \o SubSeq(free, i, Len(free))
<1>12. /\ Spaced(inserted, Start, limit, {i - 1, i})
       /\ \A g \in Int : Covers(inserted, g) <=> Covers(free, g) \/ Inside(b, g)
  <2>1. Spaced(free, Start, limit, {})
    BY DEF HeapShape, limit
  <2>2. /\ mirrored \in BOOLEAN /\ Start \in Int /\ limit \in Int /\ b \in FreeBlocks
        /\ b.size > Header /\ Start <= b.address /\ BlockEnd(b) <= limit
        /\ i \in 1..(Len(free) + 1)
    BY <1>1, <1>3, <1>6
  <2>3. QED
    BY ONLY <1>10, <1>11, <2>1, <2>2, SpacedInsert
<1> HIDE DEF inserted
<1> DEFINE joined == Join(inserted, i - 1)
           touching == {i - 1, i}
           once == {k \in touching : k < i - 1} \cup {k - 1 : k \in {l \in touching : l > i - 1}}
<1>13. /\ \/ joined = inserted /\ Spaced(inserted, Start, limit, touching \ {i - 1})
          \/ joined # inserted /\ Spaced(joined, Start, limit, once)
       /\ \A g \in Int : Covers(joined, g) <=> Covers(inserted, g)
  <2> DEFINE place == i - 1
  <2>1. /\ mirrored \in BOOLEAN /\ Start \in Int /\ limit \in Int /\ place \in Int
        /\ touching \in SUBSET Int /\ Spaced(inserted, Start, limit, touching)
    BY <1>1, <1>9, <1>12
  <2> HIDE DEF touching, place
  <2>2. /\ \/ Join(inserted, place) = inserted /\ Spaced(inserted, Start, limit, touching \ {place})
           \/ /\ Join(inserted, place) # inserted
              /\ Spaced(Join(inserted, place), Start, limit,
                        {k \in touching : k < place} \cup {k - 1 : k \in {l \in touching : l > place}})
        /\ \A g \in Int : Covers(Join(inserted, place), g) <=> Covers(inserted, g)
    BY ONLY <2>1, SpacedJoin
  <2>3. QED
    BY <2>2 DEF place
<1>14. i \in Int /\ touching \ {i - 1} = {i} /\ once = {i - 1}
  BY <1>9
<1> HIDE DEF joined, touching, once
<1>15. /\ Spaced(free', Start, limit, {})
       /\ \A g \in Int : Covers(free', g) <=> Covers(joined, g)
  <2>1. free' = Join(joined, IF joined = inserted THEN i ELSE i - 1)
    BY <1>7 DEF joined, inserted
  <2>2. \A j \in Int : Spaced(joined, Start, limit, {j}) =>
          /\ Spaced(Join(joined, j), Start, limit, {})
          /\ \A g \in Int : Covers(Join(joined, j), g) <=> Covers(joined, g)
    <3> SUFFICES ASSUME NEW j \in Int, Spaced(joined, Start, limit, {j})
                 PROVE  /\ Spaced(Join(joined, j), Start, limit, {})
                        /\ \A g \in Int : Covers(Join(joined, j), g) <=> Covers(joined, g)
      OBVIOUS
    <3> DEFINE T == {j}
               U == {k \in T : k < j} \cup {k - 1 : k \in {l \in T : l > j}}
    <3>1. T \in SUBSET Int /\ T \ {j} = {} /\ U = {}
      OBVIOUS
    <3>2. /\ \/ Join(joined, j) = joined /\ Spaced(joined, Start, limit, T \ {j})
             \/ Join(joined, j) # joined /\ Spaced(Join(joined, j), Start, limit, U)
          /\ \A g \in Int : Covers(Join(joined, j), g) <=> Covers(joined, g)
      <4>1. Spaced(joined, Start, limit, T) /\ Start \in Int /\ limit \in Int
        BY <1>1
      <4> HIDE DEF T
      <4>2. QED
        BY ONLY <1>1, <3>1, <4>1, j \in Int, SpacedJoin DEF U
    <3> HIDE DEF T, U
    <3>3. QED
      BY <3>1, <3>2
  <2>3. CASE joined = inserted
    BY <1>13, <1>14, <2>1, <2>2, <2>3
  <2>4. CASE joined # inserted
    <3>1. i - 1 \in Int
      BY <1>14
    <3>2. QED
      BY <1>13, <1>14, <2>1, <2>2, <2>4, <3>1
  <2>5. QED
    BY <2>3, <2>4
<1>16. \A g \in Int : Covers(free', g) <=> Covers(free, g) \/ Holds(allocated[address], g)
  BY <1>4, <1>12, <1>13, <1>15
<1>17. Header' = Header /\ End[mirrored'] = limit
  BY <1>8 DEF Header, limit
<1>18. /\ DOMAIN allocated' = DOMAIN allocated \ {address}
       /\ \A r \in DOMAIN allocated \ {address} : allocated'[r] = allocated[r]
  BY <1>8
<1>19. Spaced(free, Start, End[mirrored], {})'
  BY <1>15, <1>17 DEF Spaced
<1>20. \A r \in DOMAIN allocated' :
         /\ allocated'[r].raw + Header' <= r
         /\ r + allocated'[r].size <= allocated'[r].raw + allocated'[r].rawSize
  BY <1>17, <1>18 DEF HeapShape
<1>21. ASSUME NEW g \in Int
       PROVE  Start <= g /\ g < limit
              <=> Covers(free', g) \/ \E r \in DOMAIN allocated' : Holds(allocated'[r], g)
  <2>1. Start <= g /\ g < limit
        <=> Covers(free, g) \/ \E r \in DOMAIN allocated : Holds(allocated[r], g)
    BY DEF HeapShape, limit
  <2>2. (\E r \in DOMAIN allocated : Holds(allocated[r], g))
        <=> \/ Holds(allocated[address], g)
            \/ \E r \in DOMAIN allocated' : Holds(allocated'[r], g)
    BY <1>18
  <2>3. QED
    BY <1>16, <2>1, <2>2
<1>22. ASSUME NEW r \in DOMAIN allocated', NEW s \in DOMAIN allocated', NEW g \in Int,
              Holds(allocated'[r], g), Holds(allocated'[s], g)
       PROVE  r = s
  BY <1>18, <1>22 DEF HeapShape
<1>23. ASSUME NEW r \in DOMAIN allocated', NEW g \in Int, Holds(allocated'[r], g)
       PROVE  ~Covers(free', g)
  <2>1. r \in DOMAIN allocated /\ r # address /\ Holds(allocated[r], g)
    BY <1>18, <1>23
  <2>2. ~Covers(free, g) /\ ~Holds(allocated[address], g)
    BY <2>1 DEF HeapShape
  <2>3. QED
    BY <1>16, <2>2
<1>24. QED
  BY <1>17, <1>19, <1>20, <1>21, <1>22, <1>23 DEF HeapShape

(* A new heap is one free block. *)
WholeHeap == <<[address |-> Start, size |-> End[mirrored] - Start]>>

(* One block of the size of the heap is a list of free blocks and covers it. *)
LEMMA WholeHeapSpaced ==
  ASSUME HeapTypeOK
  PROVE  /\ Spaced(WholeHeap, Start, End[mirrored], {})
         /\ \A g \in Int : Covers(WholeHeap, g) <=> Start <= g /\ g < End[mirrored]
<1> DEFINE limit == End[mirrored]
<1>1. /\ Start \in Nat /\ limit \in Nat /\ Header \in Nat /\ Start + Header < limit
      /\ mirrored \in BOOLEAN
  BY EndTypes DEF HeapTypeOK
<1>2. WholeHeap = Piece(Start, limit)
  BY <1>1 DEF Piece, WholeHeap
<1> HIDE DEF limit
<1>3. limit - Start > Header
  BY <1>1
<1>4. /\ Spaced(WholeHeap, Start, limit, {})
      /\ \A g \in Int : Covers(WholeHeap, g) <=> Start <= g /\ g < limit
  BY <1>1, <1>2, <1>3, SpacedPiece
<1>5. QED
  BY <1>4 DEF limit

(* The inductive invariant: types, the shape of the expanded heap, the frame *)
(* heap between its marks, and the frame heap in one allocation.             *)
HeapInv ==
  /\ HeapTypeOK
  /\ HeapShape
  /\ FrameInv
  /\ handle # 0 => handle \in DOMAIN allocated /\ last = handle + allocated[handle].size

(* No operation of the expanded heap moves the frame heap or frees its block. *)
LEMMA AllocateKeeps ==
  ASSUME HeapInv, NEW size \in Sizes, NEW alignment \in Alignments,
         Allocate(size, alignment), UNCHANGED frameVars
  PROVE  HeapInv'
<1>1. HeapTypeOK /\ HeapShape /\ HeapTypeOK'
  BY HeapTypesKept DEF HeapInv, HeapNext
<1>2. PICK i \in DOMAIN free, n \in Nat \ {0}, result \in Nat, fromEnd \in BOOLEAN :
        /\ free[i].address + Header <= result /\ result + n <= BlockEnd(free[i])
        /\ Carve(i, n, result, fromEnd) /\ UNCHANGED mirrored
  BY <1>1, AllocationCarves
<1>3. HeapShape' /\ result \notin DOMAIN allocated
  BY <1>1, <1>2, CarveKeepsShape
<1>4. /\ DOMAIN allocated' = DOMAIN allocated \cup {result}
      /\ \A r \in DOMAIN allocated : allocated'[r] = allocated[r]
  BY <1>2, <1>3 DEF Carve
<1>5. FrameInv'
  BY DEF HeapInv, FrameInv, FrameTypeOK, frameVars
<1>6. QED
  BY <1>1, <1>3, <1>4, <1>5 DEF HeapInv, frameVars

(* No request to either heap breaks the invariant. *)
LEMMA HeapsStep ==
  ASSUME HeapInv, [HeapsNext]_heapsVars
  PROVE  HeapInv'
<1>0. HeapTypeOK /\ HeapShape
  BY DEF HeapInv
<1>1. ASSUME NEW address \in DOMAIN allocated \ {handle}, Free(address), UNCHANGED frameVars
      PROVE  HeapInv'
  <2>1. HeapTypeOK' /\ HeapShape'
    BY <1>0, <1>1, HeapTypesKept, FreeKeepsShape DEF HeapNext
  <2>2. FrameInv'
    BY <1>1 DEF HeapInv, FrameInv, FrameTypeOK, frameVars
  <2>3. /\ DOMAIN allocated' = DOMAIN allocated \ {address}
        /\ \A r \in DOMAIN allocated \ {address} : allocated'[r] = allocated[r]
    BY <1>1 DEF Free
  <2>4. QED
    BY <1>1, <2>1, <2>2, <2>3 DEF HeapInv, frameVars
<1>2. CASE Recreate /\ UNCHANGED frameVars
  <2>1. HeapTypeOK'
    BY <1>0, <1>2, HeapTypesKept DEF HeapNext
  <2>2. HeapShape'
    <3>1. /\ Header' = Header /\ free' = WholeHeap /\ DOMAIN allocated' = {}
          /\ UNCHANGED mirrored
      BY <1>2 DEF Recreate, Header, WholeHeap, NoAllocations
    <3>2. /\ Spaced(free', Start, End[mirrored], {})
          /\ \A g \in Int : Covers(free', g) <=> Start <= g /\ g < End[mirrored]
      BY <1>0, <3>1, WholeHeapSpaced
    <3>3. Spaced(free, Start, End[mirrored], {})'
      BY <3>1, <3>2 DEF Spaced
    <3>4. QED
      BY <3>1, <3>2, <3>3 DEF HeapShape
  <2>3. FrameInv'
    BY <1>2 DEF HeapInv, FrameInv, FrameTypeOK, frameVars
  <2>4. handle = 0
    BY <1>2 DEF HeapInv, Recreate, NoAllocations
  <2>5. QED
    BY <1>2, <2>1, <2>2, <2>3, <2>4 DEF HeapInv, frameVars
<1>3. ASSUME NEW address \in DOMAIN allocated, CreateFrameIn(address)
      PROVE  HeapInv'
  <2>1. address \in Nat /\ address + allocated[address].size \in Nat
    BY <1>0 DEF HeapTypeOK, Allocations
  <2>2. FrameInv'
    BY <1>3, <2>1, CreateFrameKeeps DEF CreateFrameIn, HeapInv
  <2>3. HeapTypeOK' /\ HeapShape'
    BY <1>0, <1>3 DEF CreateFrameIn, HeapTypeOK, HeapShape, Spaced, Header, heapVars
  <2>4. QED
    BY <1>3, <2>2, <2>3 DEF CreateFrameIn, CreateFrame, HeapInv, heapVars
<1>4. CASE FrameNext /\ UNCHANGED heapVars
  <2>1. FrameInv'
    BY <1>4, FrameStep DEF HeapInv
  <2>2. HeapTypeOK' /\ HeapShape'
    BY <1>0, <1>4 DEF HeapTypeOK, HeapShape, Spaced, Header, heapVars
  <2>3. handle' # 0 => handle' = handle /\ last' = last
    BY <1>4 DEF FrameNext, DestroyFrame, AllocateHead, AllocateTail
  <2>4. QED
    BY <1>4, <2>1, <2>2, <2>3 DEF HeapInv, heapVars
<1>5. CASE UNCHANGED heapsVars
  BY <1>5 DEF heapsVars, heapVars, frameVars, HeapInv, HeapTypeOK, HeapShape, Spaced, Header,
              FrameInv, FrameTypeOK
<1>6. QED
  BY <1>1, <1>2, <1>3, <1>4, <1>5, AllocateKeeps DEF HeapsNext

(* The invariant holds in every state any sequence of requests can reach. *)
THEOREM HeapsInvariant == HeapsSpec => []HeapInv
<1>1. HeapsInit => HeapInv
  <2> SUFFICES ASSUME HeapsInit PROVE HeapInv
    OBVIOUS
  <2>1. End[mirrored] - Start \in Nat \ {0} /\ mirrored \in BOOLEAN
    BY HeapHasRoom DEF HeapsInit, HeapInit
  <2>2. [address |-> Start, size |-> End[mirrored] - Start] \in FreeBlocks
    BY <2>1, HeapConstants DEF FreeBlocks
  <2>3. HeapTypeOK
    BY <2>1, <2>2 DEF HeapsInit, HeapInit, HeapTypeOK, NoAllocations
  <2>4. HeapShape
    <3>1. free = WholeHeap /\ DOMAIN allocated = {}
      BY DEF HeapsInit, HeapInit, WholeHeap, NoAllocations
    <3>2. QED
      BY <2>3, <3>1, WholeHeapSpaced DEF HeapShape
  <2> QED
    BY <2>3, <2>4 DEF HeapsInit, HeapInv, FrameInit, FrameInv, FrameTypeOK
<1> QED
  BY <1>1, HeapsStep, PTL DEF HeapsSpec

(* The types of both heaps. *)
THEOREM HeapsTypes == HeapsSpec => []HeapsTypeOK
BY HeapsInvariant, PTL DEF HeapInv, FrameInv, HeapsTypeOK

(* No two ranges handed out by a frame heap overlap, and none reaches its    *)
(* header, for every size of heap and every alignment.                       *)
THEOREM FrameHeapSafe == HeapsSpec => []FrameRangesApart
<1>1. HeapInv => FrameRangesApart
  BY FrameConstants DEF HeapInv, FrameInv, FrameTypeOK, FrameRangesApart, Within
<1> QED
  BY <1>1, HeapsInvariant, PTL

(* A frame heap stays inside the allocation it was made in.                  *)
THEOREM FramesStayInBlocks == HeapsSpec => []FrameInItsBlock
<1>1. HeapInv => FrameInItsBlock
  <2> SUFFICES ASSUME HeapInv, handle # 0
               PROVE  /\ handle \in DOMAIN allocated
                      /\ \A i \in DOMAIN lent : Within(lent[i], handle, handle + allocated[handle].size)
                      /\ head <= tail
    BY DEF FrameInItsBlock
  <2>1. handle \in DOMAIN allocated /\ last = handle + allocated[handle].size /\ head <= tail
    BY DEF HeapInv, FrameInv
  <2>2. ASSUME NEW i \in DOMAIN lent PROVE Within(lent[i], handle, last)
    <3>1. lent[i] \in Nat \X (Nat \ {0}) /\ handle \in Nat /\ head \in Nat /\ tail \in Nat
          /\ last \in Nat
      BY DEF HeapInv, FrameInv, FrameTypeOK
    <3>2. /\ Within(lent[i], handle + FrameHeader, head) \/ Within(lent[i], tail, last)
          /\ handle + FrameHeader <= head /\ head <= tail /\ tail <= last
      BY DEF HeapInv, FrameInv
    <3>3. QED
      BY <3>1, <3>2, FrameConstants DEF Within
  <2>3. QED
    BY <2>1, <2>2
<1>2. QED
  BY <1>1, HeapsInvariant, PTL

(* What the shape says of the grains. *)
LEMMA GrainsCovered ==
  ASSUME HeapTypeOK
  PROVE  /\ \A g : g \in FreeGrains <=> g \in Int /\ Covers(free, g)
         /\ \A r \in DOMAIN allocated : \A g : g \in Raw(r) <=> g \in Int /\ Holds(allocated[r], g)
         /\ \A i \in DOMAIN free : \A g :
              g \in Grains(free[i].address, free[i].size) <=> g \in Int /\ Inside(free[i], g)
<1>1. \A i \in DOMAIN free : /\ free[i].address \in Nat /\ free[i].size \in Nat \ {0}
                             /\ BlockEnd(free[i]) = free[i].address + free[i].size
  BY BlockTypes DEF HeapTypeOK
<1>2. \A i \in DOMAIN free : \A g :
        g \in Grains(free[i].address, free[i].size) <=> g \in Int /\ Inside(free[i], g)
  BY <1>1 DEF Grains, Inside
<1>3. \A g : g \in FreeGrains <=> g \in Int /\ Covers(free, g)
  BY <1>2 DEF FreeGrains, Covers
<1>4. ASSUME NEW r \in DOMAIN allocated, NEW g
      PROVE  g \in Raw(r) <=> g \in Int /\ Holds(allocated[r], g)
  BY AllocationTypes DEF Raw, Grains, Holds
<1>5. QED
  BY <1>2, <1>3, <1>4

(* No grain of a heap is ever lost or given twice, the free list is sorted   *)
(* and joined, and no header reaches another block.                          *)
THEOREM HeapAlwaysTiled == HeapsSpec => []HeapStructure
<1>1. HeapInv => HeapStructure
  <2> SUFFICES ASSUME HeapInv PROVE HeapStructure
    OBVIOUS
  <2>0. HeapTypeOK /\ HeapShape
    BY DEF HeapInv
  <2>1. /\ Start \in Nat /\ End[mirrored] \in Nat /\ Header \in Nat
        /\ Len(free) \in Nat /\ DOMAIN free = 1..Len(free)
        /\ \A i \in DOMAIN free : free[i].address \in Nat /\ BlockEnd(free[i]) \in Nat
                                  /\ free[i].size \in Nat
    BY <2>0, EndTypes, BlockTypes DEF HeapTypeOK
  <2>2. /\ \A i \in DOMAIN free : free[i].size > Header
        /\ \A i, j \in DOMAIN free : i < j => BlockEnd(free[i]) < free[j].address
    BY <2>0 DEF HeapShape, Spaced
  <2>3. FreeListJoined
    BY <2>1, <2>2 DEF FreeListJoined
  <2>4. HeadersInBlocks
    <3>1. ASSUME NEW r \in DOMAIN allocated
          PROVE  Grains(r - Header, Header + allocated[r].size) \subseteq Raw(r)
      <4>1. /\ allocated[r].raw \in Nat /\ allocated[r].rawSize \in Nat \ {0}
            /\ allocated[r].size \in Nat \ {0} /\ r \in Nat
        BY <2>0, AllocationTypes
      <4>2. /\ allocated[r].raw + Header <= r
            /\ r + allocated[r].size <= allocated[r].raw + allocated[r].rawSize
        BY <2>0 DEF HeapShape
      <4>3. ASSUME NEW g \in Grains(r - Header, Header + allocated[r].size)
            PROVE  g \in Raw(r)
        <5>1. g \in Int /\ r - Header <= g /\ g <= r + allocated[r].size - 1
          BY <2>1, <4>1 DEF Grains
        <5>0. Header \in Nat
          BY <2>1
        <5>2. allocated[r].raw <= g /\ g <= allocated[r].raw + allocated[r].rawSize - 1
          BY ONLY <4>1, <4>2, <5>0, <5>1
        <5>3. QED
          BY <4>1, <5>1, <5>2 DEF Raw, Grains
      <4>4. QED
        BY <4>3
    <3>2. QED
      BY <2>2, <3>1 DEF HeadersInBlocks
  <2>5. FreeGrains \cup UNION {Raw(r) : r \in DOMAIN allocated} = Start..(End[mirrored] - 1)
    <3>1. ASSUME NEW g
          PROVE  g \in FreeGrains \cup UNION {Raw(r) : r \in DOMAIN allocated}
                 <=> g \in Start..(End[mirrored] - 1)
      <4>1. g \in FreeGrains \cup UNION {Raw(r) : r \in DOMAIN allocated}
            <=> g \in Int /\ (Covers(free, g) \/ \E r \in DOMAIN allocated : Holds(allocated[r], g))
        BY <2>0, GrainsCovered
      <4>2. g \in Int =>
              (Start <= g /\ g < End[mirrored]
               <=> Covers(free, g) \/ \E r \in DOMAIN allocated : Holds(allocated[r], g))
        BY <2>0 DEF HeapShape
      <4>3. g \in Start..(End[mirrored] - 1) <=> g \in Int /\ Start <= g /\ g < End[mirrored]
        BY <2>1
      <4>4. QED
        BY <4>1, <4>2, <4>3, Zenon
    <3>2. QED
      BY <3>1
  <2>6. ASSUME NEW i \in DOMAIN free, NEW j \in DOMAIN free, i # j
        PROVE  Grains(free[i].address, free[i].size) \cap Grains(free[j].address, free[j].size) = {}
    <3>1. i < j \/ j < i
      BY <2>1, <2>6
    <3>2. \A g \in Int : ~(Inside(free[i], g) /\ Inside(free[j], g))
      BY <2>1, <2>2, <3>1 DEF Inside
    <3>3. QED
      BY <2>0, <3>2, GrainsCovered
  <2>7. \A r, s \in DOMAIN allocated : r # s => Raw(r) \cap Raw(s) = {}
    BY <2>0, GrainsCovered DEF HeapShape
  <2>8. \A r \in DOMAIN allocated : Raw(r) \cap FreeGrains = {}
    BY <2>0, GrainsCovered DEF HeapShape
  <2>9. Tiled
    BY <2>5, <2>6, <2>7, <2>8 DEF Tiled
  <2>10. QED
    BY <2>3, <2>4, <2>9 DEF HeapStructure
<1>2. QED
  BY <1>1, HeapsInvariant, PTL

-----------------------------------------------------------------------------
(* The room that is there is found.                                          *)

(* Of two multiples of m, one less than m above the other is not above it.   *)
LEMMA MultiplesApart ==
  ASSUME NEW m \in Nat \ {0}, NEW p \in Nat, NEW q \in Nat, m * p < m * q + m
  PROVE  m * p <= m * q
<1>1. m * q + m = m * (q + 1)
  OBVIOUS
<1>2. CASE p <= q
  <2>1. m * p <= m * q
    BY <1>2
  <2>2. QED
    BY <2>1
<1>3. CASE p >= q + 1
  <2>1. m * p >= m * (q + 1)
    BY <1>3
  <2>2. m * p \in Nat /\ m * (q + 1) \in Nat
    OBVIOUS
  <2>3. QED
    BY ONLY <1>1, <2>1, <2>2, m * p < m * q + m
<1>4. QED
  BY <1>2, <1>3

(* A number is its quotient times m and its remainder.                       *)
LEMMA Quotient ==
  ASSUME NEW v \in Nat, NEW m \in Nat \ {0}
  PROVE  /\ v \div m \in Nat /\ v % m \in 0..(m - 1)
         /\ m * (v \div m) + (v % m) = v
<1>1. v \div m \in Nat /\ v % m \in 0..(m - 1)
  OBVIOUS
<1>2. m * (v \div m) + (v % m) = v
  BY Z3
<1>3. QED
  BY <1>1, <1>2, Zenon

(* A rounded number is a multiple, and rounding again leaves it.             *)
LEMMA MultipleOf ==
  ASSUME NEW q \in Nat, NEW m \in Nat \ {0}
  PROVE  (m * q) % m = 0
BY Z3

(* Rounding down gives the greatest multiple that is not above a number, and *)
(* rounding up the least that is not below it.                               *)
LEMMA RoundingIsTight ==
  ASSUME NEW v \in Nat, NEW m \in Nat \ {0}, NEW r \in Nat, r % m = 0
  PROVE  /\ r <= v => r <= AlignDown(v, m)
         /\ r >= v => r >= AlignUp(v, m)
         /\ AlignDown(v, m) % m = 0
         /\ AlignUp(v, m) % m = 0
<1> DEFINE w == v + m - 1
<1>0. w \in Nat /\ w = v + m - 1
  OBVIOUS
<1>1. AlignDown(v, m) = v - (v % m) /\ AlignUp(v, m) = w - (w % m)
  BY DEF AlignDown, AlignUp
<1> HIDE DEF w
<1> DEFINE p == r \div m
           q == v \div m
           s == w \div m
           below == v % m
           above == w % m
<1>2. p \in Nat /\ m * p + (r % m) = r
  BY Quotient
<1>3. q \in Nat /\ below \in 0..(m - 1) /\ m * q + below = v
  BY Quotient
<1>4. s \in Nat /\ above \in 0..(m - 1) /\ m * s + above = w
  BY <1>0, Quotient
<1>5. AlignDown(v, m) = v - below /\ AlignUp(v, m) = w - above
  BY <1>1
<1> HIDE DEF p, q, s, below, above
<1> DEFINE mp == m * p
           mq == m * q
           ms == m * s
<1>6. mp \in Nat /\ mq \in Nat /\ ms \in Nat
  BY <1>2, <1>3, <1>4
<1>7. mp % m = 0 /\ mq % m = 0 /\ ms % m = 0
  BY <1>2, <1>3, <1>4, MultipleOf
<1>8. /\ mp < mq + m => mp <= mq
      /\ ms < mp + m => ms <= mp
  BY <1>2, <1>3, <1>4, MultiplesApart
<1>9. r = mp /\ v = mq + below /\ w = ms + above
  <2>1. mp + (r % m) = r /\ mq + below = v /\ ms + above = w
    BY <1>2, <1>3, <1>4
  <2> HIDE DEF mp, mq, ms
  <2>2. mp + 0 = r
    BY <2>1
  <2>3. QED
    BY <1>6, <2>1, <2>2
<1> HIDE DEF mp, mq, ms
<1>10. AlignDown(v, m) = mq /\ AlignUp(v, m) = ms
  BY <1>3, <1>4, <1>5, <1>6, <1>9
<1>11. r <= v => r <= mq
  BY <1>3, <1>6, <1>8, <1>9
<1>12. r >= v => r >= ms
  BY <1>0, <1>4, <1>6, <1>8, <1>9
<1>13. QED
  BY <1>7, <1>10, <1>11, <1>12

(* A set of numbers under a bound has a maximum.                             *)
LEMMA MaxIsThere ==
  ASSUME NEW T \in SUBSET Int, T # {}, NEW bound \in Int, \A x \in T : x <= bound
  PROVE  Max(T) \in T /\ \A x \in T : Max(T) >= x
<1> DEFINE Less == {p \in Nat \X Nat : p[1] < p[2]}
           D == {n \in Nat : bound - n \in T}
<1>1. IsWellFoundedOn(Less, Nat)
  <2>1. OpToRel(<, Nat) = Less
    BY DEF OpToRel
  <2>2. QED
    BY <2>1, NatLessThanWellFounded
<1>2. D \subseteq Nat /\ D # {}
  <2>1. PICK x \in T : TRUE
    OBVIOUS
  <2>2. bound - x \in Nat /\ bound - (bound - x) = x
    BY <2>1
  <2>3. QED
    BY <2>1, <2>2
<1>3. PICK n \in D : \A k \in D : ~ (<<k, n>> \in Less)
  <2> HIDE DEF Less, D
  <2>1. QED
    BY <1>1, <1>2, WFMin
<1>4. ASSUME NEW k \in D PROVE n <= k
  <2>1. k \in Nat /\ n \in Nat
    BY <1>2
  <2>2. ~(k < n)
    BY <1>3, <2>1
  <2>3. QED
    BY ONLY <2>1, <2>2
<1>5. bound - n \in T /\ \A x \in T : bound - n >= x
  <2>1. ASSUME NEW x \in T PROVE bound - n >= x
    <3>1. x \in Int /\ bound - x \in Nat /\ bound - (bound - x) = x
      OBVIOUS
    <3>2. bound - x \in D
      BY <3>1
    <3>3. n <= bound - x /\ n \in Nat
      BY <1>4, <3>2
    <3>4. QED
      BY <3>1, <3>3
  <2>2. QED
    BY <2>1
<1>6. QED
  BY <1>5 DEF Max

(* A range of free grains lies in one block, because two free blocks never   *)
(* touch.                                                                    *)
LEMMA FreeRangeInOneBlock ==
  ASSUME HeapTypeOK, HeapShape, NEW first \in Int, NEW n \in Nat \ {0},
         Grains(first, n) \subseteq FreeGrains
  PROVE  \E i \in DOMAIN free : free[i].address <= first /\ first + n <= BlockEnd(free[i])
<1>1. /\ Len(free) \in Nat /\ DOMAIN free = 1..Len(free)
      /\ \A i \in DOMAIN free : free[i].address \in Nat /\ BlockEnd(free[i]) \in Nat
                                /\ free[i].size \in Nat \ {0}
                                /\ BlockEnd(free[i]) = free[i].address + free[i].size
  BY BlockTypes DEF HeapTypeOK
<1>2. \A i, j \in DOMAIN free : i < j => BlockEnd(free[i]) < free[j].address
  BY DEF HeapShape, Spaced
<1>3. \A g : g \in FreeGrains => g \in Int /\ \E i \in DOMAIN free : Inside(free[i], g)
  BY GrainsCovered DEF Covers
<1>4. \A g \in Int : first <= g /\ g < first + n => g \in FreeGrains
  BY DEF Grains
<1>5. PICK i \in DOMAIN free : Inside(free[i], first)
  <2>1. first \in FreeGrains
    BY <1>4
  <2>2. QED
    BY <1>3, <2>1
<1>6. free[i].address <= first /\ first < BlockEnd(free[i])
  BY <1>5 DEF Inside
<1> DEFINE end == BlockEnd(free[i])
<1>7. end \in Nat /\ free[i].address < end
  BY <1>1
<1>8. ASSUME ~(first + n <= end) PROVE FALSE
  <2>1. end \in FreeGrains
    BY <1>4, <1>6, <1>7, <1>8
  <2>2. PICK j \in DOMAIN free : Inside(free[j], end)
    BY <1>3, <2>1
  <2>3. free[j].address <= end /\ end < BlockEnd(free[j])
    BY <2>2 DEF Inside
  <2>4. CASE i < j
    <3>1. end < free[j].address
      BY <1>2, <2>4
    <3>2. free[j].address \in Nat
      BY <1>1
    <3> HIDE DEF end
    <3>3. QED
      BY <1>7, <2>3, <3>1, <3>2
  <2>5. CASE j < i
    <3>1. BlockEnd(free[j]) < free[i].address
      BY <1>2, <2>5
    <3>2. BlockEnd(free[j]) \in Nat /\ free[i].address \in Nat
      BY <1>1
    <3> HIDE DEF end
    <3>3. QED
      BY <1>7, <2>3, <3>1, <3>2
  <2>6. CASE i = j
    BY <1>7, <2>3, <2>6
  <2>7. QED
    BY <1>1, <2>4, <2>5, <2>6
<1>9. QED
  BY <1>6, <1>8


(* What a request for n grains asks of a block.                              *)
LEMMA AlignmentTypes ==
  ASSUME NEW alignment \in Alignments
  PROVE  alignment \in Int /\ alignment # 0 /\ Magnitude(alignment) \in Nat \ {0}
BY HeapConstants DEF Magnitude

(* A place for a request inside a free block is enough for the block to fit: *)
(* the place the code computes from either side of it is at least as good.   *)
LEMMA PlaceFits ==
  ASSUME HeapTypeOK, HeapShape, NEW i \in DOMAIN free, NEW n \in Nat \ {0},
         NEW alignment \in Alignments, NEW r \in Nat, r % Magnitude(alignment) = 0,
         free[i].address + Header <= r, r + n <= BlockEnd(free[i])
  PROVE  Fits(free[i], n, alignment)
<1> DEFINE b == free[i]
           m == Magnitude(alignment)
           front == b.address + Header
           back == BlockEnd(b) - n
<1>1. /\ b.address \in Nat /\ BlockEnd(b) \in Nat /\ b.size \in Nat \ {0} /\ Header \in Nat
      /\ BlockEnd(b) = b.address + b.size
  BY BlockTypes, HeaderType DEF HeapTypeOK
<1>2. m \in Nat \ {0}
  BY AlignmentTypes
<1>3. front \in Nat /\ front <= r
  BY <1>1
<1>4. back \in Nat /\ r <= back
  BY <1>1
<1>5. b.size > Header /\ n <= b.size - Header
  BY <1>1, <1>3
<1>6. FirstResult(b, m) = AlignUp(front, m) /\ LastResult(b, n, m) = AlignDown(back, m)
  BY DEF FirstResult, LastResult
<1>7. r % m = 0
  OBVIOUS
<1> HIDE DEF m, front, back
<1>8. AlignUp(front, m) <= r /\ AlignUp(front, m) \in Nat
  BY <1>2, <1>3, <1>7, RoundingIsTight, HeapRounding
<1>9. r <= AlignDown(back, m) /\ AlignDown(back, m) \in Nat
  BY <1>2, <1>4, <1>7, RoundingIsTight, HeapRounding
<1>10. AlignUp(front, m) + n <= BlockEnd(b)
  BY <1>1, <1>8
<1>11. AlignDown(back, m) >= b.address + Header
  BY <1>1, <1>3, <1>9 DEF front
<1>12. QED
  BY <1>5, <1>6, <1>10, <1>11 DEF Fits, m

(* A block that fits has such a place: the one the code computes.            *)
LEMMA FittingHasPlace ==
  ASSUME HeapTypeOK, NEW i \in DOMAIN free, NEW n \in Nat \ {0}, NEW alignment \in Alignments,
         Fits(free[i], n, alignment)
  PROVE  /\ free[i].size > Header
         /\ \E r \in Nat : /\ r % Magnitude(alignment) = 0
                           /\ free[i].address + Header <= r
                           /\ r + n <= BlockEnd(free[i])
<1> DEFINE b == free[i]
           m == Magnitude(alignment)
           front == b.address + Header
           back == BlockEnd(b) - n
<1>1. /\ b.address \in Nat /\ BlockEnd(b) \in Nat /\ b.size \in Nat \ {0} /\ Header \in Nat
      /\ BlockEnd(b) = b.address + b.size
  BY BlockTypes, HeaderType DEF HeapTypeOK
<1>2. m \in Nat \ {0} /\ alignment \in Int
  BY AlignmentTypes
<1>3. front \in Nat
  BY <1>1
<1>4. FirstResult(b, m) = AlignUp(front, m) /\ LastResult(b, n, m) = AlignDown(back, m)
  BY DEF FirstResult, LastResult
<1>5. b.size > Header
  BY DEF Fits
<1>6. CASE alignment > 0
  <2>1. AlignUp(front, m) + n <= BlockEnd(b)
    BY <1>4, <1>6 DEF Fits
  <2> HIDE DEF m, front
  <2>2. AlignUp(front, m) \in Nat /\ AlignUp(front, m) >= front /\ AlignUp(front, m) % m = 0
    <3>1. 0 % m = 0
      BY <1>2
    <3>2. QED
      BY <1>2, <1>3, <3>1, RoundingIsTight, HeapRounding
  <2>3. QED
    BY <1>5, <2>1, <2>2 DEF m, front
<1>7. CASE ~(alignment > 0)
  <2>1. n <= b.size - Header /\ AlignDown(back, m) >= front
    BY <1>4, <1>7 DEF Fits
  <2>2. back \in Nat
    BY <1>1, <2>1
  <2>3. back + n = BlockEnd(b)
    BY <1>1
  <2> HIDE DEF m, front, back
  <2>4. AlignDown(back, m) \in Nat /\ AlignDown(back, m) <= back /\ AlignDown(back, m) % m = 0
    <3>1. 0 % m = 0
      BY <1>2
    <3>2. QED
      BY <1>2, <2>2, <3>1, RoundingIsTight, HeapRounding
  <2>5. AlignDown(back, m) + n <= BlockEnd(b)
    BY <1>1, <2>2, <2>3, <2>4
  <2>6. QED
    BY <1>5, <2>1, <2>4, <2>5 DEF m, front
<1>8. QED
  BY <1>6, <1>7

(* The guest is refused only what no place in the heap could hold.           *)
LEMMA NothingHidden ==
  ASSUME HeapTypeOK, HeapShape
  PROVE  NoFalseExhaustion
<1> SUFFICES ASSUME NEW size \in Sizes \ {0}, NEW alignment \in Alignments,
                    Fitting(size, alignment) = {}, NEW r \in FreeGrains,
                    r % Magnitude(alignment) = 0,
                    Grains(r - Header, Header + size) \subseteq FreeGrains
             PROVE  FALSE
  BY Zenon DEF NoFalseExhaustion
<1>1. size \in Nat \ {0} /\ Header \in Nat
  BY HeapConstants, HeaderType DEF HeapTypeOK
<1>2. PICK j \in DOMAIN free : r \in Grains(free[j].address, free[j].size)
  BY DEF FreeGrains
<1>3. r \in Nat
  <2>1. free[j].address \in Nat
    BY BlockTypes DEF HeapTypeOK
  <2>2. QED
    BY <1>2, <2>1 DEF Grains
<1> DEFINE first == r - Header
           n == Header + size
<1>4. first \in Int /\ n \in Nat \ {0} /\ Grains(first, n) \subseteq FreeGrains
  BY <1>1, <1>3
<1>5. first + Header = r /\ first + n = r + size
  BY <1>1, <1>3
<1> HIDE DEF first, n
<1>6. PICK i \in DOMAIN free : free[i].address <= first /\ first + n <= BlockEnd(free[i])
  BY <1>4, FreeRangeInOneBlock
<1>7. free[i].address + Header <= r /\ r + size <= BlockEnd(free[i])
  <2>1. free[i].address \in Nat
    BY BlockTypes DEF HeapTypeOK
  <2>2. free[i].address + Header <= first + Header
    BY ONLY <1>1, <1>4, <1>6, <2>1
  <2>3. QED
    BY <1>5, <1>6, <2>2
<1>8. Fits(free[i], size, alignment)
  BY <1>1, <1>3, <1>7, PlaceFits
<1>9. QED
  BY <1>8 DEF Fitting

(* expanded_allocatable's answer can be allocated, from either side, and one *)
(* grain more cannot.                                                        *)
LEMMA AnswerIsExact ==
  ASSUME HeapTypeOK, HeapShape
  PROVE  AllocatableIsPromise
<1> SUFFICES ASSUME NEW alignment \in Alignments
             PROVE  /\ Allocatable(alignment) > 0 =>
                         Fitting(Allocatable(alignment), alignment) # {}
                    /\ Fitting(Allocatable(alignment) + 1, alignment) = {}
  BY Zenon DEF AllocatableIsPromise
<1> DEFINE m == Magnitude(alignment)
           At(i) == FirstResult(free[i], m)
           Room(i) == BlockEnd(free[i]) - At(i)
           Wide == {j \in DOMAIN free : free[j].size > Header}
           Rooms == {0} \cup {Room(i) : i \in Wide}
           n == Allocatable(alignment)
<1>1. \A i \in DOMAIN free :
        /\ free[i].address \in Nat /\ BlockEnd(free[i]) \in Nat /\ Header \in Nat
        /\ BlockEnd(free[i]) <= End[mirrored]
  BY BlockTypes, HeaderType DEF HeapTypeOK, HeapShape, Spaced
<1>2. m \in Nat \ {0} /\ End[mirrored] \in Nat
  BY AlignmentTypes, EndTypes
<1>3. ASSUME NEW i \in DOMAIN free
      PROVE  At(i) \in Nat /\ At(i) >= free[i].address + Header /\ At(i) % m = 0
  <2> DEFINE front == free[i].address + Header
  <2>1. front \in Nat
    BY <1>1
  <2>2. At(i) = AlignUp(front, m)
    BY DEF FirstResult
  <2>3. 0 % m = 0
    BY <1>2
  <2> HIDE DEF front, m, At
  <2>4. AlignUp(front, m) \in Nat /\ AlignUp(front, m) >= front /\ AlignUp(front, m) % m = 0
    BY <1>2, <2>1, <2>3, RoundingIsTight, HeapRounding
  <2>5. QED
    BY <2>2, <2>4 DEF front
<1> HIDE DEF At
<1>4. n = Max(Rooms)
  BY DEF Allocatable, At
<1>5. Rooms \in SUBSET Int /\ Rooms # {} /\ \A x \in Rooms : x <= End[mirrored]
  BY <1>1, <1>2, <1>3
<1>6. n \in Rooms /\ \A x \in Rooms : n >= x
  <2> DEFINE bound == End[mirrored]
  <2>0. Rooms \in SUBSET Int /\ Rooms # {} /\ bound \in Int /\ \A x \in Rooms : x <= bound
    BY <1>2, <1>5
  <2> HIDE DEF Rooms, n, bound
  <2>1. Max(Rooms) \in Rooms /\ \A x \in Rooms : Max(Rooms) >= x
    BY ONLY <2>0, MaxIsThere
  <2>2. QED
    BY <1>4, <2>1
<1>7. n \in Nat /\ \A i \in Wide : n >= Room(i)
  <2>1. 0 \in Rooms /\ \A i \in Wide : Room(i) \in Rooms
    OBVIOUS
  <2> HIDE DEF Rooms, n
  <2>2. n \in Int /\ n >= 0
    BY <1>5, <1>6, <2>1
  <2>3. n \in Nat
    BY ONLY <2>2
  <2>4. ASSUME NEW i \in Wide PROVE n >= Room(i)
    BY <1>6, <2>1, Zenon
  <2>5. QED
    BY <2>3, <2>4, Zenon
<1> HIDE DEF n
<1>8. ASSUME n > 0 PROVE Fitting(n, alignment) # {}
  <2>1. PICK i \in Wide : n = Room(i)
    BY <1>6, <1>8
  <2>2. At(i) + n = BlockEnd(free[i])
    BY <1>1, <1>3, <2>1
  <2>3. /\ At(i) \in Nat /\ At(i) % Magnitude(alignment) = 0
        /\ free[i].address + Header <= At(i) /\ At(i) + n <= BlockEnd(free[i])
        /\ n \in Nat \ {0}
    BY <1>1, <1>3, <1>7, <1>8, <2>2
  <2>4. Fits(free[i], n, alignment)
    BY <2>3, PlaceFits
  <2>5. QED
    BY <2>4 DEF Fitting
<1>9. ASSUME NEW i \in DOMAIN free, Fits(free[i], n + 1, alignment) PROVE FALSE
  <2> DEFINE k == n + 1
  <2>1. k \in Nat \ {0} /\ Fits(free[i], k, alignment) /\ k = n + 1
    BY <1>7, <1>9
  <2> HIDE DEF k
  <2>2. free[i].size > Header
    BY <2>1, FittingHasPlace
  <2>3. PICK r \in Nat : /\ r % Magnitude(alignment) = 0
                         /\ free[i].address + Header <= r
                         /\ r + k <= BlockEnd(free[i])
    BY <2>1, FittingHasPlace
  <2> DEFINE front == free[i].address + Header
  <2>4. front \in Nat /\ At(i) = AlignUp(front, m)
    BY <1>1 DEF FirstResult, At
  <2>5. r % m = 0 /\ r >= front
    BY <1>1, <2>3, <2>4
  <2> HIDE DEF front, m
  <2>6. r >= AlignUp(front, m)
    BY <1>2, <2>4, <2>5, RoundingIsTight
  <2>7. n >= Room(i)
    BY <1>7, <2>2
  <2>8. QED
    BY <1>1, <1>3, <1>7, <2>1, <2>3, <2>4, <2>6, <2>7
<1>10. QED
  BY <1>8, <1>9 DEF Fitting, n

(* A request is refused only when no place in the heap could hold it, and    *)
(* the size the guest is told it can have is exactly the largest it gets.    *)
THEOREM RoomAlwaysFound == HeapsSpec => []RoomIsFound
<1>1. HeapInv => RoomIsFound
  BY NothingHidden, AnswerIsExact DEF HeapInv, RoomIsFound
<1>2. QED
  BY <1>1, HeapsInvariant, PTL
=============================================================================
