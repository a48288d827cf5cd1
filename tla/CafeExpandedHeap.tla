-------------------------- MODULE CafeExpandedHeap --------------------------
(***************************************************************************)
(* An expanded heap of CafeCoreinit (cafe_coreinit.cpp): first fit from    *)
(* either end, blocks split on allocation and joined on release. Addresses *)
(* and sizes are counted in grains: four bytes in a heap the guest made,   *)
(* whose block headers are mirrored into guest memory, and one byte in     *)
(* MEM2, whose are not.                                                    *)
(***************************************************************************)
EXTENDS Integers, Sequences, FiniteSets, FiniteSetsExt

CONSTANTS
  Start,       (* ExpandedHeap::start                                         *)
  End,         (* ExpandedHeap::end, for a mirrored heap and for one that is not *)
  BlockSize,   (* kExpandedBlockSize                                          *)
  Sizes,       (* the sizes the guest asks for                                *)
  Alignments   (* the alignments it asks for, from the end when negative    *)

ASSUME HeapConstants ==
  /\ Start \in Nat \ {0} /\ BlockSize \in Nat \ {0}
  /\ End \in [BOOLEAN -> Nat]
  /\ End[TRUE] > Start + BlockSize /\ End[FALSE] > Start
  /\ Sizes \subseteq Nat
  /\ Alignments \subseteq Int \ {0}

VARIABLES
  mirrored,   (* mirror_blocks: fixed when the heap is made                   *)
  free,       (* ExpandedHeap::free, the vector of free blocks                *)
  allocated   (* ExpandedHeap::allocated, by the address the guest was given  *)

heapVars == <<mirrored, free, allocated>>

NoAllocations == [r \in {} |-> 0]
FreeBlocks == [address : Nat, size : Nat \ {0}]
Allocations == [raw : Nat, rawSize : Nat \ {0}, size : Nat \ {0}, fromEnd : BOOLEAN]

HeapTypeOK ==
  /\ mirrored \in BOOLEAN
  /\ free \in Seq(FreeBlocks)
  /\ DOMAIN allocated \subseteq Nat
  /\ \A r \in DOMAIN allocated : allocated[r] \in Allocations

(* create_expanded_heap, or the constructor for MEM2. *)
HeapInit ==
  /\ mirrored \in BOOLEAN
  /\ free = <<[address |-> Start, size |-> End[mirrored] - Start]>>
  /\ allocated = NoAllocations

-----------------------------------------------------------------------------
Magnitude(alignment) == IF alignment < 0 THEN -alignment ELSE alignment
AlignDown(value, m) == value - (value % m)
AlignUp(value, m) == AlignDown(value + m - 1, m)

Header == IF mirrored THEN BlockSize ELSE 0

SplitAnything == 1  \* mutant: a rest too small for a header is split off

MinimumSplit == IF mirrored THEN BlockSize + 1 ELSE 1
RoundedSize(size) == IF mirrored /\ size = 0 THEN 1 ELSE size

BlockEnd(b) == b.address + b.size

(* Where an allocation from the beginning of block b would lie. *)
FirstResult(b, m) == AlignUp(b.address + Header, m)

(* Where one from its end would. *)
LastResult(b, size, m) == AlignDown(BlockEnd(b) - size, m)

Fits(b, size, alignment) ==
  LET m == Magnitude(alignment)
  IN  /\ b.size > Header
      /\ IF alignment > 0
         THEN FirstResult(b, m) + size <= BlockEnd(b)
         ELSE /\ size <= b.size - Header
              /\ LastResult(b, size, m) >= b.address + Header

Fitting(size, alignment) == {i \in DOMAIN free : Fits(free[i], size, alignment)}

(* The first block that fits, seen from the side the guest asks for. *)
IsChosen(i, size, alignment) ==
  /\ i \in Fitting(size, alignment)
  /\ \A j \in Fitting(size, alignment) : IF alignment > 0 THEN i <= j ELSE i >= j

(* A rest that could not hold a block of its own stays with the allocation.  *)
RawStart(b, first) == IF first - b.address < MinimumSplit THEN b.address ELSE first
RawEnd(b, last) == IF BlockEnd(b) - last < MinimumSplit THEN BlockEnd(b) ELSE last

Piece(first, last) ==
  IF first < last THEN <<[address |-> first, size |-> last - first]>> ELSE <<>>

(* Block i of the list is used for n grains at result. *)
Carve(i, n, result, fromEnd) ==
  LET b == free[i]
      first == RawStart(b, result - Header)
      last == RawEnd(b, result + n)
  IN  /\ free' = SubSeq(free, 1, i - 1) \o Piece(b.address, first)
                   \o Piece(last, BlockEnd(b)) \o SubSeq(free, i + 1, Len(free))
      /\ allocated' = [r \in DOMAIN allocated \cup {result} |->
                         IF r = result
                         THEN [raw |-> first, rawSize |-> last - first,
                               size |-> last - result, fromEnd |-> fromEnd]
                         ELSE allocated[r]]

(* allocate_expanded where some block fits. *)
Allocate(size, alignment) ==
  LET n == RoundedSize(size)
      m == Magnitude(alignment)
  IN  /\ n > 0
      /\ \E i \in DOMAIN free :
           /\ IsChosen(i, n, alignment)
           /\ IF alignment > 0
              THEN Carve(i, n, FirstResult(free[i], m), FALSE)
              ELSE Carve(i, n, LastResult(free[i], n, m), TRUE)
      /\ UNCHANGED mirrored

JoinNothing(blocks, i) == blocks  \* mutant: neighbours are not joined

(* Blocks i and i + 1 of a list become one if they touch. *)
Join(blocks, i) ==
  IF i \in 1..(Len(blocks) - 1) /\ BlockEnd(blocks[i]) = blocks[i + 1].address
  THEN SubSeq(blocks, 1, i - 1)
         \o <<[address |-> blocks[i].address, size |-> blocks[i].size + blocks[i + 1].size]>>
         \o SubSeq(blocks, i + 2, Len(blocks))
  ELSE blocks

(* mutant: what goes back is what the guest asked for, without the header    *)
(* and the rests                                                             *)
ReleasedPayload(address) ==
  [address |-> address, size |-> allocated[address].size]

Released(address) ==
  [address |-> allocated[address].raw, size |-> allocated[address].rawSize]

(* Where lower_bound puts an address in the list. *)
IsPosition(i, address) ==
  /\ \A j \in 1..(i - 1) : free[j].address < address
  /\ \A j \in i..Len(free) : free[j].address >= address

(* free_expanded. An address that was not allocated faults the guest. *)
Free(address) ==
  LET b == Released(address)
  IN  /\ address \in DOMAIN allocated
      /\ \E i \in 1..(Len(free) + 1) :
           LET inserted == SubSeq(free, 1, i - 1) \o <<b>> \o SubSeq(free, i, Len(free))
               joined == Join(inserted, i - 1)
           IN  /\ IsPosition(i, b.address)
               /\ free' = Join(joined, IF joined = inserted THEN i ELSE i - 1)
      /\ allocated' = [r \in DOMAIN allocated \ {address} |-> allocated[r]]
      /\ UNCHANGED mirrored

(* destroy_expanded_heap, which faults on live allocations, and a new heap   *)
(* made in the same place.                                                   *)
Recreate ==
  /\ mirrored
  /\ allocated = NoAllocations
  /\ free' = <<[address |-> Start, size |-> End[mirrored] - Start]>>
  /\ UNCHANGED <<mirrored, allocated>>

(* mutant: the header is not taken off *)
AllocatableWithHeader(alignment) ==
  Max({0} \cup {BlockEnd(free[i]) - AlignUp(free[i].address, Magnitude(alignment)) :
                i \in DOMAIN free})

(* expanded_allocatable. *)
Allocatable(alignment) ==
  Max({0} \cup {BlockEnd(free[i]) - FirstResult(free[i], Magnitude(alignment)) :
                i \in {j \in DOMAIN free : free[j].size > Header}})

(* expanded_total_free. *)
TotalFree == MapThenSumSet(LAMBDA i : Max({0, free[i].size - Header}), DOMAIN free)

HeapNext ==
  \/ \E size \in Sizes, alignment \in Alignments : Allocate(size, alignment)
  \/ \E address \in DOMAIN allocated : Free(address)
  \/ Recreate

-----------------------------------------------------------------------------
Grains(first, size) == first..(first + size - 1)
Raw(r) == Grains(allocated[r].raw, allocated[r].rawSize)
Payload(r) == Grains(r, allocated[r].size)
FreeGrains == UNION {Grains(free[i].address, free[i].size) : i \in DOMAIN free}

(* Whatever the guest allocates and frees, every grain of the heap is in     *)
(* exactly one block, free or allocated: none is lost and none given twice.  *)
Tiled ==
  /\ FreeGrains \cup UNION {Raw(r) : r \in DOMAIN allocated} = Start..(End[mirrored] - 1)
  /\ \A i, j \in DOMAIN free : i # j =>
       Grains(free[i].address, free[i].size) \cap Grains(free[j].address, free[j].size) = {}
  /\ \A r, s \in DOMAIN allocated : r # s => Raw(r) \cap Raw(s) = {}
  /\ \A r \in DOMAIN allocated : Raw(r) \cap FreeGrains = {}

(* The free list is sorted and no two free blocks touch: free_expanded's     *)
(* binary search and its joins rely on the one, and the other is what it is  *)
(* for ("expanded free coalesces", cafe_heap_test.cpp:108).                  *)
FreeListJoined ==
  \A i \in 1..(Len(free) - 1) : BlockEnd(free[i]) < free[i + 1].address

(* mirror_expanded writes a header at the front of every free block and      *)
(* before every allocation. None of them reaches the bytes of an allocation  *)
(* or another header.                                                        *)
HeadersInBlocks ==
  /\ \A i \in DOMAIN free : free[i].size > Header
  /\ \A r \in DOMAIN allocated :
       Grains(r - Header, Header + allocated[r].size) \subseteq Raw(r)

(* The three together are what every later allocation relies on.             *)
HeapStructure == Tiled /\ FreeListJoined /\ HeadersInBlocks

(* The guest is refused only what no place in the heap could hold: the       *)
(* split rests, the two search orders and the joins never hide room.         *)
NoFalseExhaustion ==
  LET room == FreeGrains
  IN  \A size \in Sizes \ {0}, alignment \in Alignments :
        Fitting(size, alignment) = {} =>
          ~\E r \in room : /\ r % Magnitude(alignment) = 0
                          /\ Grains(r - Header, Header + size) \subseteq room

(* "MEMGetAllocatableSizeForExpHeapEx": a guest that asks for the size and   *)
(* then for a block of it, from either side, gets the block, and one grain   *)
(* more would be refused.                                                    *)
AllocatableIsPromise ==
  \A alignment \in Alignments :
    LET n == Allocatable(alignment)
    IN  /\ n > 0 => Fitting(n, alignment) # {}
        /\ Fitting(n + 1, alignment) = {}

(* Room that is there is found, and its size is told truly.                  *)
RoomIsFound == NoFalseExhaustion /\ AllocatableIsPromise
=============================================================================
