------------------------------ MODULE CafeHeaps ------------------------------
(***************************************************************************)
(* The heaps as a title uses them: a frame heap is made in a block of an   *)
(* expanded heap. The runtime keeps the two in separate tables and knows   *)
(* nothing of the nesting; the guest destroys a heap before it frees the   *)
(* block the heap lies in.                                                 *)
(***************************************************************************)
EXTENDS CafeExpandedHeap, CafeFrameHeap

heapsVars == <<heapVars, frameVars>>

HeapsTypeOK == HeapTypeOK /\ FrameTypeOK

HeapsInit == HeapInit /\ FrameInit

(* MEMCreateFrmHeapEx with an allocation of the expanded heap and its size. *)
CreateFrameIn(address) ==
  /\ address \in DOMAIN allocated
  /\ CreateFrame(address, address + allocated[address].size)
  /\ UNCHANGED heapVars

HeapsNext ==
  \/ \E size \in Sizes, alignment \in Alignments :
       Allocate(size, alignment) /\ UNCHANGED frameVars
  \/ \E address \in DOMAIN allocated \ {handle} : Free(address) /\ UNCHANGED frameVars
  \/ Recreate /\ UNCHANGED frameVars
  \/ \E address \in DOMAIN allocated : CreateFrameIn(address)
  \/ FrameNext /\ UNCHANGED heapVars

HeapsSpec == HeapsInit /\ [][HeapsNext]_heapsVars

(* A frame heap and all it hands out stay inside the block it was made in,   *)
(* whatever the surrounding heap does meanwhile, so that ranges of the two   *)
(* heaps overlap nowhere else.                                               *)
FrameInItsBlock ==
  handle # 0 =>
    /\ handle \in DOMAIN allocated
    /\ \A i \in DOMAIN lent : Within(lent[i], handle, handle + allocated[handle].size)
    /\ head <= tail
=============================================================================
