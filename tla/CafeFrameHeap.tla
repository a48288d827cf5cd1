---------------------------- MODULE CafeFrameHeap ----------------------------
(***************************************************************************)
(* A frame heap of CafeCoreinit (cafe_coreinit.cpp): memory is handed out  *)
(* from both ends towards the middle and only comes back when the heap is  *)
(* destroyed. Addresses are counted in grains of four bytes.               *)
(***************************************************************************)
EXTENDS Integers, Sequences

CONSTANTS
  FrameHeader,      (* kFrameHeapSize                                         *)
  FrameSizes,       (* the sizes the guest asks for                           *)
  FrameAlignments   (* the alignments, by magnitude                           *)

ASSUME FrameConstants ==
  /\ FrameHeader \in Nat \ {0}
  /\ FrameSizes \subseteq Nat
  /\ FrameAlignments \subseteq Nat \ {0}

VARIABLES
  handle,   (* FrameHeap::handle, 0 while there is no heap                    *)
  last,     (* FrameHeap::end                                                 *)
  head,     (* FrameHeap::head                                                *)
  tail,     (* FrameHeap::tail                                                *)
  lent      (* the ranges the guest was given, in order: <<first, size>>      *)

frameVars == <<handle, last, head, tail, lent>>

FrameTypeOK ==
  /\ handle \in Nat /\ last \in Nat /\ head \in Nat /\ tail \in Nat
  /\ lent \in Seq(Nat \X (Nat \ {0}))

FrameInit == handle = 0 /\ last = 0 /\ head = 0 /\ tail = 0 /\ lent = <<>>

DownTo(value, m) == value - (value % m)
UpTo(value, m) == DownTo(value + m - 1, m)

(* create_frame_heap over the grains first..end-1. *)
CreateFrame(first, end) ==
  /\ handle = 0 /\ first > 0
  /\ end >= first + FrameHeader
  /\ handle' = first
  /\ last' = end
  /\ head' = first + FrameHeader
  /\ tail' = end
  /\ lent' = <<>>

(* destroy_frame_heap takes no notice of what was handed out. *)
DestroyFrame ==
  /\ handle # 0
  /\ handle' = 0 /\ last' = 0 /\ head' = 0 /\ tail' = 0 /\ lent' = <<>>

(* mutant: the tail is not looked at *)
AllocateHeadUnchecked(size, m) ==
  /\ handle # 0 /\ size > 0
  /\ UpTo(head, m) + size <= last
  /\ head' = UpTo(head, m) + size
  /\ lent' = Append(lent, <<UpTo(head, m), size>>)
  /\ UNCHANGED <<handle, last, tail>>

(* allocate_frame with a positive alignment. *)
AllocateHead(size, m) ==
  /\ handle # 0 /\ size > 0
  /\ UpTo(head, m) + size <= tail
  /\ head' = UpTo(head, m) + size
  /\ lent' = Append(lent, <<UpTo(head, m), size>>)
  /\ UNCHANGED <<handle, last, tail>>

(* mutant: the aligned result is not compared with the head *)
AllocateTailUnchecked(size, m) ==
  /\ handle # 0 /\ size > 0
  /\ size <= tail - head
  /\ tail' = DownTo(tail - size, m)
  /\ lent' = Append(lent, <<DownTo(tail - size, m), size>>)
  /\ UNCHANGED <<handle, last, head>>

(* allocate_frame with a negative one. *)
AllocateTail(size, m) ==
  /\ handle # 0 /\ size > 0
  /\ size <= tail - head
  /\ DownTo(tail - size, m) >= head
  /\ tail' = DownTo(tail - size, m)
  /\ lent' = Append(lent, <<DownTo(tail - size, m), size>>)
  /\ UNCHANGED <<handle, last, head>>

FrameNext ==
  \/ DestroyFrame
  \/ \E size \in FrameSizes, m \in FrameAlignments : AllocateHead(size, m) \/ AllocateTail(size, m)

-----------------------------------------------------------------------------
Within(range, first, end) == range[1] >= first /\ range[1] + range[2] <= end
Apart(a, b) == a[1] + a[2] <= b[1] \/ b[1] + b[2] <= a[1]

(* However requests from the two ends alternate, no two ranges the guest was *)
(* given overlap, and none reaches the heap's header or leaves the heap.     *)
FrameRangesApart ==
  /\ \A i \in DOMAIN lent : Within(lent[i], handle + FrameHeader, last)
  /\ \A i, j \in DOMAIN lent : i # j => Apart(lent[i], lent[j])
=============================================================================
