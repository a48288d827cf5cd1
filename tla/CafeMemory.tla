------------------------------ MODULE CafeMemory ------------------------------
(***************************************************************************)
(* GuestMemory (memory.cpp): the mappings in address order, the pages that *)
(* hold their bytes, and the mapping the last check remembered.  A page is *)
(* made when something is written to it and reads as zero before.          *)
(***************************************************************************)
EXTENDS Naturals, Sequences, FiniteSets

CONSTANTS
  AddressLimit,  \* addresses are 0 .. AddressLimit - 1 (2^32 in the code)
  PageSize,      \* bytes of a page (0x1000 in the code)
  MapSizes,      \* sizes a mapping may have
  MapRights,     \* sets of rights a mapping may have
  Widths,        \* widths of a single access
  RangeSizes,    \* sizes of a block access
  ByteValues     \* what a byte may hold, 0 among them

ASSUME MemoryConstants ==
  /\ AddressLimit \in Nat
  /\ PageSize \in Nat \ {0}
  /\ MapSizes \subseteq Nat \ {0}
  /\ Widths \subseteq Nat \ {0}
  /\ RangeSizes \subseteq Nat
  /\ MapRights \subseteq SUBSET {"read", "write", "execute"}
  /\ 0 \in ByteValues

VARIABLES
  mappings,  \* mappings_: a sequence of [address, size, rights], by address
  cached,    \* cached_index, counted from 1, 0 before any check
  pages,     \* pages_: from page numbers to bytes
  flat       \* ghost: what each address should hold

memoryVars == <<mappings, cached, pages, flat>>

Addresses == 0 .. AddressLimit - 1
Rights == {"read", "write", "execute"}
MapEnd(m) == m.address + m.size
Holds(m, a, width) == m.address <= a /\ a + width <= MapEnd(m)

(***************************************************************************)
(* Finding the mapping of an access.                                       *)
(***************************************************************************)
\* std::lower_bound: the position of the first mapping at or after a.
LowerBound(a) == Cardinality({i \in DOMAIN mappings : mappings[i].address < a}) + 1

\* The mapping an access at a can be in; 0 if a is below every mapping.
Candidate(a) ==
  LET next == LowerBound(a)
  IN  IF next \in DOMAIN mappings /\ mappings[next].address = a THEN next ELSE next - 1

InCached(a, width) == cached \in DOMAIN mappings /\ Holds(mappings[cached], a, width)

Permit(m, right) == IF right \in m.rights THEN "ok" ELSE "permission"

\* mutant: the search's result is remembered as permitted for every right.
CheckAccessTrustingCache(a, width, right) ==
  IF InCached(a, width) THEN "ok"
  ELSE IF Candidate(a) = 0 THEN "unmapped"
  ELSE IF ~Holds(mappings[Candidate(a)], a, width) THEN "bounds"
  ELSE Permit(mappings[Candidate(a)], right)

\* check: the remembered mapping first, then the search.
CheckAccess(a, width, right) ==
  IF InCached(a, width) THEN Permit(mappings[cached], right)
  ELSE IF Candidate(a) = 0 THEN "unmapped"
  ELSE IF ~Holds(mappings[Candidate(a)], a, width) THEN "bounds"
  ELSE Permit(mappings[Candidate(a)], right)

\* The mapping remembered after a check.
Remembered(a, width) ==
  IF InCached(a, width) \/ Candidate(a) = 0 \/ ~Holds(mappings[Candidate(a)], a, width)
  THEN cached
  ELSE Candidate(a)

\* validate_range: walks from the mapping of a over mappings without a gap.
ValidRange(a, size, right) ==
  \/ size = 0
  \/ /\ a + size <= AddressLimit
     /\ \E first, last \in DOMAIN mappings :
          /\ mappings[first].address <= a /\ a < MapEnd(mappings[first])
          /\ mappings[last].address < a + size /\ a + size <= MapEnd(mappings[last])
          /\ \A i \in first .. last : right \in mappings[i].rights
          /\ \A i \in first .. last - 1 : MapEnd(mappings[i]) = mappings[i + 1].address

(***************************************************************************)
(* Bytes.                                                                  *)
(***************************************************************************)
PageByte(a) == IF a \div PageSize \in DOMAIN pages
               THEN pages[a \div PageSize][a % PageSize] ELSE 0

\* mutant: page() zeroes the page it hands out, whether it was missing or not.
StoredOnFreshPage(a, bytes) ==
  LET touched == {(a + i - 1) \div PageSize : i \in DOMAIN bytes}
  IN  [p \in DOMAIN pages \cup touched |->
        [o \in 0 .. PageSize - 1 |->
          LET at == p * PageSize + o
          IN  IF at - a + 1 \in DOMAIN bytes /\ at >= a THEN bytes[at - a + 1]
              ELSE IF p \in touched THEN 0 ELSE PageByte(at)]]

\* pages_ after bytes are stored from a on: a page that was missing is made
\* and zeroed first.
Stored(a, bytes) ==
  LET touched == {(a + i - 1) \div PageSize : i \in DOMAIN bytes}
  IN  [p \in DOMAIN pages \cup touched |->
        [o \in 0 .. PageSize - 1 |->
          LET at == p * PageSize + o
          IN  IF at - a + 1 \in DOMAIN bytes /\ at >= a THEN bytes[at - a + 1] ELSE PageByte(at)]]

Overlaid(a, bytes) ==
  [at \in Addresses |-> IF at >= a /\ at - a + 1 \in DOMAIN bytes THEN bytes[at - a + 1] ELSE flat[at]]

(***************************************************************************)
(* Operations.                                                             *)
(***************************************************************************)
MemoryInit ==
  /\ mappings = <<>>
  /\ cached = 0
  /\ pages = <<>>
  /\ flat = [a \in Addresses |-> 0]

\* mutant: only the mapping that follows is looked at.
FitsBeforeNext(a, size) ==
  LET next == LowerBound(a)
  IN  next \in DOMAIN mappings => a + size <= mappings[next].address

\* The neighbours of the place where a mapping would be inserted leave room.
FitsBetween(a, size) ==
  LET next == LowerBound(a)
  IN  /\ next \in DOMAIN mappings => a + size <= mappings[next].address
      /\ next > 1 => MapEnd(mappings[next - 1]) <= a

\* map: refuses what wraps or overlaps, inserts in order, copies initial data.
Map(a, size, rights, initial) ==
  /\ a + size <= AddressLimit
  /\ Len(initial) <= size
  /\ FitsBetween(a, size)
  /\ LET next == LowerBound(a)
     IN  mappings' = SubSeq(mappings, 1, next - 1)
                     \o <<[address |-> a, size |-> size, rights |-> rights]>>
                     \o SubSeq(mappings, next, Len(mappings))
  /\ pages' = Stored(a, initial)
  /\ flat' = Overlaid(a, initial)
  /\ UNCHANGED cached

\* read8 .. read64, fetch32 and validate: no change but the remembered mapping.
ReadMemory(a, width) ==
  /\ cached' = Remembered(a, width)
  /\ UNCHANGED <<mappings, pages, flat>>

\* write8 .. write64: within a page at once, across pages byte by byte.
Write(a, bytes) ==
  /\ CheckAccess(a, Len(bytes), "write") = "ok"
  /\ cached' = Remembered(a, Len(bytes))
  /\ pages' = Stored(a, bytes)
  /\ flat' = Overlaid(a, bytes)
  /\ UNCHANGED mappings

\* patch16 and patch32: the loader writes where the guest may not.
Patch(a, bytes) ==
  /\ CheckAccess(a, Len(bytes), "write") \in {"ok", "permission"}
  /\ cached' = Remembered(a, Len(bytes))
  /\ pages' = Stored(a, bytes)
  /\ flat' = Overlaid(a, bytes)
  /\ UNCHANGED mappings

\* write_bytes and fill: the whole range is validated, then stored page by page.
WriteRange(a, bytes) ==
  /\ ValidRange(a, Len(bytes), "write")
  /\ pages' = Stored(a, bytes)
  /\ flat' = Overlaid(a, bytes)
  /\ UNCHANGED <<mappings, cached>>

\* The byte pattern of a fill, repeated.
Repeated(pattern, size) == [i \in 1 .. size |-> pattern[((i - 1) % Len(pattern)) + 1]]

ByteSeqs(widths) == UNION {[1 .. w -> ByteValues] : w \in widths}

MemoryNext ==
  \E a \in Addresses :
    \/ \E size \in MapSizes, rights \in MapRights, n \in {0, 1} :
         \E initial \in [1 .. n -> ByteValues] : Map(a, size, rights, initial)
    \/ \E width \in Widths : ReadMemory(a, width)
    \/ \E bytes \in ByteSeqs(Widths) : Write(a, bytes) \/ Patch(a, bytes)
    \/ \E bytes \in ByteSeqs({1, 2}), size \in RangeSizes : WriteRange(a, Repeated(bytes, size))

MemorySpec == MemoryInit /\ [][MemoryNext]_memoryVars

(***************************************************************************)
(* Properties.                                                             *)
(***************************************************************************)
\* Type invariant of memory.cpp's state.
MemoryTypeOK ==
  /\ mappings \in Seq([address : Addresses, size : MapSizes, rights : MapRights])
  /\ cached \in 0 .. Len(mappings)
  /\ \A p \in DOMAIN pages : pages[p] \in [0 .. PageSize - 1 -> ByteValues]
  /\ flat \in [Addresses -> ByteValues]

\* Mappings stay in address order and apart, which every search relies on
\* (memory.cpp map).
MappingsApart ==
  \A i, j \in DOMAIN mappings : i < j => MapEnd(mappings[i]) <= mappings[j].address

\* The verdict of check does not depend on what an earlier check remembered,
\* although a mapping inserted since has moved the index (memory.cpp check).
CheckIsExact ==
  \A a \in Addresses, width \in Widths, right \in Rights :
    CheckAccess(a, width, right) = "ok"
      <=> \E i \in DOMAIN mappings : Holds(mappings[i], a, width) /\ right \in mappings[i].rights

\* A range that was validated can be accessed byte by byte without a fault: a
\* call that validates first is not interrupted half way.
ValidatedBytesAccessible ==
  \A a \in Addresses, size \in RangeSizes, right \in Rights :
    ValidRange(a, size, right) => \A at \in a .. a + size - 1 : CheckAccess(at, 1, right) = "ok"

\* Single accesses and blocks are let through exactly as they should be.
ChecksExact == CheckIsExact /\ ValidatedBytesAccessible

\* Pages hold what was stored last, whichever way and across page borders.
ReadsLastWrite == \A a \in Addresses : PageByte(a) = flat[a]
===============================================================================
