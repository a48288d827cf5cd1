---------------------------- MODULE CafeDisplayLists ----------------------------
(***************************************************************************)
(* GX2 display lists (gx2_runtime.cpp).  While a list is being recorded on *)
(* a core, the commands called there are kept with a copy of the memory    *)
(* they name, instead of being carried out.  A call of the list carries    *)
(* them out with the copies put into an arena of the list's own, where     *)
(* what they bind (a texture, the indices of a draw) stays to be read      *)
(* until the next frame is drawn.                                          *)
(***************************************************************************)
EXTENDS Integers, SequencesExt

CONSTANTS
  RecordingCores, \* cores that record lists
  Lists,          \* guest addresses of lists
  Slots,          \* what a command binds: texture units, the draw's indices
  PayloadSizes,   \* [Slots -> sizes of the memory a command copies]
  PayloadValues,  \* what that memory can hold
  Capacities,     \* capacities of lists in bytes
  MaxDepth,       \* nested recordings of a core (4 in the code)
  ArenaSize,      \* kDisplayListReplayScratchSize
  ArenaStart,     \* replay_data_cursor_ at first
  PayloadAlign,   \* alignment of a payload in the arena (16 in the code)
  MaxRecordings,  \* bound: lists recorded in a behaviour
  MaxCommands     \* bound: commands recorded in a behaviour

\* A list is not at address zero, and what copies nothing is no BindCommand.
ASSUME DisplayConstants ==
  /\ Lists \subseteq Nat \ {0} /\ IsFiniteSet(Lists)
  /\ \A s \in Slots : PayloadSizes[s] \subseteq Nat \ {0}
  /\ PayloadAlign \in Nat \ {0}
  /\ ArenaSize \in Nat /\ ArenaStart \in Nat

VARIABLES
  recorder,  \* [core -> display_lists[core], its commands and those it set aside]
  recorded,  \* recorded_display_lists_
  cursor,    \* replay_data_cursor_
  arena,     \* the arena's bytes
  bound,     \* [slot -> where what is bound lies: an offset of the arena or -1]
  held,      \* ghost: [slot -> what the command that bound it had copied]
  recordings, \* recordings so far
  kept       \* commands recorded so far
displayVars == <<recorder, recorded, cursor, arena, bound, held, recordings, kept>>

TokenSize == 4
Align(n) == ((n + PayloadAlign - 1) \div PayloadAlign) * PayloadAlign
Idle == [active |-> FALSE, address |-> 0, capacity |-> 0, commands |-> <<>>, size |-> 0,
         outer |-> <<>>]
Unbound == [list |-> 0, content |-> 0, size |-> 0]

\* A command: binds a copy of size bytes to a slot, or calls a list.
BindCommand(slot, size, content) ==
  [op |-> "bind", slot |-> slot, size |-> size, content |-> content]
CallCommand(list, size) == [op |-> "call", slot |-> list, size |-> size, content |-> 0]
PayloadOf(command) == IF command.op = "bind" THEN command.size ELSE 0

\* Where the payloads of the first i commands end: each begins at a multiple of
\* PayloadAlign.
PayloadEnds(commands) ==
  LET ends[i \in 0 .. Len(commands)] ==
        IF i = 0 THEN 0
        ELSE IF PayloadOf(commands[i]) = 0 THEN ends[i - 1]
        ELSE Align(ends[i - 1]) + PayloadOf(commands[i])
  IN  ends
PayloadOffset(commands, i) == PayloadEnds(commands)[i] - PayloadOf(commands[i])

\* mutant: payloads are packed over the command's own token.
PayloadEndUnaligned(commands) ==
  IF commands = <<>> THEN 0 ELSE PayloadOf(commands[Len(commands)])

\* Where the last payload of a list ends.
PayloadEnd(commands) == PayloadEnds(commands)[Len(commands)]

\* No list reaches itself through calls: its calls go to lists of a lower rank.  A
\* list that does has no end in the code either.
Acyclic(lists) ==
  \E rank \in [Lists -> 1 .. Cardinality(Lists)] :
    \A l \in DOMAIN lists : \A i \in DOMAIN lists[l].commands :
      LET command == lists[l].commands[i]
      IN  command.op = "call" => rank[command.slot] < rank[l]

(***************************************************************************)
(* Recording.                                                              *)
(***************************************************************************)
DisplayInit ==
  /\ recorder = [c \in RecordingCores |-> Idle]
  /\ recorded = <<>>
  /\ cursor = ArenaStart
  /\ arena = [a \in 0 .. ArenaSize - 1 |-> 0]
  /\ bound = [s \in Slots |-> -1]
  /\ held = [s \in Slots |-> Unbound]
  /\ recordings = 0 /\ kept = 0

\* GX2BeginDisplayListEx: a list recordings inside another sets the other aside.
BeginList(c, list, capacity) ==
  /\ recordings < MaxRecordings
  /\ Len(recorder[c].outer) < MaxDepth
  /\ recordings' = recordings + 1
  /\ recorder' = [recorder EXCEPT ![c] =
       [active |-> TRUE, address |-> list, capacity |-> capacity, commands |-> <<>>, size |-> 0,
        outer |-> IF ~@.active THEN <<>>
                  ELSE Append(@.outer, [address |-> @.address, capacity |-> @.capacity,
                                        commands |-> @.commands, size |-> @.size])]]
  /\ UNCHANGED <<recorded, cursor, arena, bound, held, kept>>

\* record_display_list_command: a token of the list and a copy of the data.
RecordCommand(c, command) ==
  /\ kept < MaxCommands
  /\ recorder[c].active
  /\ recorder[c].capacity - recorder[c].size >= TokenSize
  /\ recorder' = [recorder EXCEPT ![c].commands = Append(@, command), ![c].size = @ + TokenSize]
  /\ kept' = kept + 1
  /\ UNCHANGED <<recorded, cursor, arena, bound, held, recordings>>

\* mutant: the list's old arena is used whatever the new payload needs.
KeptAnyway(list, required) == list \in DOMAIN recorded

\* The arena of a list recorded again is kept if the new payload fits in it.
Kept(list, required) == list \in DOMAIN recorded /\ required <= recorded[list].room

ArenaFor(list, required) ==
  IF Kept(list, required)
  THEN [start |-> recorded[list].start, room |-> recorded[list].room]
  ELSE IF required = 0 THEN [start |-> 0, room |-> 0]
  ELSE [start |-> Align(cursor), room |-> required]

NextCursor(list, required) ==
  IF Kept(list, required) \/ required = 0 THEN cursor ELSE Align(cursor) + required

\* mutant: the cursor is not advanced past the arena.
CursorKept(list, required) == cursor

\* mutant: the commands of the outer list are dropped when an inner one ends.
OuterForgotten(r) ==
  LET last == r.outer[Len(r.outer)]
  IN  [active |-> TRUE, address |-> last.address, capacity |-> last.capacity,
       commands |-> <<>>, size |-> last.size, outer |-> SubSeq(r.outer, 1, Len(r.outer) - 1)]

\* What is recorded on when an inner list ends.
Outer(r) ==
  LET last == r.outer[Len(r.outer)]
  IN  [active |-> TRUE, address |-> last.address, capacity |-> last.capacity,
       commands |-> last.commands, size |-> last.size,
       outer |-> SubSeq(r.outer, 1, Len(r.outer) - 1)]

\* GX2EndDisplayList: the list replaces one recorded at its address before,
\* and the outer list, if there is one, is recorded on.
EndList(c) ==
  LET r == recorder[c]
      required == PayloadEnd(r.commands)
      place == ArenaFor(r.address, required)
      list == [size |-> r.size, commands |-> r.commands, start |-> place.start, room |-> place.room]
  IN  /\ r.active
      /\ place.start + place.room <= ArenaSize
      /\ recorded' = [l \in DOMAIN recorded \cup {r.address} |->
                        IF l = r.address THEN list ELSE recorded[l]]
      /\ Acyclic(recorded')  \* bound: no list calls itself
      /\ cursor' = NextCursor(r.address, required)
      /\ recorder' = [recorder EXCEPT ![c] = IF @.outer = <<>> THEN Idle ELSE Outer(@)]
      /\ held' = [s \in Slots |-> IF held[s].list = r.address THEN Unbound ELSE held[s]]
      /\ UNCHANGED <<arena, bound, recordings, kept>>

(***************************************************************************)
(* Replaying.                                                              *)
(***************************************************************************)
\* The commands a call of size bytes reaches; it faults inside a token.
Reached(list, size) ==
  IF size >= recorded[list].size THEN Len(recorded[list].commands) ELSE size \div TokenSize
InsideToken(list, size) == size < recorded[list].size /\ size % TokenSize # 0

\* The commands that bind something when n commands of a list are carried out, with
\* those of the lists it calls in the place of the call.  A list that was never
\* recorded does nothing.  No list reaches itself, so that no chain of calls goes
\* through more lists than there are.
Replay(list, n) ==
  LET binds[chain \in 0 .. Cardinality(Lists)] ==
        IF chain = 0 THEN [l \in DOMAIN recorded |->
                             [reached \in 0 .. Len(recorded[l].commands) |-> <<>>]]
        ELSE [l \in DOMAIN recorded |-> [reached \in 0 .. Len(recorded[l].commands) |->
                FlattenSeq([i \in 1 .. reached |->
                  LET command == recorded[l].commands[i]
                  IN  IF command.op = "bind" THEN <<[list |-> l, index |-> i]>>
                      ELSE IF command.slot \notin DOMAIN recorded THEN <<>>
                      ELSE binds[chain - 1][command.slot]
                                           [Reached(command.slot, command.size)]])]]
  IN  binds[Cardinality(Lists)][list][n]

CommandAt(ref) == recorded[ref.list].commands[ref.index]
\* Where a command of a recorded list puts its payload when it is carried out.
PayloadPlace(ref) == recorded[ref.list].start + PayloadOffset(recorded[ref.list].commands, ref.index)
PayloadBytes(ref) == PayloadPlace(ref) .. PayloadPlace(ref) + CommandAt(ref).size - 1
\* Which of the binds write a byte of the arena, and which bind a slot.
Writers(binds, a) == {j \in DOMAIN binds : a \in PayloadBytes(binds[j])}
Binders(binds, s) == {j \in DOMAIN binds : CommandAt(binds[j]).slot = s}

\* GX2CallDisplayList, carried out: each bind copies its payload to its place and
\* binds that, so that the last one to write a byte or to bind a slot counts.
CallList(c, list, size) ==
  /\ ~recorder[c].active
  /\ list \in DOMAIN recorded
  /\ size > 0 /\ ~InsideToken(list, size)
  /\ LET binds == Replay(list, Reached(list, size))
         Latest(js) == binds[Max(js)]
     IN  /\ arena' = [a \in DOMAIN arena |->
              IF Writers(binds, a) = {} THEN arena[a]
              ELSE CommandAt(Latest(Writers(binds, a))).content]
         /\ bound' = [s \in Slots |->
              IF Binders(binds, s) = {} THEN bound[s] ELSE PayloadPlace(Latest(Binders(binds, s)))]
         /\ held' = [s \in Slots |->
              IF Binders(binds, s) = {} THEN held[s]
              ELSE LET last == Latest(Binders(binds, s))
                   IN  [list |-> last.list, content |-> CommandAt(last).content,
                        size |-> CommandAt(last).size]]
  /\ UNCHANGED <<recorder, recorded, cursor, recordings, kept>>

\* A command carried out at once binds the guest's own memory.
BindNow(c, slot) ==
  /\ ~recorder[c].active
  /\ bound[slot] # -1
  /\ bound' = [bound EXCEPT ![slot] = -1]
  /\ held' = [held EXCEPT ![slot] = Unbound]
  /\ UNCHANGED <<recorder, recorded, cursor, arena, recordings, kept>>

\* GX2Init makes the state anew but not the recordings; called while no list is
\* being recorded.
ReinitGx2 ==
  /\ \A c \in RecordingCores : ~recorder[c].active
  /\ \E s \in Slots : bound[s] # -1
  /\ recorder' = [c \in RecordingCores |-> Idle]
  /\ bound' = [s \in Slots |-> -1]
  /\ held' = [s \in Slots |-> Unbound]
  /\ UNCHANGED <<recorded, cursor, arena, recordings, kept>>

DisplayNext ==
  \E c \in RecordingCores :
    \/ \E l \in Lists, capacity \in Capacities : BeginList(c, l, capacity)
    \/ \E s \in Slots, v \in PayloadValues : \E size \in PayloadSizes[s] :
         RecordCommand(c, BindCommand(s, size, v))
    \/ \E l \in Lists : RecordCommand(c, CallCommand(l, TokenSize))
    \/ EndList(c)
    \/ \E l \in Lists, n \in 1 .. 2 : CallList(c, l, n * TokenSize)
    \/ \E s \in Slots : BindNow(c, s)
    \/ ReinitGx2

DisplaySpec == DisplayInit /\ [][DisplayNext]_displayVars

(***************************************************************************)
(* Properties.                                                             *)
(***************************************************************************)
\* The size of every list, whether recorded, being recorded or set aside, counts
\* the commands kept for it: the two stacks that the code keeps apart stay in
\* step over nested recordings (GX2BeginDisplayListEx, GX2EndDisplayList).
SizesCountCommands ==
  /\ \A l \in DOMAIN recorded : recorded[l].size = TokenSize * Len(recorded[l].commands)
  /\ \A c \in RecordingCores :
       /\ recorder[c].size = TokenSize * Len(recorder[c].commands)
       /\ \A i \in DOMAIN recorder[c].outer :
            recorder[c].outer[i].size = TokenSize * Len(recorder[c].outer[i].commands)

\* What a replayed command bound still holds what the command copied, whichever
\* lists were recorded and replayed since, until its own list is recorded
\* again (gx2_runtime_test.cpp: payloads survive later replays; re-recording
\* retires the old payload).
PayloadsSurvive ==
  \A s \in Slots :
    held[s].list # 0 =>
      \A a \in bound[s] .. bound[s] + held[s].size - 1 : arena[a] = held[s].content
===============================================================================
