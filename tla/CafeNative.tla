-------------------------------- MODULE CafeNative --------------------------------
(***************************************************************************)
(* Recompiled blocks and what they have to leave to others.  A shard's     *)
(* dispatcher (project_generator.cpp) runs one block after another until a *)
(* guard refuses.  It has two hosts: the runner, where Executor::run_slice *)
(* calls it for the block at pc and interprets what is not a block, and a  *)
(* module in a foreign emulator, which rewrites guest words and publishes  *)
(* their addresses (patch_guard.cpp).  Addresses count words.              *)
(***************************************************************************)
EXTENDS Naturals, FiniteSets

CONSTANTS
  Blocks,        \* [start -> instructions]: ordered_blocks, apart from each other
  Shard,         \* [start -> shard]: kBlocksPerShard of them to each
  Relocated,     \* words of blocks that the loader relocates, REL24 branches aside
  Overridden,    \* such branches: branch_overrides gives their target
  Imports,       \* addresses of imports: image_.imports
  HookSites,     \* where hooks may be registered: starts of functions
  BranchTargets, \* where a branch may go
  Quantum,       \* instructions of a slice, and the limit of a module's run
  HookCost,      \* bound: instructions a hook charges
  Deferrals,     \* what NWIIU_DISABLE_* may say: [disable, only], sets of words
  MaxCount       \* bound: instructions in a behaviour

VARIABLES
  embedder,   \* "runner" or "module"
  deferral,   \* g_disable_range
  hooked,     \* patched_addresses_
  loaded,     \* words a foreign loader relocated to something else
  rewritten,  \* words the embedder has rewritten
  published,  \* g_sorted
  control,    \* "idle", "slice", "module", "stopped" or a shard's dispatcher
  pc, count,  \* of the CPUContext
  endpoint,   \* native_instruction_endpoint
  entered,    \* instruction_count when the dispatcher was called
  took        \* ghost: words carried out as guest code in the last step
nativeVars == <<embedder, deferral, hooked, loaded, rewritten, published, control, pc, count,
                endpoint, entered, took>>
fixedVars == <<embedder, deferral, hooked, loaded>>

NoDeferral == [disable |-> {}, only |-> {}]
BlockWords(start) == start .. start + Blocks[start] - 1
Shards == {Shard[b] : b \in DOMAIN Blocks}

\* Every block has instructions (extract_instructions throws otherwise), a hook
\* is at the start of a block or at no block's word, and a dispatcher is none of
\* the other places control can be in.
ASSUME NativeConstants ==
  /\ DOMAIN Blocks \subseteq Nat
  /\ \A b \in DOMAIN Blocks : /\ Blocks[b] \in Nat \ {0}
                              /\ HookSites \cap BlockWords(b) \subseteq {b}
  /\ Shards \cap {"idle", "slice", "module", "stopped"} = {}
  /\ Quantum \in Nat /\ HookCost \in Nat /\ MaxCount \in Nat

\* Where control goes after a word: blocks end at branches.
Successors(a) ==
  IF \E b \in DOMAIN Blocks : a \in BlockWords(b) \ {b + Blocks[b] - 1} THEN {a + 1} ELSE BranchTargets

(***************************************************************************)
(* Published patches.                                                      *)
(***************************************************************************)
\* The bracket [g_patch_lo, g_patch_hi] rejects without a search.
OutsideBracket(start, size) ==
  \/ \A p \in published : start + size <= p
  \/ \A p \in published : start > p

\* mutant: std::upper_bound.
PatchInsideAfter(start, size) == \E p \in published : start < p /\ p < start + size

\* std::lower_bound: is the first patch at or after start inside the block?
PatchInside(start, size) == \E p \in published : start <= p /\ p < start + size

Deferred(start, size) ==
  \/ deferral.only # {} /\ ~(start .. start + size - 1 \subseteq deferral.only)
  \/ start .. start + size - 1 \cap deferral.disable # {}

RangeHasPatch(start, size) ==
  IF deferral = NoDeferral /\ OutsideBracket(start, size) THEN FALSE
  ELSE Deferred(start, size) \/ PatchInside(start, size)

(***************************************************************************)
(* The dispatcher of a shard.                                              *)
(***************************************************************************)
\* mutant: the dispatcher trusts that run_slice looked.
BlockFitsAlways(n) == TRUE

BlockFits(n) == n <= endpoint - count

YieldsToHook == embedder = "runner" /\ pc \in hooked

\* mutant: hooks are left to run_slice.
YieldsNever == FALSE

\* The words of a block that a module compares with those translated: those
\* that were relocated, or the first, unless that one is a branch whose target
\* the loader gives.
ComparedWords(b) ==
  IF BlockWords(b) \cap Relocated = {} THEN {b} \ Overridden ELSE BlockWords(b) \cap Relocated

WordsDiffer(b) == embedder = "module" /\ ComparedWords(b) \cap (loaded \cup rewritten) # {}

MayRun(b) ==
  /\ ~RangeHasPatch(b, Blocks[b])
  /\ ~WordsDiffer(b)
  /\ BlockFits(Blocks[b])

Refuses ==
  \/ count >= endpoint
  \/ YieldsToHook
  \/ ~\E b \in DOMAIN Blocks : b = pc /\ Shard[b] = control /\ MayRun(b)

DispatchReturns ==
  /\ control \in Shards
  /\ Refuses
  /\ control' = IF embedder = "runner" THEN "slice" ELSE "module"
  /\ took' = {}
  /\ UNCHANGED <<fixedVars, rewritten, published, pc, count, endpoint, entered>>

\* A block runs to its end or faults at one of its words.
RunBlock ==
  /\ control \in Shards
  /\ ~Refuses
  /\ \/ /\ count' = count + Blocks[pc]
        /\ pc' \in Successors(pc + Blocks[pc] - 1)
        /\ took' = BlockWords(pc)
        /\ UNCHANGED control
     \/ \E n \in 1 .. Blocks[pc] :
          /\ count' = count + n
          /\ pc' = pc + n - 1
          /\ took' = pc .. pc + n - 1
          /\ control' = "stopped"
  /\ UNCHANGED <<fixedVars, rewritten, published, endpoint, entered>>

(***************************************************************************)
(* The runner: Executor::run_slice.                                        *)
(***************************************************************************)
\* instruction_count of native_pages_' entry: register_native leaves imports and
\* hooks alone, register_patch replaces a block's.
Slot(a) == IF a \in hooked THEN 1
           ELSE IF a \in DOMAIN Blocks \ Imports THEN Blocks[a] ELSE 0

SlotFits(n) == n # 0 /\ n <= endpoint - count

\* mutant: a block is called whatever is left of the slice.
SlotFitsAlways(n) == n # 0

StartSlice ==
  /\ embedder = "runner" /\ control = "idle"
  /\ count < MaxCount
  /\ endpoint' = count + Quantum
  /\ control' = "slice" /\ took' = {}
  /\ UNCHANGED <<fixedVars, rewritten, published, pc, count, entered>>

SliceEnds ==
  /\ control = "slice"
  /\ count >= endpoint
  /\ control' = "idle" /\ took' = {}
  /\ UNCHANGED <<fixedVars, rewritten, published, pc, count, endpoint, entered>>

InSlice == control = "slice" /\ count < endpoint

CallBlock ==
  /\ InSlice
  /\ pc \in DOMAIN Blocks \ (hooked \cup Imports)
  /\ SlotFits(Slot(pc))
  /\ control' = Shard[pc]
  /\ entered' = count /\ took' = {}
  /\ UNCHANGED <<fixedVars, rewritten, published, pc, count, endpoint>>

\* A hook charges what it likes (yaz0_decode) and returns, or faults.
CallHook ==
  /\ InSlice
  /\ pc \in hooked
  /\ SlotFits(Slot(pc))
  /\ \/ /\ count' \in count + 1 .. count + HookCost
        /\ pc' \in BranchTargets \ Imports
        /\ UNCHANGED control
     \/ /\ control' = "stopped"
        /\ UNCHANGED <<count, pc>>
  /\ took' = {}
  /\ UNCHANGED <<fixedVars, rewritten, published, endpoint, entered>>

\* A Cafe import returns, gives up the slice, or stops the machine.
CallImport ==
  /\ InSlice
  /\ pc \in Imports
  /\ ~SlotFits(Slot(pc))
  /\ \/ pc' \in BranchTargets \ Imports /\ control' \in {"slice", "idle"}
     \/ control' = "stopped" /\ UNCHANGED pc
  /\ took' = {}
  /\ UNCHANGED <<fixedVars, rewritten, published, count, endpoint, entered>>

\* step: what is no block, or too long for what is left.
InterpretWord ==
  /\ InSlice
  /\ pc \notin Imports
  /\ ~SlotFits(Slot(pc))
  /\ count' = count + 1
  /\ pc' \in Successors(pc)
  /\ took' = {pc}
  /\ UNCHANGED <<fixedVars, rewritten, published, control, endpoint, entered>>

(***************************************************************************)
(* The module: run.                                                        *)
(***************************************************************************)
\* The embedder rewrites a word between two calls, or runs code of its own.
HostRewrites(a) ==
  /\ embedder = "module" /\ control = "idle"
  /\ rewritten' = rewritten \cup {a} /\ took' = {}
  /\ UNCHANGED <<fixedVars, published, control, pc, count, endpoint, entered>>

HostRuns ==
  /\ embedder = "module" /\ control = "idle"
  /\ pc' \in BranchTargets
  /\ took' = {}
  /\ UNCHANGED <<fixedVars, rewritten, published, control, count, endpoint, entered>>

\* run: the published addresses replace those of the last call.
EnterModule ==
  /\ embedder = "module" /\ control = "idle"
  /\ pc \in DOMAIN Blocks
  /\ count < MaxCount
  /\ published' = rewritten
  /\ endpoint' = count + Quantum
  /\ entered' = count
  /\ control' = Shard[pc] /\ took' = {}
  /\ UNCHANGED <<fixedVars, rewritten, pc, count>>

\* Another dispatcher is called unless the last refused, the count has reached
\* the limit or there is no block at pc.
Chains == count # entered /\ count < Quantum /\ pc \in DOMAIN Blocks

ModuleGoesOn ==
  /\ control = "module"
  /\ IF Chains THEN control' = Shard[pc] /\ entered' = count
     ELSE control' = "idle" /\ UNCHANGED entered
  /\ took' = {}
  /\ UNCHANGED <<fixedVars, rewritten, published, pc, count, endpoint>>

(***************************************************************************)
(* Specification.                                                          *)
(***************************************************************************)
NativeInit ==
  /\ embedder \in {"runner", "module"}
  /\ deferral \in Deferrals
  /\ hooked \in IF embedder = "runner" THEN SUBSET HookSites ELSE {{}}
  /\ loaded \in IF embedder = "module" THEN SUBSET Relocated ELSE {{}}
  /\ rewritten = {} /\ published = {}
  /\ control = "idle"
  /\ pc \in BranchTargets
  /\ count = 0 /\ endpoint = 0 /\ entered = 0 /\ took = {}

SliceStep == CallBlock \/ CallHook \/ CallImport \/ InterpretWord \/ SliceEnds

NativeNext ==
  \/ StartSlice \/ SliceStep
  \/ DispatchReturns \/ RunBlock
  \/ \E b \in DOMAIN Blocks : \E a \in BlockWords(b) : HostRewrites(a)
  \/ HostRuns \/ EnterModule \/ ModuleGoesOn

NativeSpec == NativeInit /\ [][NativeNext]_nativeVars

\* run_slice and the dispatchers it calls are ordinary code: they go on.
FairNativeSpec ==
  NativeSpec /\ WF_nativeVars(SliceStep) /\ WF_nativeVars(DispatchReturns \/ RunBlock)

(***************************************************************************)
(* Properties.                                                             *)
(***************************************************************************)
\* A hook replaces the guest's function however it is reached: neither a chain of
\* blocks nor the interpreter carries out the word it is registered at
\* (is_patched, register_native).
HooksNotBypassed == took \cap hooked = {}

\* A module never runs a block over a word that its embedder has rewritten or
\* loaded differently: the block holds the word as it was translated (range_has_patch
\* and the words compared in the dispatcher).
RewrittenNotRun == embedder = "module" => took \cap (rewritten \cup loaded) = {}

\* What replaces guest code, a hook or the words of another loader, is never
\* passed by with the code that was translated.
ReplacedNotRun == HooksNotBypassed /\ RewrittenNotRun

\* Only a hook exceeds the slice: blocks are left to the interpreter when they do
\* not fit, so that the scheduler's quantum holds (run_slice, the dispatcher).
BudgetKept == [][count' # count /\ pc \notin hooked => count' <= endpoint]_nativeVars

\* When run_slice calls a dispatcher at least one block runs: run_slice comes
\* back to the same place otherwise, and calls it again for ever.
DispatchProgresses ==
  [][(control \in Shards /\ control' = "slice") => count > entered]_nativeVars

\* A slice goes on and not too far.
SlicesAdvance == BudgetKept /\ DispatchProgresses

\* A slice ends, also when blocks are deferred to find the one that misbehaves
\* (patch_guard.h: "defer every block overlapping", "left to the host").
SlicesEnd == control = "slice" ~> control \in {"idle", "stopped"}
===============================================================================
