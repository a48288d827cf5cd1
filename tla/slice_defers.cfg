\* The block at word 3 is deferred, as NWIIU_DISABLE_LO and NWIIU_DISABLE_HI ask.
SPECIFICATION FairNativeSpec
CONSTANTS
  Blocks <- MCBlocks
  Shard <- MCShard
  Relocated = {4}
  Overridden = {5}
  Imports = {7}
  HookSites = {1, 3}
  BranchTargets = {1, 3, 4, 5, 7, 8}
  Quantum = 3
  HookCost = 2
  Deferrals <- SomeDeferrals
  MaxCount = 4
PROPERTIES
  SlicesEnd
CHECK_DEADLOCK FALSE
