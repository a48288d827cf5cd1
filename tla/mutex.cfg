SPECIFICATION FairSpec
CONSTANTS
  t1 = t1
  t2 = t2
  t3 = t3
  Threads = {t1, t2, t3}
  NoThread = none
  Objects = {m}
  NoObject = nothing
  Sites <- CallSites
  Guest = guest
  Priority <- MixedPriority
  MaxRecursion = 2
INVARIANTS
  WaitersAccounted
  HoldersOwn
  RecursionCounts
PROPERTIES
  LockIsGranted
CHECK_DEADLOCK FALSE
