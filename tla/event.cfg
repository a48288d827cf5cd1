SPECIFICATION FairSpec
CONSTANTS
  t1 = t1
  t2 = t2
  t3 = t3
  Threads = {t1, t2, t3}
  NoThread = none
  Objects = {auto, manual}
  NoObject = nothing
  Sites <- CallSites
  Guest = guest
  Priority <- MixedPriority
  AutoReset = {auto}
  SignalledAtStart = {auto}
INVARIANTS
  WaitersAccounted
PROPERTIES
  EachReleaseOnce
  ReleasedReturns
CHECK_DEADLOCK FALSE
