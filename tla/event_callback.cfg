SPECIFICATION Spec
CONSTANTS
  t1 = t1
  t2 = t2
  t3 = t3
  Threads = {t1, t2, t3}
  NoThread = none
  Objects = {auto}
  NoObject = nothing
  Sites <- CallSites
  Guest = guest
  Priority <- MixedPriority
  AutoReset = {auto}
  SignalledAtStart = {auto}
PROPERTIES
  BorrowedWaitRestored
CHECK_DEADLOCK FALSE
