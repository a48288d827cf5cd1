SPECIFICATION FairSpec
CONSTANTS
  Threads <- Three
  NoThread = 0
  Objects = {m}
  NoObject = none
  Priority <- EqualPriority
  StartAffinity <- OwnCores
  Started <- Three
  Masks = {}
  Recorders = {}
  Registrars = {}
  SleepTimes = {}
  MaxSlice = 1
  Calls = {"quantum", "block", "send"}
  MaxNesting = 0
  MaxPending = 0
PROPERTIES
  OwnCoreProgress
CHECK_DEADLOCK FALSE
