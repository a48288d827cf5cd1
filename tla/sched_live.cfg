SPECIFICATION FairSpec
CONSTANTS
  Threads <- Three
  NoThread = 0
  Objects = {m}
  NoObject = none
  Priority <- EqualPriority
  StartAffinity <- SharedCore
  Started <- Three
  Masks = {}
  Recorders = {}
  Registrars = {2}
  SleepTimes = {1}
  MaxSlice = 1
  Calls = {"quantum", "block", "rendezvous", "sleep", "callback", "audio"}
  MaxNesting = 0
  MaxPending = 2
PROPERTIES
  ReadyThreadsRun
  AudioCallbacksStart
CHECK_DEADLOCK FALSE
