SPECIFICATION Spec
CONSTANTS
  Threads <- Three
  NoThread = 0
  Objects = {m}
  NoObject = none
  Priority <- RisingPriority
  StartAffinity <- SharedCore
  Started <- Two
  Masks = {}
  Recorders = {}
  Registrars <- Three
  SleepTimes = {2}
  MaxSlice = 1
  Calls = {"yield", "block", "rendezvous", "unlock", "send", "sleep", "exit", "create", "callback", "audio"}
  MaxNesting = 0
  MaxPending = 1
INVARIANTS
  SleepersOnTime
PROPERTIES
  RefinesThreads
  LowestPriorityWins
CHECK_DEADLOCK FALSE
