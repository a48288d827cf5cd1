SPECIFICATION Spec
CONSTANTS
  Threads <- Three
  NoThread = 0
  Objects = {m}
  NoObject = none
  Priority <- RisingPriority
  StartAffinity <- Overlapping
  Started <- Three
  Masks <- PinnedMasks
  Recorders = {1, 3}
  Registrars = {}
  SleepTimes = {}
  MaxSlice = 0
  Calls = {"quantum", "block", "unlock", "send", "record", "affinity"}
  MaxNesting = 2
  MaxPending = 0
INVARIANTS
  PinsConsistent
  NeverThrows
  NoFalseDeadlock
PROPERTIES
  AffinityUnlessPinnedOut
CHECK_DEADLOCK FALSE
