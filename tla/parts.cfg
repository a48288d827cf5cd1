\* Each part that shares no state with the threads, one to a behaviour.
SPECIFICATION PartsSpec
CONSTANTS
  \* heaps
  Start = 2
  End <- SmallEnds
  BlockSize = 2
  Sizes = {0, 1, 3}
  Alignments <- BothSides
  FrameHeader = 1
  FrameSizes = {1, 2}
  FrameAlignments = {1, 2}
  \* filesystem
  Clients = {c1, c2}
  Commands = {cmd}
  ContentFiles = {model}
  SaveFiles = {progress}
  StartContent <- MCStartContent
  Bytes = {x, y}
  Hole = hole
  Absent = absent
  MaxLength = 2
  LastHandle = 2
  SaveRoot = TRUE
  \* calls
  Calls <- GuestCalls
  LeftBehind <- HalfWayCalls
  NoOperand = none
  \* guest memory
  AddressLimit = 4
  PageSize = 2
  MapSizes = {1, 2, 3}
  MapRights = {{"read"}, {"read", "write"}}
  Widths = {1, 2}
  RangeSizes = {3}
  ByteValues = {0, 1}
  \* display lists
  RecordingCores = {core}
  Lists = {1, 2}
  Slots = {1, 2}
  PayloadSizes <- MCPayloadSizes
  PayloadValues = {v1, v2}
  Capacities = {8}
  MaxDepth = 1
  PayloadAlign = 2
  ArenaSize = 12
  ArenaStart = 0
  MaxRecordings = 3
  MaxCommands = 3
  \* audio
  RingSize = 8
  SamplesPerSwap = 800
  SamplesPerFrame = 144
  MaxSwaps = 3
  MaxRegistrations = 2
  VoiceCount = 1
  OffsetLimit = 6
  AdpcmBlock = 4
  MaxAdvance = 3
  \* native code
  Blocks <- MCBlocks
  Shard <- MCShard
  Relocated = {4}
  Overridden = {5}
  Imports = {7}
  HookSites = {1, 3}
  BranchTargets = {1, 3, 4, 5, 7, 8}
  Quantum = 3
  HookCost = 2
  Deferrals <- NoDeferrals
  MaxCount = 4
  Words <- DecodedWords
SYMMETRY ClientSymmetry
INVARIANTS
  HeapStructure
  RoomIsFound
  FrameRangesApart
  FrameInItsBlock
  HandlesOwned
  ContentUntouched
  
  MappingsApart
  ChecksExact
  ReadsLastWrite
  SizesCountCommands
  PayloadsSurvive
  RingHoldsNewest
  RoundsKeepTime
  WordsAgree
  VoicesStayInside
  ReplacedNotRun
  DecodersAgree
PROPERTIES
  HandlesNeverReused
  NothingErased
  SlicesAdvance
CHECK_DEADLOCK FALSE
