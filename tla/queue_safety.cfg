SPECIFICATION Spec
CONSTANTS
  t1 = t1
  t2 = t2
  t3 = t3
  a = a
  b = b
  Threads = {t1, t2, t3}
  NoThread = none
  Objects = {q}
  NoObject = nothing
  Sites <- CallSites
  Guest = guest
  Priority <- MixedPriority
  Messages = {a, b}
  Size <- TwoSlots
  Empty = empty
SYMMETRY Alike
INVARIANTS
  WaitersAccounted
PROPERTIES
  ImplementsChannel
CHECK_DEADLOCK FALSE
