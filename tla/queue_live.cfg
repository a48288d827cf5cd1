SPECIFICATION FairSpec
CONSTANTS
  t1 = t1
  t2 = t2
  t3 = t3
  a = a
  b = b
  Threads = {t1, t2, t3}
  NoThread = none
  Objects = {q}
  NoObject = nothing
  Sites <- CallSites
  Guest = guest
  Priority <- EqualPriority
  Messages = {a}
  Size <- OneSlot
  Empty = empty
PROPERTIES
  StallsEnd
CHECK_DEADLOCK FALSE
