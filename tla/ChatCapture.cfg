SPECIFICATION FairSpec
CONSTANTS
  Chats = {c1, c2}
  Deadline = 2
  Slowest = 2
  MaxUpdates = 3
INVARIANTS
  TypeOK
  OfferedOnce
  NoMessageSkipped
  FreshAfterClear
PROPERTIES
  WaitEnds
