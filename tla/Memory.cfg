SPECIFICATION Spec
CONSTANTS
  Chats = {c1, c2}
  Contents = {x}
  Limit = 2
  MaxRows = 4
  MaxTime = 2
INVARIANTS
  TypeOK
PROPERTIES
  KeepsRecentLog
