SPECIFICATION FairSpec
CONSTANTS
  part = part
  whole = whole
  other = other
  Threads = {t1, t2}
  Values = {part, whole, other}
  Size <- Lengths
  Parts <- Inside
INVARIANTS
  TypeOK
  NoLostRegistration
  KnownSecretsScrubbed
PROPERTIES
  LockComesFree
