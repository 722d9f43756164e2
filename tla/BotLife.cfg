SPECIFICATION FairSpec
CONSTANTS
  c1 = c1
  c2 = c2
  p1 = p1
  p2 = p2
  Chats = {c1, c2}
  Allowlist = {c1}
  Providers = {p1, p2}
  Chain <- OneProvider
  Limit = 1
  MaxUpdates = 2
  MaxCrashes = 1
  MaxStops = 1
  MaxTime = 0
INVARIANTS
  AnswersPaired
  WireInMemory
  HeardInOrder
  StrangersLeaveNoTrace
  SaidOncePerLife
PROPERTIES
  KeepsDialogue
  OnlyCrashesLose
  EveryUpdateHandled
