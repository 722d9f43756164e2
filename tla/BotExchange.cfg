SPECIFICATION Spec
CONSTANTS
  c1 = c1
  c2 = c2
  p1 = p1
  p2 = p2
  Chats = {c1, c2}
  Allowlist = {c1, c2}
  Providers = {p1, p2}
  Chain <- TwoProviders
  Limit = 2
  MaxUpdates = 2
  MaxCrashes = 0
  MaxStops = 0
  MaxTime = 2
INVARIANTS
  TypeOK
  WireInMemory
  ChainInOrder
  ContextFresh
PROPERTIES
  KeepsDialogue
