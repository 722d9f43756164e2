SPECIFICATION Spec
CONSTANTS
  Keys = {"gsk_k", "sk-or-k", "plain"}
  PrefixOf <- SomePrefixes
  Tokens = {"t"}
  Customs <- SomeCustoms
  MaxRuns = 2
INVARIANTS
  TypeOK
  NoHalfFile
  FinishedPairMatches
  WrittenKeyAccepted
  AskedBeforeOverwriting
  KnownPairStarts
