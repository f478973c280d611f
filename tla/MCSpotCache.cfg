CONSTANTS
  Scopes = {"search", "detail"}
  Readers = {r1, r2}
  Writers = {p1}
  NoEntry = NoEntry
  MaxWrites = 1
  MaxVersion = 1
SPECIFICATION FairSpec
INVARIANTS
  CacheTypeOK
  CompletedWritesAreVisible
PROPERTIES
  TtlHeals
