CONSTANTS
  Scopes = {"search", "detail"}
  Readers = {r1, r2}
  Writers = {p1, p2}
  NoEntry = NoEntry
  MaxWrites = 1
  MaxVersion = 2
SPECIFICATION CacheSpec
INVARIANTS
  BulkWritesAreVisible
