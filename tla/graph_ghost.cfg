SPECIFICATION KgSpec
CONSTANTS
  Docs = {d1, d2}
  Relations = {r1}
  Deleters = {del1}
  NoRow = NoRow
  Limit = 2
  MaxOps = 3
INVARIANTS NothingOfDeleted
CHECK_DEADLOCK FALSE
