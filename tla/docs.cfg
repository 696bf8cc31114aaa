SPECIFICATION McSpec
CONSTANTS
  Procs = {p1, p2}
  Namespaces = {n1, n2}
  Keys = {k1, k2}
  Requested = {r1}
  Minted = {m1}
  Contents = {c1, c2}
  None = None
  Broken = Broken
  MaxOps = 3
  MaxFaults = 1
  DocIds = {"d1", "d2"}
  Bodies <- McBodies
  Relations <- McRelations
  KvRows <- McKvRows
  Turns <- McTurns
  Happenings <- McHappenings
  Queries <- McQueries
  MaxHits = 2
  MaxRelations = 3
  MaxEdits = 1
  MaxLosses = 1
SYMMETRY Symmetry
INVARIANTS RowsSound StoreSound
CHECK_DEADLOCK FALSE
