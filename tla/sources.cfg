SPECIFICATION Spec
CONSTANTS
  Connections = {c1}
  Registered = {c1}
  Plain = plain
  Legacy = legacy
  Items = {i1, i2, bad}
  Poison = {bad}
  Limit = 2
  MaxBatch = 1
  MaxEvents = 2
  Sources = {s1, s2}
  Composio = {s2}
  NoEntry = NoEntry
  Never = Never
  Interval = 2
  MaxTime = 2
  MaxRuns = 2
  MaxEdits = 2
  SyncedIds = {g1, g2}
  Costs = {1}
  Unusable = Unusable
  DailyLimit = 2
  CountMax = 3
  MaxAttempts = 2
  MaxCharged = 4
  MaxDay = 1
INVARIANTS TreeFollowsDocuments RegistryKeepsAcked RunsSound BudgetSound
PROPERTIES BatchReachesTree BackfillConverges ScheduleKept
CHECK_DEADLOCK FALSE
