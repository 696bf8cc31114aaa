SPECIFICATION Spec
CONSTANTS
  Spaces = 2
  Keys = 2
  PageLimit = 1
  MaxPages = 4
  MaxWrites = 2
  MaxCopies = 1
  Clients = {a, b}
  CxKeys = {k1}
  CxValues = {v1}
  WriteAttempts = 2
  MaxCalls = 3
  Callers = {p, q}
  RemoteKeys = {x, y}
  RemotePage = 1
  WalkPages = 3
  MaxAttempts = 3
  MaxBegun = 2
SYMMETRY Symmetry
INVARIANTS CopyComplete LogSound KeysSound
PROPERTIES MovesOnlyWhatWasRead AppendsOnce
CHECK_DEADLOCK FALSE
