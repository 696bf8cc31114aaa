SPECIFICATION Spec
CONSTANTS
  Sessions = {s1, s2, key_like}
  SecretSession = key_like
  None = None
  MaxTurns = 2
  MaxGap = 0
  MaxLog = 4
  MaxClock = 1
  EventIds = {e1, e2}
  Namespaces = {n1, n2}
  Terms = {t1, t2}
  ModelSigs = {m1}
  Absent = Absent
  MaxRowid = 3
  FacetIds = {f1, f2}
  FacetTypes = {preference, skill}
  FacetKeys = {k1}
  FacetValues = {v1, v2}
  MaxConfidence = 1
  MaxStability = 0
  MaxEvidence = 2
  Chats = {"c1", "c2"}
  NoChat = "none"
  Hits <- RankedRows
  AnyCategory = "any"
  Turns <- LoggedTurns
  Stem <- PorterStem
  Letters <- Spelled
  QueryTerms <- TypedTerms
  Asks <- Recalls
  TokenLimit = 1
  FullScore = 2
  MaxLogged = 2
  SpaceOrder <- SuiteSpaces
  KeyOrder <- SuiteKeys
  MaxPage = 2
  ExportLimit = 1
  ExportPages = 8
  Others = {"aa", "zz"}
  MaxAborts = 1
  Setups = {"u", "v"}
  Subdirs <- Names
  MaxName = 3
  MaxStores = 2
  Askers = {"p", "q"}
  MaxAsks = 3
  MaxHooks = 2
SYMMETRY Symmetry
INVARIANTS SegmentsSound EventsSound FacetsSound RecallSound ContractSound ServiceSound
CHECK_DEADLOCK FALSE
