CONSTANTS
    Callers = {p1, p2}
    Workspaces = {w1, w2}
    Clients = {c1, c2, c3}
    Entries = {"init", "resolve", "bind"}
    None = None
    HostId = "host"
    MaxSession = 2
    Known = {"conversation"}
    Customs = {"note"}
    MaxNameLen = 4
    MaxSectionNamespaces = 2
    StoredNames <- SpaceNames
    KeyNames <- EntryKeys
    MaxScore = 1
    Limit = 2
    MaxRows = 2
    MaxStores = 1
    TreeScope <- McTreeScope
    Leaf <- McLeaf
    Allowed <- McAllowed
    Registered <- McRegistered
    Mentions <- McMentions
    KnownKinds = {"person", "place"}
    Lookups = {{}, {"n"}}
    Touchers = {t1, t2}
    TouchLists <- McTouchLists
    NodeWindow = 2
    MaxForest = 2
    ReadLimit = 2
    CounterMax = 2
    MaxTreeEdits = 3
    MaxTouches = 3
SPECIFICATION FacadeSpec
INVARIANTS ClientsSound FacadeSound
PROPERTIES CacheIsStable
CHECK_DEADLOCK FALSE
