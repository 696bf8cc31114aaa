CONSTANTS
    Procs = {p1, p2}
    Threads = {t1, t2}
    Fresh = {m1, m2}
    Minted = {}
    None = None
    Kinds = {"ensure", "retitle", "append", "search", "list", "patch", "truncate", "delete", "purge"}
    TearKinds = {}
    MaxCrashes = 0
    MaxFaults = 0
SPECIFICATION FairSpec
INVARIANTS ThreadStoreSound
PROPERTIES ListTruthful OperationsReturn
