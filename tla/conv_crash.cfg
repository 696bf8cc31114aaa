CONSTANTS
    Procs = {p1, p2}
    Threads = {t1}
    Fresh = {m1}
    Minted = {a1}
    None = None
    Kinds = {"ensure", "append", "search", "patch", "truncate", "delete", "purge", "list"}
    TearKinds = {"partial", "unterminated"}
    MaxCrashes = 2
    MaxFaults = 1
SPECIFICATION Spec
INVARIANTS CrashesLeaveNothing
SYMMETRY Callers
