CONSTANTS
    Workers = {v1, v2}
    Sinks = {s1}
    MaxOutages = 2
    MaxCorruptions = 2
SPECIFICATION FairSpec
INVARIANTS HealthSound
PROPERTIES FlagDiesUnlessStray
