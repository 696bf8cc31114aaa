CONSTANTS
    Calls = {c1, c2, c3}
    SyncCalls = {s1, s2}
    Worker = Worker
    NoOne = NoOne
    Capacity = 2
SPECIFICATION FairSpec
INVARIANTS QueueSound
PROPERTIES AcceptedIsExtracted SyncCompletes
