CONSTANTS
    Handlers = {h1, h2}
    Registrars = {r1, r2}
    Workspaces = {"w1", "w2"}
    Conversations <- MCConversations
    Legacy <- MCLegacy
    Safe <- MCSafe
    Turns <- MCTurns
    MaxDeliveries = 3
    MaxOverlapping = 2
    Absent = Absent
    Chars <- MCChars
    Cjk = {"ka", "kb"}
    Blank = " "
    Folded <- MCFolded
    Width <- MCWidth
    Channels = {"t1", "t2"}
    Incoming <- MCIncoming
    Queries <- MCQueries
    Limits = {0, 1, 3}
    LargeLimit = 1
    MaxDocs = 3
    Garbled = Garbled
    Epoch = 0
    Gone = Gone
SPECIFICATION McSpec
INVARIANTS ThreadsSound SearchSound
PROPERTIES UserLabelsKept
SYMMETRY Symmetry
CHECK_DEADLOCK FALSE
