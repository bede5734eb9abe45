CONSTANTS
    t1 = t1
    t2 = t2
    t3 = t3
    v4 = v4
    v6 = v6
    w6 = w6
    Threads = {t1, t2, t3}
    Process <- MCProcess
    Sockets = {v4, v6, w6}
    NoSocket = NoSocket
    IPv4Sockets = {v4}
    Peer <- MCPeer
    Sizes = {2}
    RingSlots = 2
    MapEntries = 2
    MaxCalls = 3
    MaxMissed = 1
SYMMETRY Symmetry
SPECIFICATION Spec
INVARIANTS
    TypeOK
    EventsBalance
    SendsAreCovered
    EntriesHaveCalls
CHECK_DEADLOCK FALSE
