\* Two clients, four sockets, two turns that start, run and are cancelled.
SPECIFICATION FairSpec
CONSTANTS
    Client = {c1, c2}
    Turn = {t1, t2}
    MaxEvent = 0
    MaxPing = 0
    MaxConnect = 4
    RingCapacity = 1
    ChannelCapacity = 1
INVARIANTS
    OrphansWatched
PROPERTIES
    OrphansEnd
