\* Two clients that come and go, a turn whose worker and canceller publish past
\* both capacities, and the watchdogs that the last client leaves behind.
SPECIFICATION FairSpec
CONSTANTS
    Client = {c1, c2}
    Turn = {t1}
    MaxEvent = 2
    MaxPing = 1
    MaxConnect = 2
    RingCapacity = 1
    ChannelCapacity = 2
INVARIANTS
    TypeOK
    NeverBack
    MissedInGap
    OrphansWatched
PROPERTIES
    OrphansEnd
