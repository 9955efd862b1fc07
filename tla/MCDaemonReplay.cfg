\* The instance of daemon_clients with a ring that replays two events and a
\* channel that holds one; safety only.
SPECIFICATION Spec
CONSTANTS
    Client = {c1, c2}
    Turn = {t1}
    MaxEvent = 2
    MaxPing = 1
    MaxConnect = 2
    RingCapacity = 2
    ChannelCapacity = 1
SYMMETRY Symmetry
INVARIANTS
    TypeOK
    NeverBack
    MissedInGap
    OrphansWatched
