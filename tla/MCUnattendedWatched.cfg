\* A turn whose start outlives the last watchdog.
SPECIFICATION Spec
CONSTANTS
    Client = {c1}
    Turn = {t1}
    MaxEvent = 1
    MaxPing = 0
    MaxConnect = 1
    RingCapacity = 1
    ChannelCapacity = 1
INVARIANTS
    UnattendedWatched
