\* An event between the copy of the ring and the subscription.
SPECIFICATION Spec
CONSTANTS
    Client = {c1, c2}
    Turn = {t1}
    MaxEvent = 3
    MaxPing = 1
    MaxConnect = 3
    RingCapacity = 2
    ChannelCapacity = 1
INVARIANTS
    ReplayComplete
