SPECIFICATION FairSpec
CONSTANTS
    Closer = closer
    NoThread = none
    Producers = {p1, p2}
    Consumers = {c1, c2}
    Messages = {m1, m2, m3}
CHECK_DEADLOCK FALSE
INVARIANTS TypeOK NoLostWakeup
PROPERTIES ChannelFairSpec InterruptEnds
