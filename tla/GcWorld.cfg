\* Every thread may wait for a message that nobody sends: no deadlock of the protocol.
CONSTANTS
    t1 = t1
    t2 = t2
    t3 = t3
    Threads <- MCThreads
CHECK_DEADLOCK FALSE
SPECIFICATION FairWorldSpec
INVARIANT QuietWorld
PROPERTY StopEnds
