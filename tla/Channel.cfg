\* The bound on sends ends the behaviours: receivers then wait for ever.
CONSTANTS
    s1 = s1
    s2 = s2
    r1 = r1
    r2 = r2
    Senders <- MCSenders
    Receivers <- MCReceivers
    Values <- MCValues
    Capacity = 2
    MaxSends = 4
CHECK_DEADLOCK FALSE
SPECIFICATION Spec
INVARIANTS   NoLostWakeUp
PROPERTIES IsFifo
