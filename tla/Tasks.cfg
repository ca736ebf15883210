SPECIFICATION Spec
CONSTANTS
    Task = {t1, t2, t3}
    MaxFut = 2
    Fd = {s1}
    Delays = {0, 1}
    MaxTime = 1
    MaxDepth = 3
    Results = {0, 9}
    Main = Main
    None = None
INVARIANTS
    InOnePlace
    WaitersAreWoken
PROPERTIES
    OnlyOverwritten
    DrivesEnd
