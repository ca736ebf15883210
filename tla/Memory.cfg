\* Three addresses held in four places at a time; an arena of four units and
\* all the sizes it could hold.
SPECIFICATION MemorySpec
CONSTANTS
    Obj = {o1, o2, o3}
    Threads = {t1, t2}
    Tasks = {k1}
    Chans = {c1}
    ScannedChans = {c1}
    Kinds = {"future", "list"}
    MaxRoots = 1
    NurseryLimit = 2
    ThresholdFloor = 3
    MaxHeld = 4
    HeapBytes = 64
    Modulus = 256
    Sizes = {0, 1, 15, 16, 17, 31, 32, 47, 48, 49, 64}
SYMMETRY HeapSymmetry
CONSTRAINT FewPlaces
INVARIANTS
    NothingInUseIsFreed
    RememberedAsNeeded
    BlocksAreApart
PROPERTY TemporariesSurvive
CHECK_DEADLOCK FALSE
