SPECIFICATION Spec
CONSTANTS
    Obj = {o1, o2, o3}
    Threads = {t1}
    Tasks = {}
    Chans = {}
    ScannedChans = {}
    Kinds = {"list", "variant"}
    MaxRoots = 2
    NurseryLimit = 2
    ThresholdFloor = 4
    MaxHeld = 4
SYMMETRY HeapSymmetry
CONSTRAINT FewPlaces
INVARIANT NothingInUseIsFreed
CHECK_DEADLOCK FALSE
