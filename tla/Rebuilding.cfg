CONSTANTS
    MaxRounds = 4
SPECIFICATION Spec
INVARIANTS OnlyCheckedBuildsAreInPlace TheLastSystemIsKept
PROPERTIES PutsInPlaceWhatItBuilt
\* A stop between the two moves leaves nothing to boot.
CHECK_DEADLOCK FALSE
