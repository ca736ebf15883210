\* The bounds end the behaviours, so a final state is not a deadlock of the code.
CONSTANTS
    Capacity = 2
    MaxStarts = 2
    MaxRequests = 5
    MaxBeats = 2
CHECK_DEADLOCK FALSE
SPECIFICATION FairSpec
INVARIANTS  OnlyOneBeatsForEver  LeftoversAreMissed SendsHaveRoom
PROPERTIES  StopIsObeyed
