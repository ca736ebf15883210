SPECIFICATION Spec
CONSTANTS
  Projects <- MCProjects
  Lines <- MCLines
  ReadFile <- Read
  Empty <- MCEmpty
  Capitals <- MCCapitals
  Globals <- MCGlobals
  Width = 5
CHECK_DEADLOCK FALSE
INVARIANTS
  ReadAsWritten
  NoStatementIsUnchecked
  MeansWhatItSays
  AcceptedIsSafe
  NumberedAlike
  LoadedOnce
