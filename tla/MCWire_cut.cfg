SPECIFICATION Spec
CONSTANTS
  Characters <- Letters
  Ids <- NodeIds
  Names <- TrickyNames
  MaxList = 1
  Faults = {"cut"}
CHECK_DEADLOCK FALSE
INVARIANTS
  ReceivedAsSent
