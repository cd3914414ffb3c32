SPECIFICATION Spec
CONSTANTS
  Characters <- Letters
  Ids <- NodeIds
  Names <- TrickyNames
  MaxList = 2
  Faults = {"cut"}
CHECK_DEADLOCK FALSE
INVARIANTS
  WholeLineIsRead
  OnlyLastFieldIsCut
  NameSurvivesRestart
