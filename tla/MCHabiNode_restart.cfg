SPECIFICATION FairSpec
CONSTANTS
  Nodes = {n1, n2}
  Bearers = {b1}
  Threads = {t1}
  Kinds = {"LinkUp", "SpendAt", "ConversionDay"}
  Faults = {"crash"}
  None = None
PROPERTIES
  BurnIsPermanent
