SPECIFICATION FairSpec
CONSTANTS
  Nodes = {n1, n2}
  Bearers = {b1}
  Threads = {t1}
  Kinds = {"LinkUp", "LinkDown", "Propagate", "SpendAt", "Seed", "ConversionDay"}
  Faults = {"crash", "loss", "disk", "reseed"}
  None = None
PROPERTIES
  OwnSpendFinal
  GoneStaysGone
  CommandEnds
  RoundsRepair
