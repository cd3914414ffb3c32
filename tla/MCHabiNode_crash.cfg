SPECIFICATION Spec
CONSTANTS
  Nodes = {n1, n2}
  Bearers = {b1}
  Threads = {t1, t2}
  Kinds = {"LinkUp", "LinkDown", "Propagate", "SpendAt", "Seed", "ConversionDay"}
  Faults = {"crash", "loss"}
  None = None
SYMMETRY Symmetry
INVARIANTS
  TypeOK
  SpendSavedBeforeAnswered
  SpendAcceptedOnce
  HonestSettlement
  MemoryCoversDisk
PROPERTIES
  OwnSpendFinal
  UnspentNeverLost
  GoneStaysGone
