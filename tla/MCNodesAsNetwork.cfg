SPECIFICATION Spec
CONSTANTS
  Nodes = {n1, n2, n3}
  Bearers = {b1, b2}
  Threads = {t1}
  Kinds = {"LinkUp", "LinkDown", "Propagate", "SpendAt", "Seed", "ConversionDay"}
  Faults = {}
  None = None
SYMMETRY Symmetry
INVARIANTS
  LinksAgree
  SettledIsGone
PROPERTIES
  ImplementsNetwork
  LinkUpConverges
  SettlementIsGlobal
