SPECIFICATION Spec
CONSTANTS
  Nodes = {n1, n2}
  Bearers = {b1}
  Threads = {t1, t2}
  Kinds = {"LinkUp", "SpendAt"}
  Faults = {}
  None = None
PROPERTIES
  LinkUpConverges
