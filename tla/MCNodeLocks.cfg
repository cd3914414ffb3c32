SPECIFICATION FairSpec
CONSTANTS
  Nodes = {n1, n2, n3}
  Admins = {a1, a2}
  Hung = {n3}
  Faults = {"stderr"}
  None = None
CHECK_DEADLOCK FALSE
INVARIANTS
  TypeOK
  NoCircularWait
PROPERTIES
  CommandsEnd
  HungPeerStaysLocal
