SPECIFICATION Spec
CONSTANTS
  Nodes = {n1, n2, n3, n4}
  Bearers = {b1, b2}
SYMMETRY Symmetry
INVARIANTS
  TypeOK
  LinksSymmetric
  OwnSpendFinal
  SettledIsFinal
PROPERTIES
  OnlyMissedSpendBreaksBarrier
