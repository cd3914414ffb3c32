SPECIFICATION Spec
CONSTANTS
  Procs = {"n1"}
  Bearers = {"b1"}
  Sorted <- AnyOrder
  NoValue = NoValue
  i1 = i1
  i2 = i2
  i3 = i3
  i4 = i4
  Inodes = {i1, i2, i3, i4}
  Stem <- OwnStem
  Ext <- StateExt
SYMMETRY Symmetry
VIEW View
INVARIANTS
  TypeOK
  WholeFiles
PROPERTIES
  ImplementsStore
