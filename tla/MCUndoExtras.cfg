CONSTANTS
  a = a
  b = b
  Bytes = {a}
  MaxText = 2
  MaxInsert = 2
  MaxSerial = 4
  ByteLimit = 2
  GroupLimit = 2
  ChangeLimit = 3
  Amalgamate = 2
  Extras = {"discard", "insert-file", "undo-mode", "save-fails"}
SPECIFICATION AsideSpec
SYMMETRY ByteSymmetry
INVARIANTS IdsOrdered
PROPERTIES ReadOnlyKeptAside
CHECK_DEADLOCK FALSE
