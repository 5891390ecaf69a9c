CONSTANTS
  a = a
  b = b
  Bytes = {a, b}
  MaxText = 2
  MaxInsert = 2
  MaxSerial = 5
  ByteLimit = 3
  GroupLimit = 2
  ChangeLimit = 2
  Amalgamate = 2
SPECIFICATION Spec
SYMMETRY ByteSymmetry
INVARIANTS UndoThenRedo WholeCommand Bounded
PROPERTIES ImplementsUndoStack
CHECK_DEADLOCK FALSE
