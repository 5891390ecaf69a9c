CONSTANTS
  Texts = {x, y}
  Tabs = {t, u}
  None = None
  NoFile = NoFile
  Unknown = Unknown
  Unnamed = Unnamed
  MaxSaves = 2
  MaxEvents = 1
  Extras = {"write during save", "native crash"}
SPECIFICATION Spec
SYMMETRY Symmetry
INVARIANTS RevisionNamesText SavedTabIsCurrent PendingIsServed
PROPERTIES NativeEditsKept OutsideWriteKept
CHECK_DEADLOCK FALSE
