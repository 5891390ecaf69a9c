CONSTANTS
  Texts = {x}
  Tabs = {t, u}
  None = None
  NoFile = NoFile
  Unknown = Unknown
  Unnamed = Unnamed
  MaxSaves = 2
  MaxEvents = 1
  Extras = {"write during save", "native crash", "write errors"}
SPECIFICATION Spec
PROPERTIES ReceiptTrue EveryTabAnswered
CHECK_DEADLOCK FALSE
