CONSTANTS
  Newline = Newline
  Lead = Lead
  Cont = Cont
  Return = Return
  Junk = Junk
  MinGap = 1
  Chunk = 2
  MaxStore = 4
  MaxText = 3
  MaxInsert = 2
  Extras = {}
SPECIFICATION Spec
INVARIANTS NoJunkInText
PROPERTIES ReportsAreTheChange CharactersStayWhole
CHECK_DEADLOCK FALSE
