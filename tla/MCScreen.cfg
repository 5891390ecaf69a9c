CONSTANTS
  Cols = 6
  TabStop = 2
  Files <- SmallFiles
  Inserts <- SmallInserts
  RowCounts = {2, 3}
  Cells <- SmallCells
  Buttons = {1}
  WheelRows = 3
  MaxEvents = 1
  Extras = {}
SPECIFICATION Spec
CHECK_DEADLOCK FALSE
INVARIANTS CursorShown RowMoves ClickShows ParensMatch
