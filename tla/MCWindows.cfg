CONSTANTS
  Names = {1, 2, 3, 4}
  Scratch = 3
  Help = 2
  Completions = 1
  Heights = {5, 8}
  MaxWindows = 3
  MaxLost = 1
SPECIFICATION Spec
INVARIANT CountsHonest
PROPERTY LinksKept
CHECK_DEADLOCK FALSE
