CONSTANTS
  Buffers = {b1, b2}
  MaxWindows = 2
  MaxText = 4
  Drift = 0
  Extras = {}
SPECIFICATION Spec
INVARIANTS CursorsInText
PROPERTIES CursorsFollow CursorsKept
SYMMETRY AlikeBuffers
