CONSTANTS
  SpaceGap = 100000
  CompareBound = 2
  Constants <- CFunctions
  Programs <- DefaultPrograms
  Rooms = {0, 2, 4, 6, 8, 10, 12, 14, 16, 18, 20, 22}
  Garbage = {40}
  StackRooms = {8, 13}
SPECIFICATION Spec
INVARIANTS ComputesSource
