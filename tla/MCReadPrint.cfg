CONSTANTS
  TokenSize = 10
  GrowBy = 1
  ScreenWidth = 8
  Margin = 4
  SmallString = 2
  Texts <- SmallTexts
  Made <- SmallMade
  Options <- SomeOptions
  Extras = {}
SPECIFICATION Spec
CHECK_DEADLOCK FALSE
INVARIANTS RoundTrip ReadsDatum
