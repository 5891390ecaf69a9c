CONSTANTS
  BufferSize = 3
  InlineSize = 2
  LineChunk = 1
  MaxFile = 4
  MaxBuffer = 6
  Texts <- SmallTexts
  Rewritten <- FewTexts
  Data <- SmallData
  Lines <- SmallLines
  Extras = {}
SPECIFICATION Spec
VIEW World
INVARIANTS EofHonest LinesAreOut
PROPERTIES ImplementsByteFile
