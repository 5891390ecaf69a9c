CONSTANTS
  Editors = {e1, e2}
  e1 = e1
  e2 = e2
  Batch = 3
  TraceLines = 5
  KeepLimit = 2
  MaxSeq = 4
  Texts = 2
  Cycles = 1
  Mortal = {e2}
  Untrusted = {e1}
SPECIFICATION Spec
INVARIANTS EvidenceKept PassMeansChecked CheckerAgrees HandsBack
PROPERTIES EveryRunEnds
