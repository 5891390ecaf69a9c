CONSTANTS
  MacroMax = 6
  UnreadMax = 4
  KeyMax = 5
  Injections <- TestedKeys
  Extras = {}
SPECIFICATION Spec
INVARIANTS StoresSuffice TesterNeverBlocks ReplayMeansRecording
