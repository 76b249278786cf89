CONSTANTS
  Ids = {i1, i2}
  Generations = {1, 2}
  Sizes = {small, large}
  Contents = {a, b}
  MaxSequence = 4
  None = None
  Garbled = Garbled
SPECIFICATION Spec
INVARIANTS
  BaselineIsShown
  DifferencesAgainstLastGood
PROPERTIES
  SettlesWrittenFrames
