SPECIFICATION FramesSpec
CONSTANTS
  MaxColumns = 2
  MaxGeneration = 2
  MaxOperations = 6
  Colors = {"red", "blue"}
  Nothing = Nothing
CHECK_DEADLOCK FALSE
INVARIANTS
  ShowsTheFrame
  OwnGenerationsAccepted
  DiffShowsNext
PROPERTIES
  AllOrNothing
