SPECIFICATION AdapterSpec
CONSTANTS
  Characters = {"c", "g", "+", "space"}
  Space = "space"
  Keys = {"Enter", "Escape"}
  Columns = 1
  MaxActions = 4
  MaxEvents = 4
CHECK_DEADLOCK FALSE
INVARIANTS
  TextArrives
  HeldAgrees
