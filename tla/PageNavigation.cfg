CONSTANTS
  Addresses = {a1, a2}
  Blank = Blank
  MaxEvents = 3
  MaxNavigations = 6
  MaxRelaunches = 1
SPECIFICATION Spec
INVARIANTS
  ShownIsLoaded
PROPERTIES
  LoadsAnswerOnce
CHECK_DEADLOCK FALSE
