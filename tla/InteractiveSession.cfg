SPECIFICATION FairSpec
CONSTANTS
  MaxEvents = 2
  MaxRelaunches = 1
CHECK_DEADLOCK FALSE
INVARIANTS
  LeavesNothingUnreported
PROPERTIES
  OneBrowserAtATime
  EventSurvivesRecovery
  CancellationEnds
  ExitNoticed
