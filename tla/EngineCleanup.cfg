SPECIFICATION JoinedFairSpec
CONSTANTS
  MaxAttempts = 2
  Timeout = 4
  PollInterval = 1
  SettleInterval = 2
  MaxTime = 5
CHECK_DEADLOCK FALSE
INVARIANTS
  SettledOrAtDeadline
PROPERTIES
  ImplementsEngine
  RemovalIsOneStep
  LaunchDecides
  DropEnds
