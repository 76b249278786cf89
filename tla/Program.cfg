SPECIFICATION FairSpec
CHECK_DEADLOCK FALSE
INVARIANTS
  PublishedAfterCleanup
  TerminalRestored
  ExitAccountsForAll
PROPERTIES
  ProgramEnds
