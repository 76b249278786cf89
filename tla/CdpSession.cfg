SPECIFICATION FairSpec
CONSTANTS
  MaxRequestId = 5
  MaxEvents = 2
  MaxPending = 2
  Methods = {load, other}
  NoMethod = NoMethod
  MaxConnections = 2
  MaxArrivals = 3
INVARIANTS
  RetainedFromThisConnection
  AwaitedReplyIsFresh
  LimitOnlyAfterAbandonment
PROPERTIES
  OldestFirst
  EventsKept
  OperationEnds
