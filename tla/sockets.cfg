CONSTANTS
  Lengths = {2}
  MaxWrites = 3
  MaxIn = 2
  MaxCalls = 3
  MaxConnections = 4
  MaxStarts = 2
SPECIFICATION MCSpec
INVARIANTS TypeOK SentIsFront InputKept FaultsHaveCauses ConnectionsAccounted
PROPERTIES ImplementsStream Drains StopReleases
CHECK_DEADLOCK FALSE
