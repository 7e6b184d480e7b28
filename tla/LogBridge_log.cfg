SPECIFICATION FairSpec
CONSTANTS
  c1 = c1  c2 = c2
  Clients <- MCClients2
  QueueMax = 2
  Grace = 0
  MaxRecords = 4
  MaxTime = 1
INVARIANTS TypeOK QueueIsWindow
PROPERTIES ImplementsFeed KeepsServing StartedAreRemoved
CHECK_DEADLOCK FALSE
