CONSTANTS
  Conn = {c1, c2, c3}
  MaxLoad = 3
  Clients = 2
  PerPeriod = 1
  WsCost = 2
  HttpCost = 1
  PageCost = 1
  Low = 2
  High = 3
  Max = 5
  MaxFreezes = 1
  MaxKills = 1
SPECIFICATION FairSpec
INVARIANT MetricsAccount
PROPERTY Reopens
