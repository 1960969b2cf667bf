CONSTANTS
  Conn = {c1, c2, c3, c4, c5, c6}
  MaxLoad = 6
  Clients = 2
  PerPeriod = 1
  WsCost = 2
  HttpCost = 1
  PageCost = 1
  Low = 1
  High = 2
  Max = 16
  MaxFreezes = 1
  MaxKills = 1
SPECIFICATION Spec
SYMMETRY Symmetry
INVARIANTS TypeOK AdmissionBounded ExistingStayUp
