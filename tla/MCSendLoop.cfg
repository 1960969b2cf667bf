CONSTANTS
  Conn = {c1, c2, c3, c4}
  Step = 8
  Interval = 20
  Rounding = 1
  MaxTicks = 8
  MaxChanges = 7
SPECIFICATION SendSpec
CHECK_DEADLOCK FALSE
SYMMETRY Symmetry
INVARIANTS SendTypeOK SlotsMatch Even NotLate NotEarly
PROPERTIES OthersStayPut ImplementsConnSet CallsAgree
