SPECIFICATION Spec
CONSTANTS
  Limit = 1
  MaxClock = 4
  MaxEvents = 2
  MaxSockets = 1
  MaxUnderWay = 2
INVARIANT TypeOK
INVARIANT SteadyRowsAreShown
INVARIANT NoRowTwice
INVARIANT LaterRowsStayOut
INVARIANT ShownIsCommitted
PROPERTY Converges
