CONSTANTS
  r1 = r1
  r2 = r2
  today = today
  Absent = Absent
  Stats <- Figures
  Ranges <- OneRange
  Readers <- TwoReaders
  MaxVersion = 2
  o1 = o1
  o2 = o2
  Orders <- TwoOrders
  Pace = 0
  MaxTime = 9
  MaxSteps = 4
SPECIFICATION ReadsSpec
INVARIANTS
  StaleFiguresLeave
  HistoryIsTrue
  StatusIsTrue
PROPERTIES
  FiguresCatchUp
CHECK_DEADLOCK FALSE
