CONSTANTS
  o1 = o1
  o2 = o2
  c1 = c1
  c2 = c2
  n1 = n1
  NoNote = NoNote
  Orders <- TwoOrders
  Clerks <- TwoClerks
  Notes <- OneNote
  MaxLines = 2
  MaxQty = 2
  MaxOverrides = 1
SPECIFICATION DaySpec
INVARIANTS
  NoPlanOutlivesItsOrder
  NoteGoesWithItsLastOrder
PROPERTIES
  OneContract
  LastConfirmationAssigns
CHECK_DEADLOCK FALSE
