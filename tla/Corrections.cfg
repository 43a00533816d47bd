CONSTANTS
  o1 = o1
  o2 = o2
  hubA = hubA
  hubB = hubB
  NoHub = NoHub
  Orders <- OneOrder
  Hubs <- TwoHubs
  Destination <- NoDestination
  MaxTrips = 2
  MaxQty = 2
  MaxTotal = 2
  MaxInvoices = 4
SPECIFICATION AdministratorSpec
SYMMETRY Interchangeable
INVARIANTS
  CorrectionsKeepTheBooks
CHECK_DEADLOCK FALSE
