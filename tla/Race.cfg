CONSTANTS
  o1 = o1
  hubA = hubA
  hubB = hubB
  clerk1 = clerk1
  clerk2 = clerk2
  NoHub = NoHub
  Orders <- OneOrder
  Hubs <- TwoHubs
  Clerks <- TwoClerks
  Destination <- NoDestination
  MaxTrips = 2
  MaxQty = 1
  MaxTotal = 2
  MaxInvoices = 3
SPECIFICATION ShiftSpec
SYMMETRY Interchangeable
INVARIANTS
  TransfersNeverOversell
  InTransitIsInvoiced
CHECK_DEADLOCK FALSE
