CONSTANTS
  o1 = o1
  o2 = o2
  hubA = hubA
  hubB = hubB
  NoHub = NoHub
  Orders <- TwoOrders
  Hubs <- TwoHubs
  Destination <- NoDestination
  MaxTrips = 1
  MaxQty = 1
  MaxTotal = 1
  MaxInvoices = 2
SPECIFICATION SmallSpec
SYMMETRY Interchangeable
INVARIANTS
  TypeOK
  TotalCoversInbound
  OneReceiptPerStop
  InTransitIsInvoiced
  DispatchLeavesDraft
  DeletedOrderHasNoStock
PROPERTIES
  CompletedStopSticks
CHECK_DEADLOCK FALSE
