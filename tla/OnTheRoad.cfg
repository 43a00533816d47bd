CONSTANTS
  o1 = o1
  o2 = o2
  hubA = hubA
  hubB = hubB
  NoHub = NoHub
  Orders <- TwoOrders
  Hubs <- TwoHubs
  Destination <- NoDestination
  MaxTrips = 1
  MaxQty = 1
  MaxTotal = 2
  MaxInvoices = 2
SPECIFICATION OnTheRoadSpec
SYMMETRY Interchangeable
INVARIANTS
  LoadedOrdersRide
  CorrectedTotalsCover
  RoadStaysInvoiced
CHECK_DEADLOCK FALSE
