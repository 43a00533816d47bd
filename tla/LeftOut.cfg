CONSTANTS
  o1 = o1
  hubA = hubA
  hubB = hubB
  clerk1 = clerk1
  clerk2 = clerk2
  NoHub = NoHub
  Orders = {o1, o2}
  Hubs <- TwoHubs
  Clerks <- TwoClerks
  Destination <- NoDestination
  MaxTrips = 1
  MaxQty = 1
  MaxTotal = 2
  MaxInvoices = 2
SPECIFICATION AnythingSpec
SYMMETRY Interchangeable
INVARIANTS
  LeftOutHadNoGoods
CHECK_DEADLOCK FALSE
