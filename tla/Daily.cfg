CONSTANTS
  o1 = o1
  hubA = hubA
  hubB = hubB
  NoHub = NoHub
  Orders <- OneOrder
  Hubs <- TwoHubs
  Destination <- NoDestination
  MaxTrips = 2
  MaxQty = 2
  MaxTotal = 1
  MaxInvoices = 3
SPECIFICATION SmallSpec
SYMMETRY Interchangeable
INVARIANTS
  CountersMatchLedger
  RemainingIsStock
  StoredTabIsStock
  NoteShowsAvailable
  ComingIsAnnounced
PROPERTIES
  ImplementsHubStock
CHECK_DEADLOCK FALSE
