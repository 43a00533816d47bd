CONSTANTS
  hubA = hubA
  hubB = hubB
  own = own
  alike = alike
  op = op
  c1 = c1
  c2 = c2
  NoPrefix = NoPrefix
  NoClerk = NoClerk
  Hubs <- TwoHubs
  Prefixes <- TwoPrefixes
  Derived <- DerivedAlike
  Initials <- OneName
  Clerks <- TwoClerks
  Office <- OneClerk
  Numbered = 13
  Pad = 10
  Limit = 4
  Attempts = 3
  MaxMonth = 2
  MaxSeq = 3
SPECIFICATION SourcesSpec
INVARIANTS
  CodesDiffer
PROPERTIES
  ManagedRequestsEnd
  OfferIsFree
CHECK_DEADLOCK FALSE
