CONSTANTS
  m1 = m1
  m2 = m2
  j1 = j1
  j2 = j2
  j3 = j3
  boss = boss
  office = office
  fleet = fleet
  north = north
  roaming = roaming
  hubN = hubN
  hubS = hubS
  NoHub = NoHub
  e1 = e1
  e2 = e2
  Users <- FiveAccounts
  Role <- RoleOfEach
  HubOf <- HubOfEach
  Mailbox <- WithAddress
  Hubs <- TwoHubs
  Events <- TwoEvents
  Single = e1
  Resets <- OneReset
  Others <- OneOther
  JobIds <- ThreeJobs
  Resend = TRUE
  Smtp = TRUE
  Development = FALSE
  Simulate = FALSE
  MaxFaults = 2
SPECIFICATION OfficeSpec
INVARIANTS
  AcceptedIsKept
  NoDuplicateWithoutFault
  NoticesArriveOnce
PROPERTIES
  EveryMailSettles
CHECK_DEADLOCK FALSE
