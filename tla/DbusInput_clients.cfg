SPECIFICATION FairSpec
CONSTANTS
  c1 = c1
  c2 = c2
  r1 = r1
  r2 = r2
  r3 = r3
  Nobody = Nobody
  Clients <- TwoClients
  Requests <- ThreeRequests
  MaxClients = 1
  MaxRequests = 2
CHECK_DEADLOCK FALSE
INVARIANTS CountsAreExact OrphansAreEnding
PROPERTIES GoneClientsAreFreed
