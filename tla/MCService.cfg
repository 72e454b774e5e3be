SPECIFICATION FairSpec
CONSTANTS
  c1 = c1
  c2 = c2
  Clients <- TwoClients
  MaxCalls <- Calls
  MaxRetries = 2
  MaxThreads = 2
INVARIANTS TypeOK UniqueIds OneGrantPerCall NoSilentLeak
PROPERTIES IdSpec CallReturns
