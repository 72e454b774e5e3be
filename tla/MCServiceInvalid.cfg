SPECIFICATION Spec
CONSTANTS
  c1 = c1
  c2 = c2
  Clients <- TwoClients
  MaxCalls <- OneCall
  MaxRetries = 2
  MaxThreads = 1
INVARIANTS OnlyInvalidRejected
