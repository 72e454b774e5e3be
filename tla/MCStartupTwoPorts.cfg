SPECIFICATION Spec
CONSTANTS
  NumWorkers = 2
  Cpu <- OwnCpu
  Entry <- OneEntry
  Port <- TwoPorts
INVARIANTS PortReady
