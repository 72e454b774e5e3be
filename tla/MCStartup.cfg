SPECIFICATION FairSpec
CONSTANTS
  NumWorkers = 3
  Cpu <- SharedCpu
  Entry <- OneEntry
  Port <- OnePort
INVARIANTS TypeOK ServerFirst PortReady OwnQueue
PROPERTIES StopReturns WorkersRun
