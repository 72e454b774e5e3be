SPECIFICATION PathSpec
CONSTANTS
  p1 = p1
  p2 = p2
  p3 = p3
  Packets <- MCPackets
  NumNodes = 6
  Kind <- MCKind
  Links <- MCLinks
  Height <- MCHeight
  UserBurst = 1
  RxBurst = 2
  TaskQueueSize = 8
  MaxLinks = 3
  MaxPollers = 2
  Nics = {1, 2}
  RingSize <- MCRingSize
INVARIANTS TypeOK RefcntExact PooledClean QueueBound CleanStop MbufBalance SendsOwnBuffer
PROPERTIES DrainEnds StopEnds
