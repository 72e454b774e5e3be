SPECIFICATION FairSpec
CONSTANTS
  m1 = m1
  m2 = m2
  m3 = m3
  p1 = p1
  p2 = p2
  p3 = p3
  NoPacket = NoPacket
  NumNics = 2
  Mbufs <- MCMbufs
  Packets <- MCPackets
  Nic <- MCNic
  Burst = 2
  RingSize <- MCRingSize
INVARIANTS TypeOK MbufOwnership Attached NoneStranded
PROPERTIES FifoSpec BufferDrains FramesReceived
