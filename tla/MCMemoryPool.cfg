SPECIFICATION FairSpec
CONSTANTS
  t1 = t1
  t2 = t2
  t3 = t3
  s1 = s1
  s2 = s2
  s3 = s3
  Nobody = Nobody
  Threads <- MCThreads
  Ids <- MCIds
  Slots <- MCSlots
  CacheSize = 1
  Bursts <- MCBursts
INVARIANTS OneHome PoolReady ExhaustedForCause
PROPERTIES CachePrivacy SlotSpec SetupEnds
