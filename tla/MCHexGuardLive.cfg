CONSTANTS
  Half = 4
  CacheMax = 2
  SeqCacheDepth = 2
  Frames <- OtherFrames
  Crcs <- MCCrcs
  QueueLen = 2
  LinkMonitored = TRUE
  MaxFrames = 1
  MaxCycles = 1
  MaxRefreshes = 1
  MaxLostReplies = 0
SPECIFICATION FairSpec
PROPERTIES
  CommandsDrain
  LinkLossLatches
