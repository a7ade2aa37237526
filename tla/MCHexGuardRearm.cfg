CONSTANTS
  Half = 4
  CacheMax = 2
  SeqCacheDepth = 2
  Frames <- MotionFrames
  Crcs <- MCCrcs
  QueueLen = 2
  LinkMonitored = TRUE
  MaxFrames = 1
  MaxCycles = 0
  MaxRefreshes = 0
  MaxLostReplies = 0
SPECIFICATION Spec
INVARIANT FrameRearmsLinkLoss
