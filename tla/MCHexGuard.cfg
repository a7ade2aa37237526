CONSTANTS
  Half = 4
  CacheMax = 2
  SeqCacheDepth = 2
  Frames <- MotionFrames
  Crcs <- MCCrcs
  QueueLen = 2
  LinkMonitored = TRUE
  MaxFrames = 2
  MaxCycles = 1
  MaxRefreshes = 0
  MaxLostReplies = 1
SPECIFICATION Spec
INVARIANTS
  TypeOK
  AbortedIffHit
  CallbackIsLicensed
  RerunOnlyAfterLostReply
  DenyMeansNeverRan
PROPERTIES
  EstopHonoured
  LatchReleasedOnlyByAck
