CONSTANTS
  MaxPayload = 2
  Frames <- MCFrames
  Noise <- MCNoise
  FrameGap = 1
  LinkLost = 1
  Word = 2
  Cuts = {6}
  QueueLen = 1
  MaxSent = 2
  OnlyFirst <- MCEmpty
  MaxFaults = 1
  MaxTime = 4
SPECIFICATION Spec
CHECK_DEADLOCK FALSE
INVARIANTS
  TypeOK
  LossReportIsEarned
  SilenceIsReported
  QueuedFramesWereSent
  QuietLineResyncs
  OnlyEmptyFramesOverrun
PROPERTIES
  WholeFramesAreAccepted
