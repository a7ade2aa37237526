CONSTANTS
  Half = 3
  CacheMax = 2
  SeqCacheDepth = 2
  Crcs = {c1, c2}
  Verdicts = {allow}
  DenyReplay = replay
  DenyEncoding = encoding
SPECIFICATION Spec
INVARIANTS
  TypeOK
  WindowInv
  FreshNotRecentlyAccepted
  CacheServesRecentReplies
