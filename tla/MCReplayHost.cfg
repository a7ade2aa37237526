CONSTANTS
  Half = 6
  CacheMax = 5
  SeqCacheDepth = 0
  Base = 9
  MaxCommands = 7
  Resendable = 3
  Window = 3
  MaxReboots = 1
  MaxLostReplies = 1
SPECIFICATION Spec
INVARIANTS
  TypeOK
PROPERTIES
  AnsweredNotJudgedAgain
  AnsweredNotOvertaken
  RetransmissionGetsItsReply
