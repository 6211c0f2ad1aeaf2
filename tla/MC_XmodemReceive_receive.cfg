\* A sender that uses CRC unasked; damage only, a bad line, or late answers.
CONSTANTS
  Blocks = 4
  Inside <- Contents
  LongPacket = 3
  BlockMod = 3
  MaxRetries = 4
  AlwaysCrc = TRUE
  PathFirst = TRUE
  FaultSets <- AllReceives
  Budget = 3
SPECIFICATION ReceiveFairSpec
INVARIANTS ReceiveInv CompleteMeansAll
PROPERTIES ReceiveSettles
CHECK_DEADLOCK FALSE
