\* Whole packets; damage only, a receiver that dies, or everything on the line.
CONSTANTS
  FileSize = 6
  Packet = 2
  BlockMod = 3
  MaxRetries = 3
  FaultSets <- AllSends
  Budget = 3
SPECIFICATION SendFairSpec
INVARIANTS SendInv CompleteInTime
PROPERTIES SendSettles
CHECK_DEADLOCK FALSE
