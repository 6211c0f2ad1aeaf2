\* Three chunks, the last one short, through two slots (a third is dropped).
CONSTANTS
  FileSize = 5
  ChunkSize = 2
  Concurrency = 3
  Kinds <- AllKinds
  ShrunkTo = {1}
SPECIFICATION FairSpec
INVARIANTS FastXferInv
PROPERTIES Copies StopsStarting Progress KillFrees
CHECK_DEADLOCK FALSE
