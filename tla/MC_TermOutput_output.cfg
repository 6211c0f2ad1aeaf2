\* Small and large chunks, characters in two pieces, transfers of both kinds and
\* a wall clock that is set back.
CONSTANTS
  Chunks <- Mixed
  Large <- MixedLarge
  MaxBytes = 4
  Interval = 2
  SetBack = 1
  MaxTime = 7
  Transfers = {"detected", "started"}
SPECIFICATION OutputSpec
INVARIANTS OutputInv WaitBounded
PROPERTIES TransferInOrder
CHECK_DEADLOCK FALSE
