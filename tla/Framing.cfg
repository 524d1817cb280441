SPECIFICATION FairSpec
CONSTANTS
  BufLen = 10
  HeaderSize = 11
  Lengths = {14, 33}
  Cuts = {4, 12, 25}
  Garbage = {0, 15, 99}
  MaxPieces = 3
INVARIANTS InOrder LossHasACause WaitsForTheRest
PROPERTY WaitingSenderIsServed
CHECK_DEADLOCK FALSE
