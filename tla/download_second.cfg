SPECIFICATION Spec
CONSTANTS
  Bank = 16
  BufSize = 1
  MaxChunk = 4
  EraseBlock = 8
  Sizes = {3, 16}
  Progressive = TRUE
  MaxAttempts = 2
  Faults = {"http"}
  Junk = Junk
  Erased = Erased
INVARIANTS OkMeansStored
CHECK_DEADLOCK FALSE
