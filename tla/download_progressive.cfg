SPECIFICATION Spec
CONSTANTS
  Bank = 10
  BufSize = 1
  MaxChunk = 4
  EraseBlock = 5
  Sizes = {3, 10}
  Progressive = TRUE
  MaxAttempts = 2
  Faults = {"http", "flash", "reset"}
  Junk = Junk
  Erased = Erased
INVARIANTS DInv FirstOkMeansStored 
CHECK_DEADLOCK FALSE
