SPECIFICATION Spec
CONSTANTS
  Bank = 16
  BufSize = 1
  MaxChunk = 4
  EraseBlock = 8
  Sizes = {3, 16}
  Progressive = FALSE
  MaxAttempts = 1
  Faults = {}
  Junk = Junk
  Erased = Erased
PROPERTIES NotGivenUpWhileWriting
CHECK_DEADLOCK FALSE
