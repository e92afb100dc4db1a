SPECIFICATION FairSpec
CONSTANTS
  Bank = 8
  BufSize = 2
  MaxChunk = 3
  EraseBlock = 3
  Sizes = {3, 5, 8}
  Progressive = FALSE
  MaxAttempts = 3
  Faults = {"http", "flash", "reset"}
  Junk = Junk
  Erased = Erased
INVARIANTS TypeOK DInv OkMeansStored
PROPERTIES ImplementsInstall WokenForReason NotGivenUpAfterWriting DownloadEnds
CHECK_DEADLOCK FALSE
