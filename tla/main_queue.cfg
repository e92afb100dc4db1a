SPECIFICATION FairSpec
CONSTANTS
  NumTestResults = 3
  MaxBoots = 1
INVARIANTS TypeOK OneActivation ChainAlive ReportIsComplete
PROPERTIES ImplementsServices BlinkNeverStarves StartedKeepsRunning
