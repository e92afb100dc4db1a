SPECIFICATION FairSpec
CONSTANTS
  Actions = {a1, a2}
  NoAcid = NoAcid
  Garbage = Garbage
  SleepStrings <- MCSleepStrings
INVARIANTS TypeOK IInv StringsOutlived
PROPERTIES IntervalFollowsServer ImplementsSession OfferedIsRead
