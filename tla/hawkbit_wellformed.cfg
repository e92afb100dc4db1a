SPECIFICATION FairSpec
CONSTANTS
  Actions = {a1, a2, a3}
  Factory = Factory
  Junk = Junk
  Erased = Erased
  NoAcid = NoAcid
  MaxServerFail = 3
  Unfit = {a3}
  Unparsable = {}
  Overlap = TRUE
  Faults = {"net", "image"}
PROPERTIES NotFlashedTwiceInARow FailureTruthful FeedbackForOffered EveryActionCloses
