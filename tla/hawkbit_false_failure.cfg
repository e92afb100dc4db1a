SPECIFICATION Spec
CONSTANTS
  Actions = {a1, a2}
  Factory = Factory
  Junk = Junk
  Erased = Erased
  NoAcid = NoAcid
  MaxServerFail = 2
  Unfit = {}
  Unparsable = {}
  Overlap = FALSE
  Faults = {"reset"}
PROPERTIES FailureTruthful
