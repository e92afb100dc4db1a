SPECIFICATION Spec
CONSTANTS
  Actions = {a1, a2}
  Factory = Factory
  Junk = Junk
  Erased = Erased
  NoAcid = NoAcid
  MaxServerFail = 2
  Unfit = {}
  Unparsable = {a2}
  Overlap = TRUE
  Faults = {"net"}
PROPERTIES FeedbackForOffered
