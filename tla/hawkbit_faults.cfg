SPECIFICATION Spec
CONSTANTS
  Actions = {a1, a2, a3}
  Factory = Factory
  Junk = Junk
  Erased = Erased
  NoAcid = NoAcid
  MaxServerFail = 5
  Unfit = {}
  Unparsable = {}
  Overlap = FALSE
  Faults = {"net", "json", "image", "flash", "reset"}
SYMMETRY ActionSymmetry
INVARIANTS TypeOK IInv SlotZeroBootable
PROPERTIES SuccessTruthful ImplementsContract
