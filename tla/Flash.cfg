CONSTANTS
  None = None
  N = 3
  Ids = {a, b}
  Sizes = {1, 2}
  MaxAssets = 0
  MaxWriters = 2
  MaxSpoiled = 1
SPECIFICATION Spec
SYMMETRY IdSymmetry
INVARIANTS RegionsDisjoint ValidIsComplete WritersKeepTheirPages ScanIsExact ImagesAreValid
PROPERTIES AllocationsChangeByRequest
