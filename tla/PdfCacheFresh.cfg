CONSTANTS
  p1 = p1
  p2 = p2
  Page = {p1, p2}
  None = None
  Limit = 2
  RevertNests = FALSE
  MaxVersion = 1
  MaxFrames = 2
  MaxChains = 1
SPECIFICATION Spec
SYMMETRY PageSymmetry
INVARIANTS TypeOK PagesCurrent ImagesBounded UnmodifiedIsFile
