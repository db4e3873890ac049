CONSTANTS
  r1 = r1
  r2 = r2
  r3 = r3
  NoRef = NoRef
  Refs <- MCRefs
  MaxRefCount = 2
  FinalizerMayDelete = TRUE

SPECIFICATION Spec
SYMMETRY RefSymmetry

INVARIANT NoDanglingFinalize
