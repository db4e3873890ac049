\* The stored promise references are deleted by the engine destructor also
\* when they were already freed.
CONSTANTS
  r1 = r1
  r2 = r2
  r3 = r3
  NoRef = NoRef
  Refs <- MCRefs
  MaxRefCount = 2
  FinalizerMayDelete = FALSE

SPECIFICATION Spec
SYMMETRY RefSymmetry

INVARIANT PromiseRefsDeletedOnce
