\* A native caller stores two references with SetPromiseRejectCallback and
\* keeps using them as any other reference: a later Unref lets the
\* collector empty one, or the caller deletes it.
CONSTANTS
  r1 = r1
  r2 = r2
  r3 = r3
  NoRef = NoRef
  Refs <- MCRefs
  MaxRefCount = 2
  FinalizerMayDelete = FALSE

SPECIFICATION Spec
SYMMETRY RefSymmetry

INVARIANT PromiseRejectGetIsLive
