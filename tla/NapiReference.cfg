\* Two references, without symmetry so that the liveness property is
\* checked soundly; the native caller, the collector and teardown in any
\* order.
CONSTANTS
  r1 = r1
  r2 = r2
  r3 = r3
  NoRef = NoRef
  Refs <- TwoRefs
  MaxRefCount = 2
  FinalizerMayDelete = FALSE

SPECIFICATION Spec

INVARIANT TypeOK
INVARIANT StrengthMatchesCount
INVARIANT FinalizedExactlyOnce
INVARIANT SelfOwnedGoneAfterFinalize
PROPERTY NoResurrection
PROPERTY CollectedIsFinalized
