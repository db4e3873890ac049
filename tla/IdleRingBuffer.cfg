CONSTANTS
  N <- MCN
  Values <- MCValues

SPECIFICATION Spec

INVARIANT TypeOK
INVARIANT SumMatchesWindow
PROPERTY RefinesSlidingWindow
