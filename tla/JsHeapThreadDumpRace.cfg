\* Two engines whose watchdogs both find the heap over the threshold.
SPECIFICATION Spec
CONSTANTS
  e1 = e1
  e2 = e2
  Engines <- MCEngines
  Workers <- NoWorkers
  EnableProperty = TRUE
  ChildMayHang = FALSE
SYMMETRY EngineSymmetry
INVARIANT
  DumpRateLimited
CHECK_DEADLOCK FALSE
