\* persist.ark.leak.enableproperty set to false.
SPECIFICATION Spec
CONSTANTS
  e1 = e1
  e2 = e2
  Engines <- OneEngine
  Workers <- NoWorkers
  EnableProperty = FALSE
  ChildMayHang = FALSE
INVARIANT
  JoinsExistingThread
CHECK_DEADLOCK FALSE
