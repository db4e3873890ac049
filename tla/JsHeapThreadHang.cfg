\* One engine whose heap-dump child never exits.
SPECIFICATION Spec
CONSTANTS
  e1 = e1
  e2 = e2
  Engines <- OneEngine
  Workers <- NoWorkers
  EnableProperty = TRUE
  ChildMayHang = TRUE
PROPERTY
  DestructorJoins
CHECK_DEADLOCK FALSE
