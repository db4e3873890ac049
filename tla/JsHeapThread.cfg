\* A host engine and a worker engine it creates with CreateRuntimeFunc,
\* each with its watchdog, dump children that always exit. The run stops
\* once both engines are destroyed, so deadlock is not checked.
SPECIFICATION Spec
CONSTANTS
  e1 = e1
  e2 = e2
  Engines <- MCEngines
  Workers <- MCWorkers
  EnableProperty = TRUE
  ChildMayHang = FALSE
INVARIANT
  WatchdogNeverOutlivesVm
PROPERTY
  DestructorJoins
CHECK_DEADLOCK FALSE
