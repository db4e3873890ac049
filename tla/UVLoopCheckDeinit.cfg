\* The engine is destroyed while a check thread started by CheckUVLoop is
\* still running: Deinit does not cancel or join it.
SPECIFICATION Spec
CONSTANTS
  MaxCycles = 1
  MaxQueue = 3
INVARIANTS
  CheckThreadJoinedAtDeinit
