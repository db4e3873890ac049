\* CheckUVLoop called again after CancelCheckUVLoop.
SPECIFICATION Spec
CONSTANTS
  MaxCycles = 2
  MaxQueue = 1
INVARIANT
  RunnerWaitsForItsTask
