\* One CheckUVLoop / CancelCheckUVLoop cycle, with up to three TriggerPostTask
\* tasks interleaved with the check thread's own.
SPECIFICATION Spec
CONSTANTS
  MaxCycles = 1
  MaxQueue = 3
INVARIANTS
  TypeOK
  RunnerWaitsForItsTask
PROPERTY
  CancelReturns
