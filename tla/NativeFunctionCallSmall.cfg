\* A native function called with one argument.
CONSTANTS
  ArgCounts <- SmallArgCounts
  MaxChunk = 10
  MaxDepth = 3
SPECIFICATION Spec
INVARIANTS
  ArgsStoredInArgv
