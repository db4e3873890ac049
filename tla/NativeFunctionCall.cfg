\* Native calls nested three deep, with 0, 11 or 12 arguments each.
CONSTANTS
  ArgCounts <- HeapArgCounts
  MaxChunk = 10
  MaxDepth = 3
SPECIFICATION Spec
INVARIANTS
  ArgvNotLeaked
