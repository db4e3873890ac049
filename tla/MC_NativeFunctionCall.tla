------------------------ MODULE MC_NativeFunctionCall ------------------------
EXTENDS NativeFunctionCall

\* Calls without arguments and calls with more than MAX_CHUNK_ARRAY_SIZE
\* (10) arguments, the ones that take the heap branch.
HeapArgCounts == {0, 11, 12}

\* Adds a call with one argument, within the chunk size.
SmallArgCounts == {0, 1, 11}
=============================================================================
