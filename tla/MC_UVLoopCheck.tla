---------------------------- MODULE MC_UVLoopCheck ----------------------------
EXTENDS UVLoopCheck
=============================================================================
