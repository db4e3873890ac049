------------------------- MODULE MC_IdleRingBuffer -------------------------
EXTENDS IdleRingBuffer

\* IDLE_CHECK_INTERVAL_LENGTH
MCN == 5

MCValues == 0 .. 2

=============================================================================
