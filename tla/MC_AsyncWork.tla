--------------------------- MODULE MC_AsyncWork ---------------------------
EXTENDS AsyncWork, TLC

CONSTANTS w1, w2, w3, x1, x2

MCWorks == {w1, w2, w3}

\* Two works contending for one pool thread.
TwoWorks == {w1, w2}

\* One exception: enough for a report to be repeated or duplicated.
OneExc == {x1}

\* The exception is an Error object: ArkValueToNativeValue does not convert it.
NoneConverted == {}

=============================================================================
