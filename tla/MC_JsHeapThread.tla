--------------------------- MODULE MC_JsHeapThread ---------------------------
EXTENDS JsHeapThread, TLC

CONSTANTS e1, e2

MCEngines == {e1, e2}
OneEngine == {e1}

\* e2 is a worker engine that e1 creates with CreateRuntimeFunc.
MCWorkers == {e2}

NoWorkers == {}

EngineSymmetry == Permutations(MCEngines)
=============================================================================
