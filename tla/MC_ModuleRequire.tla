--------------------------- MODULE MC_ModuleRequire ---------------------------
EXTENDS ModuleRequire

CONSTANTS a, b, c, d, e

MCModules == {a, b, c, d, e}

\* A diamond: a's init requires b and c, both of which require d; c also
\* requires e, which has no code and no registerCallback.
DiamondDeps == [m \in MCModules |->
                  CASE m = a -> {b, c} [] m = b -> {d} [] m = c -> {d, e}
                    [] OTHER -> {}]

\* a and d are JS modules, b and c native ones, e neither.
MixedKind == [m \in MCModules |->
                CASE m \in {b, c} -> "native" [] m \in {a, d} -> "js"
                  [] OTHER -> "empty"]

\* Two modules whose inits require each other.
CycleDeps == [m \in MCModules |->
                CASE m = a -> {b} [] m = b -> {a} [] OTHER -> {}]

\* The JS modules a and d export undefined by default, which
\* ArkValueToNativeValue converts.
JsExportsConverted == {a, d}

\* Every JS module exports an object by default, as ES modules do.
JsExportsObjects == {}

AllNative == [m \in MCModules |-> IF m = e THEN "missing" ELSE "native"]
=============================================================================
