CONSTANTS
  a = a
  b = b
  c = c
  d = d
  e = e
  Modules <- MCModules
  Deps <- DiamondDeps
  Kind <- MixedKind
  ExportConverted <- JsExportsObjects
  MaxDepth = 4
SPECIFICATION Spec
INVARIANTS
  ExportsInitialisedOnce
\* requireInternal on a JS or empty module ends the process (a null call):
\* from that state nothing runs.
CHECK_DEADLOCK FALSE
