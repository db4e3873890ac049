\* Two native modules whose inits require each other.
CONSTANTS
  a = a
  b = b
  c = c
  d = d
  e = e
  Modules <- MCModules
  Deps <- CycleDeps
  Kind <- AllNative
  ExportConverted <- JsExportsConverted
  MaxDepth = 4
SPECIFICATION Spec
INVARIANTS
  ExportsInitialisedOnce
