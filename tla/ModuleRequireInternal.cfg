\* requireInternal may be called for any module, JS-only and empty ones too.
CONSTANTS
  a = a
  b = b
  c = c
  d = d
  e = e
  Modules <- MCModules
  Deps <- DiamondDeps
  Kind <- MixedKind
  ExportConverted <- JsExportsConverted
  MaxDepth = 4
SPECIFICATION Spec
INVARIANTS
  RegisterCallbackPresent
CHECK_DEADLOCK FALSE
