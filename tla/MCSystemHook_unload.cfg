CONSTANTS
  c1 = c1
  c2 = c2
  c3 = c3
  Contexts <- MCTwo
  Plugin = "TRACEP"
  MaySleep = TRUE
SPECIFICATION Spec
INVARIANTS
  NoHandlerAfterUnload
