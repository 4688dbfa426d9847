CONSTANTS
  c1 = c1
  c2 = c2
  c3 = c3
  Contexts <- MCThree
  Plugin = "TRACEP"
  MaySleep = FALSE
SPECIFICATION Spec
SYMMETRY ContextSymmetry
INVARIANTS
  TypeOK
  UsageCountsHandlers
  NoHandlerAfterUnload
  ClientUnused
