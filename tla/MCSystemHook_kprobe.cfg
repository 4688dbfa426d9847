CONSTANTS
  c1 = c1
  c2 = c2
  c3 = c3
  Contexts <- MCTwo
  Plugin = "KPROBE"
  MaySleep = FALSE
SPECIFICATION FairSpec
INVARIANTS
  NoHandlerAfterUnload
PROPERTIES
  AdmissionsOnlyDrain
  UnloadCompletes
