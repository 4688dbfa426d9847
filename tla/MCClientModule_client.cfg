CONSTANTS
  cpu1 = cpu1
  cpu2 = cpu2
  CPUs <- MCCPUs
  Policies = {"SYSTEM", "CPU", "THREAD"}
  Vectors = {"NMI", "IRQ"}
SPECIFICATION FairSpec
INVARIANTS
  TypeOK
  NoWriteAfterFree
  BuffersReleased
PROPERTIES
  UnloadCompletes
