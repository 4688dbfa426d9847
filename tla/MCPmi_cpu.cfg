CONSTANTS
  t1 = t1
  t2 = t2
  t3 = t3
  None = None
  Tasks <- MCTasks
  Vectors = {"NMI", "IRQ"}
SPECIFICATION FairSpec
INVARIANTS
  NeverDeaf
  ChargedIsVictim
  CountsTracked
PROPERTIES
  SamplingContinues
