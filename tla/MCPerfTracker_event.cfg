CONSTANTS
  t1 = t1
  t2 = t2
  c1 = c1
  c2 = c2
  a1 = a1
  a2 = a2
  e1 = e1
  e2 = e2
  e3 = e3
  d1 = d1
  Null = Null
  Tasks <- MCTasks
  CPUs <- MCCPUs
  Adders <- MCAdders
  Events <- MCEvents
  Data <- MCData
SPECIFICATION Spec
SYMMETRY Symmetry
CHECK_DEADLOCK FALSE
INVARIANTS
  FlagIsRemoval
  NoReadAfterRelease
  ListedAreAllocated
  ForeignEventsKept
