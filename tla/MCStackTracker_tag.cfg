CONSTANTS
  t1 = t1
  t2 = t2
  s1 = s1
  a1 = a1
  a2 = a2
  None = None
  Tasks <- MCTasks
  Stacks <- MCStacks
  Adders <- MCAdders
  Addresses <- MCAddresses
SPECIFICATION Spec
SYMMETRY Symmetry
INVARIANTS
  TypeOK
  Genuine
  DeletedIsGone
  DeletesLatest
CHECK_DEADLOCK FALSE
