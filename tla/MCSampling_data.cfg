CONSTANTS
  t1 = t1
  t2 = t2
  t3 = t3
  p1 = p1
  p2 = p2
  d1 = d1
  d2 = d2
  Null = Null
  Tasks <- MCTasks
  Pids <- MCPids
  Data <- MCData
  Trackers = {"HASH", "STACK", "PERF"}
  MaxEvents = 2
SPECIFICATION Spec
SYMMETRY Symmetry
INVARIANTS
  TypeOK
  SoleOwner
  
  
  NothingLost
