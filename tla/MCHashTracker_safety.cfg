CONSTANTS
  cpu1 = cpu1
  cpu2 = cpu2
  pid1 = pid1
  pid2 = pid2
  n1 = n1
  n2 = n2
  d1 = d1
  NoOne = NoOne
  NoId = NoId
  NoNode = NoNode
  NoData = NoData
  Freed = Freed
  CPUs <- MCCPUs
  Ids <- MCIds
  Nodes <- MCTwoNodes
  Data <- MCOneDatum
SPECIFICATION Spec
SYMMETRY Symmetry
INVARIANTS
  TypeOK
  MutualExclusion
  NodesAccounted
  NoReadAfterFree
