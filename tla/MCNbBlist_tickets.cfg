CONSTANTS
  w1 = w1
  w2 = w2
  w3 = w3
  r1 = r1
  Writers <- MCWriters
  Readers <- MCReaders
  Sizes <- MCSizes
  Half = 16
  MaxTaken = 10
SPECIFICATION Spec
CHECK_DEADLOCK FALSE
SYMMETRY Symmetry
INVARIANTS
  SharedEntryIsLap
  HeadBehindTail
