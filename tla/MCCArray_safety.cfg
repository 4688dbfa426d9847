CONSTANTS
  w1 = w1
  w2 = w2
  w3 = w3
  s1 = s1
  s2 = s2
  Unwritten = Unwritten
  NoWriter = NoWriter
  Writers <- MCThreeWriters
  Samples <- MCTwoSamples
  Len = 7
  Stride = 3
SPECIFICATION CArraySpec
SYMMETRY Symmetry
INVARIANTS
  CArrayTypeOK
  WritesInBounds
  NoTornSample
PROPERTIES
  ImplementsRing
