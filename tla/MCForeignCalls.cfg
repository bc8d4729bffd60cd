SPECIFICATION Spec
CONSTANTS
  g1 = g1
  g2 = g2
  b1 = b1
  b2 = b2
  Callers = {g1, g2}
  Blocks = {b1, b2}
  Null = Null
SYMMETRY Symmetry
INVARIANTS
  TypeOK
  NothingLeaks
  ResultsLast
  LibraryUsesLiveMemory
