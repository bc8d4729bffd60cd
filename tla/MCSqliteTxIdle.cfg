SPECIFICATION Spec
CONSTANTS
  u1 = u1
  u2 = u2
  c1 = c1
  c2 = c2
  Users = {u1, u2}
  Conns = {c1, c2}
  TxLocks = {"deferred", "immediate", "exclusive"}
  MaxWrites = 4
  None = None
SYMMETRY Symmetry
INVARIANTS
  IdleConnsClean
