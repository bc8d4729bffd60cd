SPECIFICATION Spec
CONSTANTS
  s1 = s1
  s2 = s2
  r1 = r1
  r2 = r2
  w1 = w1
  w2 = w2
  Stmts = {s1, s2}
  Rows = {r1, r2}
  Watchers = {w1, w2}
  Ctxs = {c1}
  Background = Background
  Null = Null
SYMMETRY Symmetry
INVARIANTS
  TypeOK
  StatementsAccounted
  IdleStatementsReset
  OwnInterruptIsCtxErr
  HandleReleased
  NoOrphanWatcher
