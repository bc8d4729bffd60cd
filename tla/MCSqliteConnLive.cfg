SPECIFICATION Spec
CONSTANTS
  Stmts = {s1}
  Rows = {r1}
  Watchers = {w1, w2}
  Ctxs = {c1}
  Background = Background
  Null = Null
PROPERTIES
  DeliveredInterruptReturns
