SPECIFICATION Spec
CONSTANTS
  Callers = {g1, g2}
  SymbolOrder <- MCSymbolOrder
  LibDir = "dir"
  SystemDir = "system"
  MaxVersion = 2
  Environments <- MCEnvironments
  Null = Null
INVARIANTS
  TypeOK
  NilMeansBound
  SameAnswer
  FirstLoadableWins
PROPERTIES
  EveryLoadReturns
CHECK_DEADLOCK FALSE
