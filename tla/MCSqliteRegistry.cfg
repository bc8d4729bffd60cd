SPECIFICATION Spec
CONSTANTS
  Procs = {p1, p2}
  Names = {n1, n2}
  Impls = {f, g}
  MaxId = 3
  None = None
INVARIANTS
  TypeOK
  RegistryMatchesLibrary
  IdsDistinct
  CallbackFindsEntry
PROPERTIES
  ImplementsFunctionTable
CHECK_DEADLOCK FALSE
