SPECIFICATION Spec
CONSTANTS
  MaxOptions = 2
  IntWidth = 3
  Width = 3
  NarrowBits = 2
  LastYear = 3
  MaxParams = 2
  MaxCalls = 2
  OffsetOf <- MCOffsetOf
INVARIANTS
  TypeOK
  OneMeaning
  FileNamed
  Configured
  SqliteRoundTrip
  ArgumentsSeen
  ResultsTold
  ParametersTrue
CHECK_DEADLOCK FALSE
