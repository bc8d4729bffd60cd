SPECIFICATION Spec
CONSTANTS
  Width = 4
  NarrowBits = 2
  DecimalDigits = 2
  InlineLimit = 1
  NanosPerMicro = 2
  MicrosPerMilli = 2
  MillisPerSecond = 2
  TimeBound = 20
INVARIANTS
  DuckdbRoundTrip
  RowsReadTrue
  ScanTypeTrue
CHECK_DEADLOCK FALSE
