SPECIFICATION FairSpec
CONSTANTS
  Wires <- MCWires
  ReadSizes <- MCReadSizes
INVARIANTS
  PayloadExact
  EOFMeansComplete
  NoFalseAlarm
PROPERTY
  ReadsEnd
\* Reading stops at the first error.
CHECK_DEADLOCK FALSE
