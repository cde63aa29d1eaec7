SPECIFICATION FairSpec
CONSTANTS
  Wires <- MCWires
  ReadSizes <- MCReadSizes
PROPERTY
  TrailersHandled
\* Reading stops at the first error.
CHECK_DEADLOCK FALSE
