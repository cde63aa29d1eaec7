SPECIFICATION FairSpec
CONSTANTS
  Scripts <- MCScripts
  ReadSizes <- MCReadSizes
PROPERTY
  CloseStopsReads
CHECK_DEADLOCK FALSE
