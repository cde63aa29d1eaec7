SPECIFICATION FairSpec
CONSTANTS
  MaxMessages = 3
  PayloadSizes <- MCPayloadSizes
  TextLength = 1000
PROPERTY
  PipeIsClosed
CHECK_DEADLOCK FALSE
