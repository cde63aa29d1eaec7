SPECIFICATION FairSpec
CONSTANTS
  MaxMessages = 3
  PayloadSizes <- MCPayloadSizes
  TextLength = 1000
INVARIANTS
  FramesInOrder
  NormalClosureMeansComplete
  EachKeyOnce
PROPERTY
  HandlerReturns
\* The call ends; and a handler whose connection has gone may block for ever.
CHECK_DEADLOCK FALSE
