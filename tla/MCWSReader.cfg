SPECIFICATION FairSpec
CONSTANTS
  Scripts <- MCScripts
  ReadSizes <- MCReadSizes
INVARIANTS
  TypeOK
  OneReaderAtATime
  BarrierNeverFull
  DeliveredInOrder
  EOFMeansComplete
PROPERTIES
  StickyError
  LoopExits
  ReadsComeToAnEnd
\* The reader, its loop and its peer all stop.
CHECK_DEADLOCK FALSE
