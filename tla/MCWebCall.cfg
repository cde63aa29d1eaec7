SPECIFICATION FairSpec
CONSTANTS
  MaxOptions = 3
  MaxMessages = 2
  Texts <- MCTexts
INVARIANTS
  PromiseKept
  StatusMeansWholeResponse
  EachKeyOnce
  ErrorTextArrives
PROPERTIES
  ImplementsResponseStream
  StatusArrives
\* The call ends.
CHECK_DEADLOCK FALSE
