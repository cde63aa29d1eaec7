SPECIFICATION FairSpec
CONSTANTS
  Scripts <- MCScripts
  Statuses <- MCStatuses
  MaxRequests = 1
INVARIANTS
  FailureReported
  StatusMeansWholeResponse
  EOSMeansWholeRequest
PROPERTIES
  ImplementsResponseStream
  CallEnds
\* The call ends; a server that neither answers nor closes keeps it waiting.
CHECK_DEADLOCK FALSE
