SPECIFICATION FairSpec
CONSTANTS
  Scripts <- MCCompleteScripts
  Statuses <- MCStatuses
  MaxRequests = 1
PROPERTY
  TrailersPreserved
CHECK_DEADLOCK FALSE
