SPECIFICATION FairSpec
CONSTANTS
  t1 = t1
  t2 = t2
  old = old
  new = new
  Transports <- MCTransports
  Identities <- MCIdentities
INVARIANTS
  AgreeOnAuthInfo
  SideChannels
  OpenWhileNeeded
PROPERTIES
  HandshakesReturn
  EverythingEnds
\* After the shutdown nothing moves any more.
CHECK_DEADLOCK FALSE
