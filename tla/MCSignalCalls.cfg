SPECIFICATION FairSpec
CONSTANTS
  Procs = {p1, p2, p3}
  MaxChans = 2
INVARIANTS
  TypeOK
  EachChannelAccounted
  NoFalseAlarm
PROPERTY
  WaitersWake
\* A goroutine may wait for a signal that nobody triggers.
CHECK_DEADLOCK FALSE
