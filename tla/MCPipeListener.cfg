SPECIFICATION FairSpec
CONSTANTS
  Dialers = {d1, d2}
  Acceptors = {a1}
  Closers = {c1, c2}
INVARIANTS
  TypeOK
  ClosedByOne
PROPERTIES
  ImplementsListener
  CloseFreesCalls
