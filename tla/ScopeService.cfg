SPECIFICATION FairSpec
CONSTANTS
  d1 = d1
  d2 = d2
  r1 = r1
  r2 = r2
  c1 = c1
  c2 = c2
  Closer = Closer
  NoRuntime = NoRuntime
  Device = {d1, d2}
  Runtime = {r1, r2}
  Call = {c1, c2}
INVARIANTS
  OneSession
  LiveCanSample
PROPERTIES
  RequestsOnlyLive
  EndedStaysEnded
  EndedIsClosed
  StopReturns
CHECK_DEADLOCK FALSE
