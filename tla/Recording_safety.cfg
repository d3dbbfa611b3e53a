SPECIFICATION Spec
CONSTANTS
  d1 = d1
  s1 = s1
  s2 = s2
  Device = {d1}
  Session = {s1, s2}
  NoSession = NoSession
  Interval = {1, 2}
  Poll = 1
  Second = 2
  MaxQueue = 2
  MaxTime = 3
SYMMETRY Symmetry
INVARIANTS
  ActiveIsOpen
  PointsAccounted
  RowsInOrder
CHECK_DEADLOCK FALSE
