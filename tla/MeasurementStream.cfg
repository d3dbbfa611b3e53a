SPECIFICATION StreamSpec
CONSTANTS
  d1 = d1
  Device = {d1}
  Poll <- PollOf
  MaxTime = 4
  MaxCycles = 3
  MaxConn = 1
  QueueSize = 2
  MaxPages = 2
INVARIANTS
  SnapshotHonest
  SilentMeansOld
  NeverRejects
  SnapshotCoversSample
PROPERTIES
  NewestArrives
  GoneIsReleased
CHECK_DEADLOCK FALSE
