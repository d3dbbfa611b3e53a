SPECIFICATION Spec
CONSTANTS
  d1 = d1
  w1 = w1
  w2 = w2
  w3 = w3
  r1 = r1
  DeviceOf <- DeviceMap
  NoWorker = NoWorker
  NoRequest = NoRequest
  Device = {d1}
  Worker = {w1, w2}
  Request = {r1}
  NBlocks = 1
  NProbes = 1
  MaxCycle = 2
INVARIANTS
  ShutdownStopsThreads
CHECK_DEADLOCK FALSE
