SPECIFICATION FairSpec
CONSTANTS
  d1 = d1
  d2 = d2
  worker = worker
  recorder = recorder
  s1 = s1
  s2 = s2
  Device = {d1, d2}
  Publisher = {worker, recorder}
  Speaks <- MCSpeaks
  Subscriber = {s1, s2}
  MaxSize = 2
  MaxEvents = 2
INVARIANTS
  OrderKept
  NothingVanishes
  DropsCounted
PROPERTIES
  PublishCompletes
CHECK_DEADLOCK FALSE
