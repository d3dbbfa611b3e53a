SPECIFICATION Spec
CONSTANTS
  c1 = c1
  c2 = c2
  c3 = c3
  NoDevice = NoDevice
  Attempt = {c1}
  Fixed <- FixedDevices
  Remembered <- Files
  Target <- Targets
  Suffixed <- MCSuffixed
  MaxCrashes = 0
INVARIANTS
  LiveIsRemembered
CHECK_DEADLOCK FALSE
