SPECIFICATION EdgesSpec
CONSTANTS
  c1 = c1
  c2 = c2
  c3 = c3
  NoDevice = NoDevice
  Attempt = {c1, c2, c3}
  Fixed <- FixedDevices
  Remembered <- Files
  Target <- Targets
  Suffixed <- MCSuffixed
  MaxCrashes = 1
  Modulus = 8
  MaxCycles = 3
  MaxFaults = 2
  Keys = 3
  MaxExtra = 2
  a = a
  b = b
  Device = {a, b}
  MaxSelections = 2
  MaxClicks = 1
  MaxInflight = 3
INVARIANTS
  OneDevicePerHost
  FileLoads
  AnsweredSurvives
  RightAnswer
  OneFaultOneCycle
  OwnInteger
  OptionsRefused
PROPERTIES
  LateAnswersIgnored
  PanelsSettle
CHECK_DEADLOCK FALSE
