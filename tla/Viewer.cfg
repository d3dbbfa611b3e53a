SPECIFICATION ViewerSpec
CONSTANTS
  d1 = d1
  d2 = d2
  c1 = c1
  c2 = c2
  NoDevice = NoDevice
  Device = {d1, d2}
  Command = {c1, c2}
  MaxStarts = 2
INVARIANTS
  TransitOwned
  AlternateUntilStop
  EndedIsQuiet
PROPERTIES
  CommandsReturn
CHECK_DEADLOCK FALSE
