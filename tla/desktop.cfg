SPECIFICATION DesktopSpec
CONSTANTS
  Procs = {1, 2, 3}
  Overlap = 2
  LastPort = 4
  OfferedPorts = {1, 2}
  Situations <- MCSituations
INVARIANTS
  NoneForgotten
  DesktopIsSound
PROPERTIES
  ServedIsShown
CHECK_DEADLOCK FALSE
