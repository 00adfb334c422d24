SPECIFICATION DesktopSpec
CONSTANTS
  Procs = {1, 2, 3}
  Overlap = 1
  LastPort = 2
  OfferedPorts = {1}
  Situations <- MCSituations
PROPERTIES
  InstallStopsBackend
CHECK_DEADLOCK FALSE
