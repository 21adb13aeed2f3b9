SPECIFICATION MonitorSpec
CONSTANTS
  Room = 3
  MaxCrashes = 2
  MaxStarts = 1
  MaxRestarts = 2
  MaxStops = 1
  MaxDeaths = 1
PROPERTIES
  StopIsQuiet
  RestartResolves
  ServesAgain
CHECK_DEADLOCK FALSE
