\* Two runtimes of one process and one of another on one port.
SPECIFICATION FairSpec
CONSTANTS
  Runtimes = {1, 2, 3}
  Host <- MCHost
  MaxServers = 4
  MaxAttempts = 2
  MaxCrashes = 1
CHECK_DEADLOCK FALSE
INVARIANTS
  NoStrayServer
  ServedByAnswerer
PROPERTIES
  OpeningEnds
