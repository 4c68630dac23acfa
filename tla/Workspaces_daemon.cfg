SPECIFICATION FairSpec
CONSTANTS
    Name = {n}
    Conn = {c, d}
    Main = Main
    Configured = {n}
    None = None
    MaxOpens = 2
    MaxReloads = 1
    MaxBatch = 1
INVARIANTS
      WatchersCanStop
    NothingLeftRegistered
PROPERTIES
    RemovedIsReleased
    ShutdownCompletes
