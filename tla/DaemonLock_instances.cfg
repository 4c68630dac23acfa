SPECIFICATION Spec
CONSTANTS
    Daemon = {d, e, f}
    None = None
    MaxStarts = 4
INVARIANTS
      PidFileTrustworthy
    StoresShared
    NoForeignSocket
    StaleNeverBlocks
CHECK_DEADLOCK FALSE
