SPECIFICATION Spec
CONSTANTS
    Daemon = {d, e, f}
    NoFile = NoFile
    MaxFiles = 3
INVARIANT SingleInstance
