SPECIFICATION FairSpec
CONSTANTS
    Path = {p, q}
    Body = {a, b}
    Gone = Gone
    NoStat = NoStat
    NoUpdate = NoUpdate
    NoPath = NoPath
    MaxChanges = 2
INVARIANTS
      NothingForgotten
    StatTellsContents
PROPERTIES
    Settles
    StopsWhenCancelled
CHECK_DEADLOCK FALSE
