\* Lost lookups, crashes and a power loss; documents that share a path.
SPECIFICATION PowerSpec
CONSTANTS
  Paths <- MCPaths
  NoPath = NoPath
  Text <- MCText
  Empty = ""
  Type <- MCType
  Body <- MCBody
  NoBody = NoBody
  Sources <- NestedSources
  Ratio <- MCRatio
  Threshold = 20
  MaxUuid = 12
  MaxIngests = 3
  MaxAborts = 2
  MaxAnnos = 1
  MaxEdges = 0
  NotSynced = NotSynced
  MaxLosses = 1
INVARIANTS
  RepairedExact
  ForeignKeysHold
  ActiveBlocksReadable
  AncestorsEnd
PROPERTIES
  OtherDocumentsUntouched
