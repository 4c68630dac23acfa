\* A re-ingested document reads back as nothing.
SPECIFICATION Spec
CONSTANTS
  Paths <- MCPaths
  NoPath = NoPath
  Text <- MCText
  Empty = ""
  Type <- MCType
  Body <- MCBody
  NoBody = NoBody
  Sources <- SmallSources
  Ratio <- MCRatio
  Threshold = 20
  MaxUuid = 12
  MaxIngests = 2
  MaxAborts = 0
  MaxAnnos = 0
  MaxEdges = 0
INVARIANT
  ReadIsReverse
