\* Every edit of the five inputs, twice over, with an edge on any node.
SPECIFICATION Spec
CONSTANTS
  Paths <- MCPaths
  NoPath = NoPath
  Text <- MCText
  Empty = ""
  Type <- MCType
  Body <- MCBody
  NoBody = NoBody
  Sources <- AllSources
  Ratio <- MCRatio
  Threshold = 20
  MaxUuid = 12
  MaxIngests = 3
  MaxAborts = 0
  MaxAnnos = 0
  MaxEdges = 1
INVARIANTS
  IdentityKept
  EdgesNeverAhead
  QueriesExact
PROPERTIES
  VersionTracksText
