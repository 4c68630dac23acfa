\* One document path, three ingestions, one of them cut short at any step.
SPECIFICATION Spec
CONSTANTS
  Paths <- MCPaths
  NoPath = NoPath
  Text <- MCText
  Empty = ""
  Type <- MCType
  Body <- MCBody
  NoBody = NoBody
  Sources <- EditedSources
  Ratio <- MCRatio
  Threshold = 20
  MaxUuid = 12
  MaxIngests = 3
  MaxAborts = 1
  MaxAnnos = 1
  MaxEdges = 0
INVARIANTS
  CompletedIngestExact
  AnnotationsFollow
  FirstReadExact
  OrphansStayDeleted
PROPERTIES
  ImplementsLedger
