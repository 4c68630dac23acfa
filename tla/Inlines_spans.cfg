\* One paragraph of up to four inlines, every text, every breakpoint.
SPECIFICATION Spec
CONSTANTS
  MaxInlines = 4
  MaxLen = 3
  MaxDepth = 2
INVARIANTS
  PathsInOrder
  SpansTile
  AtomsUncut
  OffsetsFound
