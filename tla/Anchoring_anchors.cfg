\* Every text of up to five bytes, every span, up to two edits.
SPECIFICATION Spec
CONSTANTS
  Letter = {"a", "b"}
  Wide = {"e"}
  Sep = " "
  Cont = "~"
  NoAnno = NoAnno
  Orphan = Orphan
  Panic = Panic
  Gone = Gone
  Context = 2
  MaxLen = 5
  MaxEdits = 2
CHECK_DEADLOCK FALSE
INVARIANTS
  QuoteDecides
  CascadesAgree
  FollowsContext
