\* Every document of up to four blocks and items.
SPECIFICATION Spec
CONSTANTS
  MaxBlocks = 4
  MaxText = 2
INVARIANTS
  Storable
  RootCollectsAll
  ContainersCollect
  ReadBack
