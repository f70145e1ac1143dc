\* Two handles, guards nested two deep, two rows; every scope ends.
SPECIFICATION FairSpec
CONSTANTS
  Handle = {h1, h2}
  Row = {r1, r2}
  MaxDepth = 2
INVARIANTS
  TypeOK
  OneOwner
  OkMeansOpen
  SnapshotCurrent
PROPERTIES
  StoreSpec
  ScopeEnds
