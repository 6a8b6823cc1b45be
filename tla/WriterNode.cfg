CONSTANTS
  g = g
  a1 = a1
  b2 = b2
  a3 = a3
  v1 = v1
  v2 = v2
  v3 = v3
  alice = alice
  bob = bob
  i1 = i1
  i2 = i2
  None = None
  Block = {g, a1, b2, a3}
  SlotOf <- MCSlotOf
  ParentOf <- MCParentOf
  RowOf <- MCRowOf
  MaxMoves = 1
  MaxWindow = 4
  Indexer = {i1, i2}
  BatchSize = 2
  SeedWalkBound = 3
  Overlap = 1
  PostedBy <- MCPostedBy
  Schedules <- MCSchedules
  BlockRange = 2
  MaxTips = 2
  Sites <- MCSites
SPECIFICATION Spec
INVARIANTS NoFalseAbsence LiveViewIsAChain FilterIsItsManifest
