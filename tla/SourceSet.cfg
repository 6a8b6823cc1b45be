CONSTANTS
  f = f
  m = m
  None = None
  Source = {1, 2}
  FinHeads = {f}
  Mut = m
  Boundary = f
  HandoffLocal = FALSE
  Docs <- MCDocs
  Records <- MCRecords
  Rosters <- MCRosters
  Legacy <- MCLegacy
  MaxFaults = 2
SPECIFICATION Spec
INVARIANTS CheckpointsResumable
PROPERTIES ContentOnlyExtends ContradictionLatched SelectionServed
