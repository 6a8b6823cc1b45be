CONSTANTS
  f = f
  m = m
  None = None
  Source = {1, 2}
  FinHeads = {f}
  Mut = m
  Boundary = f
  HandoffLocal = TRUE
  Docs <- MCDocs
  Records <- MCRecords
  Rosters <- MCRosters
  Legacy <- MCLegacy
  MaxFaults = 0
SPECIFICATION Spec
INVARIANT BatchesAccepted
