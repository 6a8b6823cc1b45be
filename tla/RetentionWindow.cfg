CONSTANTS
  None = None
  Undef = Undef
  A = A
  Block <- MCBlock
  Blob <- MCBlob
  Root <- MCRoot
  InitRoot <- MCInitRoot
  Need <- MCNeed
  Mutation <- MCMutation
  Op <- MCOp
  Puts <- MCPuts
  Heads = {A}
  Readers = {r1}
  OnlineGC = TRUE
SPECIFICATION Spec
INVARIANTS RetainedPresent SnapshotReadable CandidatePresent Protected
