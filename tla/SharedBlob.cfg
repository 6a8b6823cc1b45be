CONSTANTS
  None = None
  b0 = b0
  A = A
  B = B
  Block <- MCBlock
  Blob <- MCBlob
  Root <- MCRoot
  InitRoot <- MCInitRoot
  Need <- MCNeed
  Mutation <- MCMutation
  Op <- MCOp
  Puts <- MCPuts
  Heads = {A, B}
  Readers = {}
  OnlineGC = FALSE
  Keeping = {A, B}
  OpNames = {"apply", "replay", "truncate"}
SPECIFICATION FairSpec
PROPERTIES CutEventually
