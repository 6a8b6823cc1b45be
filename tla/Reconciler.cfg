CONSTANTS
  None = None
  Withdrawn = Withdrawn
  Undef = Undef
  Heads = {A, F}
  Followed = {F}
  Root <- MCRoot
  InitRoot = "h0"
  Policy <- MCPolicy
  Configs <- MCConfigs
  Pin <- MCPin
  Block <- MCBlock
  Want <- MCWant
  Reach <- MCReach
  MaxMoves = 2
  MaxFaults = 1
SPECIFICATION FairSpec
INVARIANTS CrashSafe CutExact
PROPERTIES Converges
