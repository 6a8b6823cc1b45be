CONSTANTS
  None = None
  w1 = w1
  w2 = w2
  m1 = m1
  m2 = m2
  p1 = p1
  p2 = p2
  d1 = d1
  d2 = d2
  d3 = d3
  k1 = k1
  k2 = k2
  q1 = q1
  q2 = q2
  r1 = r1
  r2 = r2
  c1 = c1
  c2 = c2
  c3 = c3
  MaxDocs = 3
  MaxTries = 3
  MaxOwn = 1
  MaxLine = 3
  MaxKeys = 3
  MaxTracked = 1
  MaxDials = 1
  GlobalBurst = 3
  ClientBurst = 2
  MaxHashes = 1
  MaxBuckets = 2
  BucketTTL = 2
  Second = 2
  MaxTime = 5
  Mislabelled = {m2, 3}
  MaxCuts = 2
  MaxCleanup = 2
  Sites <- MCSites
SPECIFICATION Spec
INVARIANTS RecordsOrdered ServedIsDurable OneDocument Resumable NoReplayedRecord FetchedIsHeld NoOrphanPins LeasedStaysPinned NoLostWakeup HintsMatchRegistry IdentityStays RecordsFollowAddresses RetryIsHonest
PROPERTIES CoverageStays RelayNeverRegresses NeverRewound
