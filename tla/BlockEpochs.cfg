CONSTANTS
  None = None
  k1 = k1
  k2 = k2
  p = p
  q = q
  Key = {k1, k2}
  Shard = {1, 2}
  ShardOf <- Apart
  App = {p, q}
  Collector = {c}
  OpsOf <- Uses
  MaxEpochs = 1
SPECIFICATION FairSpec
INVARIANTS NoCircularWait
PROPERTIES ImplementsStore Returns
