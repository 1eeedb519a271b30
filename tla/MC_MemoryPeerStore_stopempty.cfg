CONSTANTS
  h1 = h1
  h2 = h2
  p1 = p1
  p2 = p2
  p3 = p3
  InfoHashes = {h1}
  Peers = {p1}
  Family <- MCFamily
  IHPrefix <- MCPrefix
  ShardCount = 2
  Workers = {w1}
  PeerLifeTime = 1
  MaxClock = 1
  MetricsEnabled = FALSE
  Nil = Nil
SPECIFICATION Spec
INVARIANT StoreEmptyAfterStop
