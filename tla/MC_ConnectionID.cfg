CONSTANTS
  IPs = {i1, i2}
  TsBits = 3
  TicksPerSecond = 2
  TTL = 2
  Skews = {0, 2}
  Times <- MCTimes
SPECIFICATION Spec
INVARIANT AcceptedWhenFresh
INVARIANT RejectedWhenExpired
INVARIANT PooledGeneratorNeedsNoCleanup
