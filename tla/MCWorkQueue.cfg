\* Two workers, so that one is busy while the other takes.
CONSTANTS
  Items = {x, y}
  Workers = {k1, k2}
  None = None
  Base = 1
  MaxDelay = 3
  Period = 2
  ChanCap = 1
SPECIFICATION FairSpec
INVARIANTS TypeOK QueuedOnce OneAtATime
PROPERTIES NeverPostponed KeepsPromise
