\* Three goroutines, so that two can keep the mutex busy while one waits.
CONSTANTS
  Procs = {p1, p2, p3}
  Tracking = {t1}
  Tracked = {a}
  None = None
SPECIFICATION FairSpec
INVARIANTS TypeOK MapNotShared
PROPERTIES Linearizable CallsReturn
