CONSTANTS
  t1 = t1
  t2 = t2
  Threads = {t1, t2}
  NoThread = NoThread
  PoolSize = 2
SPECIFICATION Spec
INVARIANTS
  CopyWithinPool
  OvershootBounded
  CountCoversBuffers
  OutstandingKeepsPool
SYMMETRY Symmetry
