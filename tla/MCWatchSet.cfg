SPECIFICATION Spec
CONSTANTS
  f1 = f1
  f2 = f2
  Filesystems = {f1, f2}
  QueueCap = 1
  WatcherCap = 1
  SetCap = 1
  ReadErrors = TRUE
INVARIANT TypeOK NoWakeLost
SYMMETRY MCSymmetry
PROPERTY ImplementsSafeWatch
