SPECIFICATION DebugSpec
CONSTANTS
  f1 = f1
  Filesystems = {f1}
  QueueCap = 3
  WatcherCap = 1
  SetCap = 1
  ReadErrors = TRUE
PROPERTIES NoFeedback AccessShown StoppedWatcherEnds InterruptEnds
