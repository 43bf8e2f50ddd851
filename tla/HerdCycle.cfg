SPECIFICATION FairSpec
CONSTANTS
  d1 = d1
  d2 = d2
  f1 = f1
  Devices = {d1, d2}
  Filesystems = {f1}
  SleepAfter = 1
  SleepAfterMax = 1
  PollInterval = 1
  MaxDuration = 7
  Faults = {"read", "arm", "watch", "stop", "start", "background"}
PROPERTY ImplementsCycle AccessWakesHerd ImplementsRun QuietHerdSleeps WakesAsHerd
INVARIANT AsleepUnlessTouched
