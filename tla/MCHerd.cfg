SPECIFICATION HSpec
CONSTANTS
  d1 = d1
  d2 = d2
  f1 = f1
  f2 = f2
  Devices = {d1, d2}
  Filesystems = {f1, f2}
  SleepAfter = 1
  SleepAfterMax = 2
  PollInterval = 1
  MaxDuration = 4
  Faults = {"arm", "watch", "background", "transport"}
SYMMETRY MCSymmetry
INVARIANT WatchMatchesState HistoryTypeOK ThresholdCountsShortSleeps
PROPERTY IdleBeforeStop
