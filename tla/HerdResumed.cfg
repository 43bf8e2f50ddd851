SPECIFICATION HSpec
CONSTANTS
  d1 = d1
  d2 = d2
  f1 = f1
  Devices = {d1, d2}
  Filesystems = {f1}
  SleepAfter = 2
  SleepAfterMax = 5
  PollInterval = 2
  MaxDuration = 7
  Faults = {"background"}
PROPERTY NoRaceWithResumedIO
