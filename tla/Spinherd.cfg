SPECIFICATION MainSpec
CONSTANTS
  h1 = h1
  h2 = h2
  Herds = {h1, h2}
  Driven = h1
  Names <- MCNames
  DiskOf <- MCDiskOf
  MaxDuration = 31
  Units = {1, 4, 12}
  Counts = {0, 1, 3, 6}
  Default <- MCDefault
  MaxFlags = 2
  MaxFailures = 1
  MaxCrashes = 1
INVARIANTS
  AcceptedIsMeant ErrorsKept SilentEndMeansAllFailed NoHerdOutlivesRun
  NoCommandOutlivesRun AllTriedAndAnswered ErrorTellsFailure
  ServiceHasBinary CompletedBoots ExitZeroMeansDone
PROPERTIES OneFailureEndsAll SignalEnds Recovers
