CONSTANTS
  OneSec = 3
  Period <- MCPeriod
  Sizes <- MCSizes
  Page = 64
  MAX_SHM = 4
  Capacity = 2
  WordLimit = 16
  Pointers <- MCPointers
  MaxTime = 5
  ClockRuns = 1
  MaxSessions = 2
SPECIFICATION Spec
CHECK_DEADLOCK FALSE
INVARIANTS
  HandlesSound
  OnSchedule
  LogKept
PROPERTIES
  StartEnds
