\* The program may be ended by a signal or killed at any moment, and is started again.
CONSTANTS
  Kinds = {"MOTION_ENABLE", "JOG", "SET_COORD"}
  EMCMOT_MAX_AXIS = 1
  MayQuit = TRUE
  MaxFrames = 2
  MaxRestarts = 1
SPECIFICATION FairSpec
INVARIANTS TaskCopyIsolated ReplayIsSingle
PROPERTIES ShutdownCompletes
CHECK_DEADLOCK FALSE
