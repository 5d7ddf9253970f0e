\* Every command and every input on one axis, and one restart.
CONSTANTS
  EMCMOT_MAX_AXIS = 1
  numAxes = 1
  QueueSize = 1
  Inputs = {"FAULT", "FERROR", "LIMIT"}
  Commands = {"AXIS_ENABLE", "AXIS_DISABLE", "JOG", "JOG_ABORT", "MOTION_ENABLE", "MOTION_DISABLE",
              "ABORT", "SET_LINE", "SET_FREE", "SET_COORD"}
  MaxRestarts = 1
SPECIFICATION FairSpec
INVARIANT OffMeansStill
PROPERTIES FaultTrips ModeChangeAtRest PinOffStops
