\* One command of every order of stores; the program keeps running.
CONSTANTS
  Kinds = {"DOWNLOADS_CONFIG", "AXIS_ENABLE", "MOTION_ENABLE", "JOG", "SET_LINE", "SET_COORD"}
  EMCMOT_MAX_AXIS = 1
  MayQuit = FALSE
  MaxFrames = 3
  MaxRestarts = 0
SPECIFICATION FairSpec
INVARIANTS TearIsBounded NumbersInOrder
PROPERTIES EchoCatchesUp
CHECK_DEADLOCK FALSE
