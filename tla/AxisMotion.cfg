CONSTANTS
  Jogs <- AllJogs
  Others = {"JOG_ABORT", "AXIS_ENABLE", "AXIS_DISABLE", "ENABLE_OTHER", "DISABLE_OTHER",
            "MOTION_ENABLE", "MOTION_DISABLE", "SET_FREE", "SET_COORD"}
  Lines <- AllLines
  Feed = 900
  MaxVel = 1500
  MaxAcc = 1000
  MinLimit = 10000
  MaxLimit = 13000
  Start = 11000
  MinFerror = 400
  MaxFerror = 20000
  MaxLag = 1
  MaxLost = 1
  MaxSteps = 4
  Far = 1500
SPECIFICATION FairSpec
INVARIANTS WithinLimits
PROPERTIES NoJump JogEnds
CHECK_DEADLOCK FALSE
