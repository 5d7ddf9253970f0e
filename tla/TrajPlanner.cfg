CONSTANTS
  QueueSize = 3
  Period = 4
  Lengths = {0, 40, 144}
  Vels = {16}
  MaxVel = 16
  VLimit = 16
  LineAcc = 8
  CircleAcc = 4
  CircleVel = 14
  Kinds = {"line", "circle"}
  CanonTypes = {"feed", "traverse"}
  Ids = {0, 1}
  Cutoff = 2
  MaxMoves = 4
SPECIFICATION FairSpec
INVARIANTS PathConserved CanStop
PROPERTIES Smooth ComesToRest ImplementsContract
CHECK_DEADLOCK FALSE
