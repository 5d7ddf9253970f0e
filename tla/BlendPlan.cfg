CONSTANTS
  Moves <- AllMoves
  Goals = {4, 30}
  AccMax = 8
  Steps = {20}
  MaxMoves = 3
SPECIFICATION Spec
CHECK_DEADLOCK FALSE
INVARIANTS
  PathConnected
  CutsFit
  ArcAllowed
