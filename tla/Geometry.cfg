CONSTANTS
  Reach = 1
  Spans <- MCSpans
  Normals <- MCNormals
  Radii = {0, 1, 3}
  Heights = {0, 1}
  TurnCounts <- MCTurnCounts
SPECIFICATION Spec
CHECK_DEADLOCK FALSE
INVARIANTS SamePose ConversionsAgree PathSound
