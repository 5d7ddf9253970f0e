\* Running backwards and consuming segments, the appender going on to the last slot.
CONSTANTS
  s1 = s1
  s2 = s2
  NoSegment = NoSegment
  Segments = {s1, s2}
  Size = 6
  TCQ_REVERSE_MARGIN = 2
  ExtraMargin = 1
  Ops = {"Init", "PopBack", "BackStep"}
SPECIFICATION tcqSpec
INVARIANTS HistoryIntact LastIsNewest
PROPERTIES TapeUntilCrowded
