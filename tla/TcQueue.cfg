\* The operations on segments to run, the appender ignoring tcqFull as it does today.
CONSTANTS
  s1 = s1
  s2 = s2
  NoSegment = NoSegment
  Segments = {s1, s2}
  Size = 4
  TCQ_REVERSE_MARGIN = 2
  ExtraMargin = 1
  Ops = {"Init", "Remove"}
SPECIFICATION tcqSpec
INVARIANT AllFullExact
PROPERTIES ImplementsTape
