\* The start-up code has finished before the peer sends.
CONSTANTS
  f1 = f1
  f2 = f2
  NoFrame = NoFrame
  Frames = {f1, f2}
  BUFFER_NUM = 4
  BUFFER_SIZE = 128
  FRAME_SIZE = 138
  MaxFrames = 5
  EarlyReceive = FALSE
SPECIFICATION FairSpec
INVARIANTS FrameHasWakeup AtMostOneAfterClose
PROPERTIES FrameServed ImplementsFifo
CHECK_DEADLOCK FALSE
