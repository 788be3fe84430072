SPECIFICATION Spec
CONSTANTS
  FrameCapacity = 1
  BufferCapacity = 1
  MaxFrames = 1
  MaxStarts = 1
PROPERTIES
  StopReturns
CHECK_DEADLOCK FALSE
