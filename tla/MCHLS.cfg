SPECIFICATION HLSSpec
CONSTANTS
  FrameCapacity = 1
  BufferCapacity = 1
  MaxFrames = 3
  MaxStarts = 2
  r1 = r1
  r2 = r2
  p1 = p1
  Recorders = {r1, r2}
  Processes = {p1}
  ProcessOf <- OneProcess
  None = None
  MaxCrashes = 1
INVARIANTS
  FramesKept
  ManifestSound
PROPERTIES
  StopEndsOrMeetsPump
  StoppedReturns
\* Stop may wait for ever, and the daemon starts the streamer once.
CHECK_DEADLOCK FALSE
