SPECIFICATION SystemSpec
CONSTANTS
  FrameDots = 29
  VBlankDot = 19
  InstructionCycles = {2, 5}
  EntryCycles = 7
  StallCycles = 4
  MaxFetches = 2
  ROMs = {"r1"}
  Buttons = {"A", "none"}
  Released = "none"
  Replays <- MCReplays
  Requests <- MCRequests
  FramesPerInput = 1
  MaxSteps = 3
  MaxCalls = 3
  Width = 3
  States <- MCStates
  Handlers = {"h1", "h2"}
  MaxReads = 2
  Second = 8
  TargetFPS = 3
  MaxCatchUp = 2
  MaxTime = 40
INVARIANTS
  TypeOK
  Lockstep
  IRQFaithful
  ReplayFaithful
  PairsMatch
  SimulationFromBase
  ReadsFollowLatch
  ClockSound
PROPERTIES
  NMIFaithful
