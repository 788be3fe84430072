SPECIFICATION Spec
CONSTANTS
  FrameDots = 29
  VBlankDot = 19
  InstructionCycles = {2, 5}
  EntryCycles = 7
  StallCycles = 4
  MaxFetches = 2
INVARIANTS
  VBlankQueuesNMI
