\* A board of each kind and the scaled devices of MCDevices.
SPECIFICATION DevicesSpec
CONSTANTS
  Boards <- MCBoards
  Bytes <- MCBytes
  CounterTop = 2
  MaxBankWrites = 2
  VisibleLines = 2
  Lines = 4
  Period = 5
  Rates = {1, 2}
  BitsPerByte = 2
  SampleAddrs = {6}
  AddrTop = 7
  AddrWrap = 4
  SampleLengths = {1, 3}
  FetchStall = 4
  Instruction = 4
  Step <- MCStep
  LongEnd = 11
  WriteDelay = 2
  MaxAge = 23
  Lengths = {1, 3}
  Periods = {0, 1}
  Reloads = {0, 2}
  DecayTop = 2
  LowSize = 4
  HighSize = 4
  Lows = {0, 3}
  Shifts = {0, 1}
  MinTimer = 2
  MaxTicks = 7
  PictureWidth = 6
  PictureHeight = 2
  DotsPerLine = 8
  VBlankLine = 3
  LinesPerFrame = 4
  Tile = 2
  Delays = {0, 2, 4}
  Capacity = 3
  MaxLineWrites = 3
  TileDots = 2
  Cols = 3
  Rows = 2
  AllRows = 4
  LowRows = 2
  Height = 3
  PrefetchAt = 9
  LineDots = 13
  ScrollLines = 5
  CopyFrom = 8
  CopyTo = 9
  XScrolls <- MCXScrolls
  YScrolls <- MCYScrolls
  Tables <- MCTables
  Addresses <- MCAddresses
  MaxWrites = 3
CONSTRAINT BanksOrCounters
INVARIANTS
  FetchesSound
  SerialPort
  SampleSound
  SequencerInStep
  ChannelSound
  PictureFollowsWrites
  ScrollSound
PROPERTIES
  IRQOnItsLine
  NoGapInSample
