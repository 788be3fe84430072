SPECIFICATION RFSpec
CONSTANTS
  QueueCapacity = 2
  FrameCapacity = 2
  PoolSize = 3
  SamplesPerInput = 3
  FieldNum = 5
  FieldDen = 4
  AudioNum = 15
  AudioDen = 2
  CompactAt = 14
  MaxFrames = 12
  FrameLength = 7
  SamplesPerPacket = 3
  ContextInterval = 5
  VersionInterval = 11
  SequenceModulus = 4
  BatchPackets = 2
  MaxSentFrames = 4
INVARIANTS
  QueueSound
  BuffersConserved
  OutputFaithful
  StreamContinuous
  LossesTold
  Cadence
PROPERTIES
  Drains
\* The emulator may stop delivering frames, and the sender stops when it is cancelled.
CHECK_DEADLOCK FALSE
