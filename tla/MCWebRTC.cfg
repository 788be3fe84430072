SPECIFICATION Spec
CONSTANTS
  Peers = {p1}
  Capacity = 1
  MaxFrames = 2
CONSTRAINT PeersOrEviction
INVARIANTS NewestLast OpenPeersListed
PROPERTIES CallsReturn
\* The daemon stops the streamer once, and Stop may wait for ever.
CHECK_DEADLOCK FALSE
