\* Two slots, three connection attempts, one queued bundle per client.
CONSTANTS
  c1 = c1
  c2 = c2
  c3 = c3
  Clients = {c1, c2, c3}
  Feed <- MCFeed
  Size <- MCSize
  HeaderBytes = 1
  MaxBundleBytes = 6
  MaxBundlePackets = 2
  QueueCapacity = 1
  MaxCloses = 0
  MaxClients = 2
SPECIFICATION SafetySpec
SYMMETRY Symmetry
VIEW View
INVARIANTS LimitsHold
PROPERTIES ImplementsContract
\* The feed is finite and every connection is attempted once: the model ends.
CHECK_DEADLOCK FALSE
