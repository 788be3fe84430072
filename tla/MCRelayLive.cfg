\* One slot, two connection attempts: the handshake race and the liveness of
\* handlers.
CONSTANTS
  c1 = c1
  c2 = c2
  Clients = {c1, c2}
  Feed <- MCRefreshFeed
  Size <- MCSize
  HeaderBytes = 1
  MaxBundleBytes = 6
  MaxBundlePackets = 2
  QueueCapacity = 1
  MaxCloses = 1
  MaxClients = 1
SPECIFICATION Spec
INVARIANTS NoSilentSkip ServedOrTold
PROPERTIES HandlersEnd
\* The feed is finite and every connection is attempted once: the model ends.
CHECK_DEADLOCK FALSE
