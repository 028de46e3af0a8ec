SPECIFICATION StatusSpec
CONSTANTS
  h1 = h1
  openphish = openphish
  Invalid = Invalid
  Hashes <- MCHash
  Providers <- MCProviders
  Bits <- MCBits
  Bit <- MCBit
  sync = TRUE
  ChunkRows = 1
  MaxFiles = 1
  Faults = {"error", "timeout", "straggler", "removeAll", "cancel", "crash", "loss"}
  MaxFaults = 3
  MaxLate = 1
INVARIANTS
  ErrorsSurface
PROPERTIES
  CleanReply
