SPECIFICATION WorkerSpec
CONSTANTS
  h1 = h1
  openphish = openphish
  phishtank = phishtank
  Invalid = Invalid
  Hashes <- MCHash
  Providers <- MCProviders
  Bits <- MCBits
  Bit <- MCBit
  sync = TRUE
  ChunkRows = 2
  MaxFiles = 1
  Faults = {"error"}
  MaxFaults = 0
  MaxLate = 0
INVARIANTS
  RecordsExact
