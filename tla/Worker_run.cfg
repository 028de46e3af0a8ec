SPECIFICATION WorkerSpec
CONSTANTS
  h1 = h1
  openphish = openphish
  phishtank = phishtank
  Invalid = Invalid
  Hashes <- MCHash
  Providers <- MCProviders
  Bits <- MCBits
  Bit <- MCBit
  sync = TRUE
  ChunkRows = 2
  MaxFiles = 1
  Faults = {"error", "timeout", "cancel", "crash", "loss"}
  MaxFaults = 2
  MaxLate = 1
INVARIANTS
  WorkerTypeOK
PROPERTIES
  ImplementsDiffSync
  RotatesWhatWasAccepted
  RotatesReported
