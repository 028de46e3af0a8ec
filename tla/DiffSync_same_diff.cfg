SPECIFICATION Spec
CONSTANTS
  h1 = h1
  h2 = h2
  urlhaus = urlhaus
  openphish = openphish
  phishtank = phishtank
  Hashes <- MCHashes
  Providers <- MCProviders
  Bits <- MCBits
  Bit <- MCBit
  sync = TRUE
  ChunkRows = 1
  MaxFiles = 2
  Faults = {"error"}
  MaxFaults = 1
  MaxLate = 1
SYMMETRY Symmetry
PROPERTIES
  FailedRunRecomputesDiff
