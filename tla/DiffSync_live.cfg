SPECIFICATION FairSpec
CONSTANTS
  h1 = h1
  h2 = h2
  urlhaus = urlhaus
  openphish = openphish
  phishtank = phishtank
  Hashes <- MCHashes
  Providers <- MCTwoFeeds
  Bits <- MCBits
  Bit <- MCBit
  sync = TRUE
  ChunkRows = 1
  MaxFiles = 2
  Faults = {"error", "timeout", "cancel", "crash"}
  MaxFaults = 2
  MaxLate = 1
PROPERTIES
  EventuallyListed
