SPECIFICATION FetchSpec
CONSTANTS
  h1 = h1
  h2 = h2
  openphish = openphish
  Invalid = Invalid
  Hashes <- MCHashes
  Providers <- MCProviders
  Bits <- MCBits
  Bit <- MCBit
  Lists <- MCLists
  Fragment <- MCFragment
  SendMaxAttempts = 2
  DbAttempt = 3
  sync = TRUE
  ChunkRows = 2
  MaxFiles = 1
  Faults = {"error"}
  MaxFaults = 0
  MaxLate = 0
INVARIANTS
  StoresOnlyListed
