SPECIFICATION FetchFairSpec
CONSTANTS
  h1 = h1
  h2 = h2
  openphish = openphish
  Invalid = Invalid
  Hashes <- MCHashes
  Providers <- MCProviders
  Bits <- MCBits
  Bit <- MCBit
  Lists <- MCLists
  Fragment <- MCFragment
  SendMaxAttempts = 2
  DbAttempt = 3
  sync = TRUE
  ChunkRows = 2
  MaxFiles = 1
  Faults = {"error", "cancel", "crash", "loss"}
  MaxFaults = 2
  MaxLate = 0
INVARIANTS
  FetchTypeOK
  StoresListedOrFragment
PROPERTIES
  ImplementsWorker
  SilentFeedIsPublished
  FetchEnds
