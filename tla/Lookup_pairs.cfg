SPECIFICATION LookupSpec
CONSTANTS
  Lower <- MCLower
  Numbers <- MCNumbers
  Ports <- MCPorts
  Fed <- AllURLs
  Asked <- AllURLs
  Tables = {"abuse_feeds", "bad_url"}
  MaxFed = 1
INVARIANTS
  LookupTypeOK
  AnswerExact
  AgreedIsFound
  RespellingFound
  AcceptedAlike
  PathIsClean
