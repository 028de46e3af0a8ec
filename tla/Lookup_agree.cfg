SPECIFICATION LookupSpec
CONSTANTS
  Lower <- MCLower
  Numbers <- MCNumbers
  Ports <- MCPorts
  Fed <- PathURLs
  Asked <- PathURLs
  Tables = {"abuse_feeds", "bad_url"}
  MaxFed = 1
INVARIANTS
  CanonicalisersAgree
