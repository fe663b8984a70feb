SPECIFICATION FairSpec
CONSTANTS
  Rows = 4
  Cols = 3
  N = 3
  NULL = NULL
  Junk = Junk
  Host = Host
  Guest = Guest
  Typed <- MCTyped
  MayLeave <- MCPeers
INVARIANTS MatchTypeOK PeersAgree
PROPERTIES OneGame MatchEnds
CHECK_DEADLOCK FALSE
