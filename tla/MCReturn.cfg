CONSTANTS
  NULL = NULL
  Main = Main
  w1 = w1
  w2 = w2
  Worker <- MCWorkers
  NameOf <- MCNames
  MaxUsers = 3
  MaxQueue = 2
  NeedsCert <- MCNone
  MayQuit <- MCNone
  MayList <- MCNone
  OneLogin = TRUE
  MayFail <- MCTwo
  Conn <- MCTwo
  Scenarios <- MCInLobby
SPECIFICATION FairSpec
PROPERTY WorkersReturn
CHECK_DEADLOCK FALSE
