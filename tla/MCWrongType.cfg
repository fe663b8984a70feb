CONSTANTS
  NULL = NULL
  Main = Main
  w1 = w1
  w2 = w2
  Worker <- MCWorkers
  NameOf <- MCNames
  MaxUsers = 3
  MaxQueue = 2
  NeedsCert <- MCNone
  MayQuit <- MCNone
  MayList <- MCOne
  OneLogin = TRUE
  MayFail <- MCNone
  Conn <- MCTwo
  Scenarios <- MCInLobby
SPECIFICATION Spec
PROPERTY OthersIgnored
CHECK_DEADLOCK FALSE
