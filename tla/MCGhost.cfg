CONSTANTS
  NULL = NULL
  Main = Main
  w1 = w1
  w2 = w2
  Worker <- MCWorkers
  NameOf <- MCNames
  MaxUsers = 3
  MaxQueue = 2
  NeedsCert <- MCNone
  MayQuit <- MCOne
  MayList <- MCNone
  OneLogin = TRUE
  MayFail <- MCNone
  Conn <- MCTwo
  Scenarios <- MCInLobby
SPECIFICATION Spec
PROPERTY DisconnectedIsFinal
CHECK_DEADLOCK FALSE
