CONSTANTS
  NULL = NULL
  Main = Main
  w1 = w1
  w2 = w2
  Worker <- MCWorkers
  NameOf <- MCNames
  MaxUsers = 3
  MaxQueue = 2
  NeedsCert <- MCNone
  MayQuit <- MCSecond
  MayList <- MCNone
  OneLogin = TRUE
  MayFail <- MCTwo
  Conn <- MCTwo
  Scenarios <- MCOneAsks
SPECIFICATION LiveSpec
PROPERTY ChallengeAnswered
CHECK_DEADLOCK FALSE
