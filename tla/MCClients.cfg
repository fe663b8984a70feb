CONSTANTS
  NULL = NULL
  Main = Main
  w1 = w1
  w2 = w2
  Worker <- MCWorkers
  NameOf <- MCNames
  MaxUsers = 3
  MaxQueue = 2
  NeedsCert <- MCSecond
  MayQuit <- MCOne
  MayList <- MCOne
  OneLogin = TRUE
  MayFail <- MCSecond
  Conn <- MCTwo
  Scenarios <- MCClients
SPECIFICATION Spec
SYMMETRY MCSymmetry
INVARIANTS SystemTypeOK AuthenticSession PairsAgree MutualExclusion
PROPERTY StatesMoveTogether
CHECK_DEADLOCK FALSE
