CONSTANTS
  NULL = NULL
  Main = Main
  w1 = w1
  w2 = w2
  Worker <- MCWorkers
  NameOf <- MCNames
  MaxUsers = 3
  MaxQueue = 2
  NeedsCert <- MCNone
  MayQuit <- MCNone
  MayList <- MCNone
  OneLogin = TRUE
  MayFail <- MCNone
  Conn <- MCThree
  Scenarios <- MCTwoAsk
SPECIFICATION Spec
SYMMETRY MCSymmetry
INVARIANTS NoDeadlyEmbrace PointersKept PairsAgree
PROPERTY PairsMoveTogether
CHECK_DEADLOCK FALSE
