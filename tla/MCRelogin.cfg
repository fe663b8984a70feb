CONSTANTS
  NULL = NULL
  Main = Main
  w1 = w1
  w2 = w2
  Worker <- MCWorkers
  NameOf <- MCOneName
  MaxUsers = 3
  MaxQueue = 2
  NeedsCert <- MCNone
  MayQuit <- MCNone
  MayList <- MCNone
  OneLogin = FALSE
  MayFail <- MCNone
  Conn <- MCTwo
  Scenarios <- MCOneOn
SPECIFICATION Spec
SYMMETRY MCSymmetry
INVARIANT NamedAreFound
CHECK_DEADLOCK FALSE
