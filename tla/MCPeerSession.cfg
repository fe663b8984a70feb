\* A host, the guest it expects, and another caller; any of them may leave.
SPECIFICATION SessionSpec
CONSTANTS
  NULL = NULL
  Garbage = Garbage
  FAIL = FAIL
  MAX_MSG_SIZE = 64
  MAX_USERNAME_LENGTH = 1
  MAX_USERS = 2
  BlobSize = 1
  Host <- MCHost
  Guest <- MCGuest
  Stranger <- MCStranger
  Stores <- MCStores
  Nonce <- MCNonce
  Column <- MCColumn
  MaxTries = 2
  MaxMoves = 2
  MayLeave <- MCUsers
INVARIANTS SessionTypeOK Agreement FreshIVs
PROPERTIES RecordsInOrder Settles
CHECK_DEADLOCK FALSE
