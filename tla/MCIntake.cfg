\* Streams cut into pieces of any size, two workers, and a queue of two places.
SPECIFICATION IntakeSpec
CONSTANTS
  NULL = NULL
  Garbage = Garbage
  MAX_MSG_SIZE = 20
  MAX_USERNAME_LENGTH = 2
  MAX_USERS = 2
  BlobSize = 1
  ToServer <- MCToServer
  ToClient <- MCToClient
  Scripts <- MCScripts
  Item <- MCItem
  Consumer = {w1, w2}
  MaxSize = 2
INVARIANTS QueueTypeOK IntakeTypeOK NoLostWakeup
PROPERTIES WorkIsServed SameMessages
