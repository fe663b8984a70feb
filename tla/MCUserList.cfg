\* The list alone, under every legal order of calls.
SPECIFICATION Spec
CONSTANTS
  User = {u1, u2, u3}
  Name = {n1, n2}
  Fd = {f1, f2, f3}
  Ref = {r1, r2}
  MaxUsers = 2
  MaxRefs = 3
  UserState <- MCUserState
  NULL = NULL
  NoName = NoName
SYMMETRY MCSymmetry
INVARIANT UserListTypeOK
INVARIANT HeldAlive
INVARIANT IndexSound
INVARIANT HeldIndexed
INVARIANT NoZombie
CONSTRAINT MCRefsBound
