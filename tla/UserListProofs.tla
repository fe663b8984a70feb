--------------------------- MODULE UserListProofs ---------------------------
(***************************************************************************)
(* What is proved of UserList for every set of users, names, descriptors   *)
(* and pointer variables and every MaxUsers.  All of it follows from one   *)
(* inductive invariant, UserListInv; its heart is RefsCover, which makes   *)
(* "the count is zero" mean "nobody points to this user".                  *)
(***************************************************************************)
EXTENDS UserList, FiniteSetTheorems, TLAPS

-----------------------------------------------------------------------------
(* Pointers to a user form a finite set, and where there is one of them    *)
(* the count of a well-counted user is positive.                           *)
LEMMA HoldersFinite ==
  ASSUME NEW ptr, NEW u
  PROVE  /\ IsFiniteSet(Holders(ptr, u))
         /\ Cardinality(Holders(ptr, u)) \in Nat
  <1>1. Holders(ptr, u) \in SUBSET Ref
    BY DEF Holders
  <1>2. IsFiniteSet(Holders(ptr, u))
    BY <1>1, FS_Subset, UserListAssumption
  <1>3. QED
    BY <1>2, FS_CardinalityType

LEMMA PointerIsCounted ==
  ASSUME NEW ptr, NEW r \in Ref
  PROVE  Cardinality(Holders(ptr, ptr[r])) > 0
  <1>1. Holders(ptr, ptr[r]) # {}
    BY DEF Holders
  <1>2. Cardinality(Holders(ptr, ptr[r])) # 0
    BY <1>1, HoldersFinite, FS_EmptySet
  <1>3. QED
    BY <1>2, HoldersFinite

LEMMA HeldIsCounted ==
  ASSUME UserListTypeOK, RefsCover,
         NEW r \in Ref, held[r] # NULL
  PROVE  /\ held[r] \in User
         /\ refs[held[r]] > 0
  <1>1. held[r] \in User /\ refs[held[r]] \in Nat
    BY DEF UserListTypeOK
  <1>2. Cardinality(Holders(held, held[r])) <= refs[held[r]]
    BY <1>1 DEF RefsCover
  <1>3. QED
    BY <1>1, <1>2, PointerIsCounted, HoldersFinite

(* The pointers to a user after one of them is dropped, and after one that *)
(* pointed nowhere is made to point to x.                                  *)
LEMMA HoldersAfterDrop ==
  ASSUME NEW ptr \in [Ref -> User \cup {NULL}],
         NEW r \in Ref, NEW u \in User
  PROVE  Cardinality(Holders([ptr EXCEPT ![r] = NULL], u)) =
           IF u = ptr[r] THEN Cardinality(Holders(ptr, u)) - 1
                         ELSE Cardinality(Holders(ptr, u))
  <1>1. Holders([ptr EXCEPT ![r] = NULL], u) = Holders(ptr, u) \ {r}
    BY UserListAssumption DEF Holders
  <1>2. u = ptr[r] <=> r \in Holders(ptr, u)
    BY DEF Holders
  <1>3. QED
    BY <1>1, <1>2, HoldersFinite, FS_RemoveElement

LEMMA HoldersAfterTake ==
  ASSUME NEW ptr \in [Ref -> User \cup {NULL}],
         NEW r \in Ref, ptr[r] = NULL,
         NEW v \in User, NEW w \in User
  PROVE  Cardinality(Holders([ptr EXCEPT ![r] = v], w)) =
           Cardinality(Holders(ptr, w)) + (IF w = v THEN 1 ELSE 0)
  <1>1. Holders([ptr EXCEPT ![r] = v], w) =
          IF w = v THEN Holders(ptr, w) \cup {r} ELSE Holders(ptr, w)
    BY UserListAssumption DEF Holders
  <1>2. r \notin Holders(ptr, w)
    BY UserListAssumption DEF Holders
  <1>3. QED
    BY <1>1, <1>2, HoldersFinite, FS_AddElement

(* Taking a pointer and counting it keeps the count covering the pointers. *)
LEMMA TakeKeepsCover ==
  ASSUME UserListTypeOK, RefsCover, NEW r \in Ref, NEW x \in User,
         held[r] = NULL,
         held' = [held EXCEPT ![r] = x],
         refs' = [refs EXCEPT ![x] = @ + 1]
  PROVE  RefsCover'
  <1> SUFFICES ASSUME NEW u \in User
               PROVE  Cardinality(Holders(held', u)) <= refs'[u]
    BY DEF RefsCover
  <1>1. Cardinality(Holders(held, u)) <= refs[u]
    BY DEF RefsCover
  <1>2. held \in [Ref -> User \cup {NULL}] /\ refs \in [User -> Nat]
    BY DEF UserListTypeOK
  <1>3. Cardinality(Holders([held EXCEPT ![r] = x], u)) =
          Cardinality(Holders(held, u)) + (IF u = x THEN 1 ELSE 0)
    BY <1>2, HoldersAfterTake
  <1>4. QED
    BY <1>1, <1>2, <1>3, HoldersFinite

-----------------------------------------------------------------------------
(* One lemma per operation: it keeps the inductive invariant.              *)
LEMMA AcceptKeepsInv ==
  ASSUME UserListInv, NEW u \in User, NEW f \in Fd, Accept(u, f)
  PROVE  UserListInv'
  <1> USE UserListAssumption DEF UserListInv, UserListTypeOK, Accept
  <1>1. byFd[f] = NULL
    BY DEF IndexSound, OpenFds
  <1>2. byFd' = byFd \/ byFd' = [byFd EXCEPT ![f] = u]
    BY <1>1 DEF Inserted
  <1>3. UserListTypeOK'
    BY <1>2
  <1>a. \A x \in User : heap[x] = "live" =>
           heap'[x] = "live" /\ fdOf'[x] = fdOf[x] /\ fdOf[x] \in Fd /\ fdOf[x] # f
    BY DEF FreshUsers, OpenFds
  <1>b. \A g \in Fd : g # f => byFd'[g] = byFd[g]
    BY <1>2
  <1>4. HeldAlive'
    BY DEF HeldAlive
  <1>5. IndexSound'
    <2>1. ASSUME NEW n \in Name, byName'[n] # NULL
          PROVE  /\ heap'[byName'[n]] = "live"
                 /\ uname'[byName'[n]] = n
                 /\ byFd'[fdOf'[byName'[n]]] = byName'[n]
      BY <1>a, <1>b, <2>1 DEF IndexSound
    <2>2. ASSUME NEW g \in Fd, byFd'[g] # NULL
          PROVE  heap'[byFd'[g]] = "live" /\ fdOf'[byFd'[g]] = g
      <3>1. CASE g = f
        BY <1>1, <1>2, <2>2, <3>1
      <3>2. CASE g # f
        BY <1>a, <1>b, <2>2, <3>2 DEF IndexSound
      <3>3. QED
        BY <3>1, <3>2
    <2>3. QED
      BY <2>1, <2>2 DEF IndexSound
  <1>6. HeldIndexed'
    BY <1>a, <1>b DEF HeldIndexed, HeldAlive
  <1>7. NoZombie'
    BY DEF NoZombie, FreshUsers
  <1>8. RefsCover'
    BY DEF RefsCover, Holders
  <1>9. FreshUsers'
    BY DEF FreshUsers
  <1>10. QED
    BY <1>3, <1>4, <1>5, <1>6, <1>7, <1>8, <1>9

LEMMA AddNamedKeepsInv ==
  ASSUME UserListInv, NEW u \in User, AddNamed(u)
  PROVE  UserListInv'
  <1> USE UserListAssumption DEF UserListInv, UserListTypeOK, AddNamed
  <1>1. heap[u] = "live" /\ byFd[fdOf[u]] = u
    BY DEF IsHeld, HeldAlive, HeldIndexed
  <1>2. uname[u] \in Name
    OBVIOUS
  <1>3. byFd' = byFd
    BY <1>1 DEF Inserted, maps
  <1>4. byName' = byName \/ byName' = [byName EXCEPT ![uname[u]] = u]
    BY DEF Inserted, maps
  <1>5. UserListTypeOK'
    BY <1>2, <1>3, <1>4
  <1>6. IndexSound'
    BY <1>1, <1>2, <1>3, <1>4 DEF IndexSound
  <1>7. HeldAlive' /\ HeldIndexed' /\ NoZombie' /\ RefsCover' /\ FreshUsers'
    BY <1>3 DEF HeldAlive, HeldIndexed, NoZombie, RefsCover, FreshUsers, Holders
  <1>8. QED
    BY <1>5, <1>6, <1>7

LEMMA TakeKeepsInv ==
  ASSUME UserListInv, NEW r \in Ref, NEW x \in User \cup {NULL}, Take(r, x),
         x # NULL => heap[x] = "live" /\ byFd[fdOf[x]] = x
  PROVE  UserListInv'
  <1> USE UserListAssumption DEF UserListInv, UserListTypeOK, Take
  <1>1. CASE x = NULL
    <2>1. held' = held /\ refs' = refs
      BY <1>1
    <2>2. QED
      BY <2>1 DEF HeldAlive, IndexSound, HeldIndexed, NoZombie, RefsCover,
                  FreshUsers, Holders
  <1>2. CASE x # NULL
    <2>1. x \in User /\ refs' = [refs EXCEPT ![x] = @ + 1]
      BY <1>2
    <2>2. UserListTypeOK'
      BY <2>1
    <2>3. HeldAlive' /\ HeldIndexed'
      BY <1>2 DEF HeldAlive, HeldIndexed
    <2>4. IndexSound' /\ FreshUsers'
      BY DEF IndexSound, FreshUsers
    <2>5. NoZombie'
      BY <2>1 DEF NoZombie
    <2>6. RefsCover'
      <3>1. held[r] = NULL /\ held' = [held EXCEPT ![r] = x]
        OBVIOUS
      <3>2. QED
        BY <2>1, <3>1, TakeKeepsCover
    <2>7. QED
      BY <2>2, <2>3, <2>4, <2>5, <2>6
  <1>3. QED
    BY <1>1, <1>2

LEMMA GetKeepsInv ==
  ASSUME UserListInv, NEW r \in Ref,
         \/ \E n \in Name : GetByName(r, n)
         \/ \E f \in Fd : GetByFd(r, f)
  PROVE  UserListInv'
  <1>1. ASSUME NEW f \in Fd, GetByFd(r, f)
        PROVE  UserListInv'
    <2>1. byFd[f] # NULL => heap[byFd[f]] = "live" /\ byFd[fdOf[byFd[f]]] = byFd[f]
      BY DEF UserListInv, IndexSound
    <2>2. byFd[f] \in User \cup {NULL}
      BY DEF UserListInv, UserListTypeOK
    <2>3. QED
      BY <1>1, <2>1, <2>2, TakeKeepsInv DEF GetByFd
  <1>2. ASSUME NEW n \in Name, GetByName(r, n)
        PROVE  UserListInv'
    <2>1. byName[n] # NULL =>
             heap[byName[n]] = "live" /\ byFd[fdOf[byName[n]]] = byName[n]
      BY DEF UserListInv, IndexSound
    <2>2. byName[n] \in User \cup {NULL}
      BY DEF UserListInv, UserListTypeOK
    <2>3. QED
      BY <1>2, <2>1, <2>2, TakeKeepsInv DEF GetByName
  <1>3. QED
    BY <1>1, <1>2

LEMMA YieldKeepsInv ==
  ASSUME UserListInv, NEW r \in Ref, Yield(r)
  PROVE  UserListInv'
  <1> DEFINE u == held[r]
  <1> USE UserListAssumption DEF UserListInv, UserListTypeOK
  <1>1. /\ u \in User
        /\ refs[u] > 0
        /\ heap[u] = "live"
        /\ fdOf[u] \in Fd
        /\ byFd[fdOf[u]] = u
    BY HeldIsCounted DEF Yield, HeldAlive, HeldIndexed, FreshUsers
  <1>2. /\ held' = [held EXCEPT ![r] = NULL]
        /\ refs' = [refs EXCEPT ![u] = @ - 1]
        /\ UNCHANGED <<uname, ustate, fdOf>>
    BY DEF Yield
  <1>3. refs' \in [User -> Nat]
    BY <1>1, <1>2
  <1>4. RefsCover'
    <2> SUFFICES ASSUME NEW x \in User
                 PROVE  Cardinality(Holders(held', x)) <= refs'[x]
      BY DEF RefsCover
    <2>1. Cardinality(Holders(held, x)) <= refs[x]
      BY DEF RefsCover
    <2>2. Cardinality(Holders(held', x)) =
            IF x = u THEN Cardinality(Holders(held, x)) - 1
                     ELSE Cardinality(Holders(held, x))
      BY <1>2, HoldersAfterDrop
    <2>3. QED
      BY <1>1, <1>2, <2>1, <2>2, HoldersFinite
  <1>5. CASE ~Destroys(u, refs[u] - 1)
    <2>1. UNCHANGED <<heap, byName, byFd>>
      BY <1>5 DEF Yield, maps
    <2>2. UserListTypeOK'
      BY <1>2, <1>3, <2>1
    <2>3. HeldAlive' /\ HeldIndexed' /\ IndexSound' /\ FreshUsers'
      BY <1>2, <2>1 DEF HeldAlive, HeldIndexed, IndexSound, FreshUsers
    <2>4. NoZombie'
      BY <1>1, <1>2, <1>5, <2>1 DEF NoZombie, Destroys
    <2>5. QED
      BY <1>4, <2>2, <2>3, <2>4
  <1>6. CASE Destroys(u, refs[u] - 1)
    <2>1. /\ byName' = IF uname[u] = NoName THEN byName
                                            ELSE [byName EXCEPT ![uname[u]] = NULL]
          /\ byFd' = [byFd EXCEPT ![fdOf[u]] = NULL]
          /\ heap' = [heap EXCEPT ![u] = "deleted"]
      BY <1>6 DEF Yield, Unlist, Erased
    <2>2. UserListTypeOK'
      BY <1>1, <1>2, <1>3, <2>1
    <2>3. \A q \in Ref : held'[q] # u
      <3>1. refs'[u] = 0
        BY <1>1, <1>2, <1>6 DEF Destroys
      <3>2. SUFFICES ASSUME NEW q \in Ref, held'[q] = u
                     PROVE  FALSE
        OBVIOUS
      <3>3. Cardinality(Holders(held', u)) <= 0
        BY <1>1, <1>4, <3>1 DEF RefsCover
      <3>4. Cardinality(Holders(held', u)) > 0
        BY <3>2, PointerIsCounted
      <3>5. QED
        BY <3>3, <3>4, HoldersFinite
    <2>4. HeldAlive'
      BY <1>2, <2>1, <2>3 DEF HeldAlive
    <2>5. \A n \in Name : byName'[n] # NULL => byName'[n] = byName[n] /\ byName[n] # u
      BY <1>1, <2>1 DEF IndexSound
    <2>6. \A f \in Fd : byFd'[f] # NULL => byFd'[f] = byFd[f] /\ byFd[f] # u
      BY <1>1, <2>1 DEF IndexSound
    <2>7. \A x \in User : x # u /\ byFd[fdOf[x]] = x => byFd'[fdOf[x]] = x
      BY <1>1, <2>1
    <2>8. IndexSound'
      <3>1. ASSUME NEW n \in Name, byName'[n] # NULL
            PROVE  /\ heap'[byName'[n]] = "live"
                   /\ uname'[byName'[n]] = n
                   /\ byFd'[fdOf'[byName'[n]]] = byName'[n]
        <4>1. byName[n] \in User /\ byName[n] # u /\ byName'[n] = byName[n]
          BY <2>5, <3>1
        <4>2. QED
          BY <1>2, <2>1, <2>7, <4>1 DEF IndexSound
      <3>2. ASSUME NEW f \in Fd, byFd'[f] # NULL
            PROVE  heap'[byFd'[f]] = "live" /\ fdOf'[byFd'[f]] = f
        BY <1>2, <2>1, <2>6, <3>2 DEF IndexSound
      <3>3. QED
        BY <3>1, <3>2 DEF IndexSound
    <2>9. HeldIndexed'
      <3> SUFFICES ASSUME NEW q \in Ref, held'[q] # NULL
                   PROVE  byFd'[fdOf'[held'[q]]] = held'[q]
        BY DEF HeldIndexed
      <3>1. held'[q] = held[q] /\ held[q] \in User /\ held[q] # u
        BY <1>2, <2>3
      <3>2. QED
        BY <1>2, <2>7, <3>1 DEF HeldIndexed
    <2>10. NoZombie' /\ FreshUsers'
      BY <1>1, <1>2, <2>1 DEF NoZombie, FreshUsers
    <2>11. QED
      BY <1>4, <2>2, <2>4, <2>8, <2>9, <2>10
  <1>7. QED
    BY <1>5, <1>6

LEMMA ForgetKeepsInv ==
  ASSUME UserListInv, NEW r \in Ref, Forget(r)
  PROVE  UserListInv'
  <1> USE UserListAssumption DEF UserListInv, UserListTypeOK, Forget
  <1>1. UserListTypeOK' /\ HeldAlive' /\ IndexSound' /\ HeldIndexed'
        /\ NoZombie' /\ FreshUsers'
    BY DEF HeldAlive, IndexSound, HeldIndexed, NoZombie, FreshUsers
  <1>2. RefsCover'
    <2> SUFFICES ASSUME NEW x \in User
                 PROVE  Cardinality(Holders(held', x)) <= refs[x]
      BY DEF RefsCover
    <2>1. Cardinality(Holders(held, x)) <= refs[x]
      BY DEF RefsCover
    <2>2. Cardinality(Holders(held', x)) =
            IF x = held[r] THEN Cardinality(Holders(held, x)) - 1
                           ELSE Cardinality(Holders(held, x))
      <3>1. /\ held \in [Ref -> User \cup {NULL}]
            /\ held' = [held EXCEPT ![r] = NULL]
        OBVIOUS
      <3> HIDE DEF UserListInv, UserListTypeOK, Forget
      <3>2. QED
        BY <3>1, HoldersAfterDrop
    <2>3. Cardinality(Holders(held, x)) \in Nat /\ refs[x] \in Nat
      BY HoldersFinite
    <2>4. QED
      BY <2>1, <2>2, <2>3
  <1>3. QED
    BY <1>1, <1>2

LEMMA WritesKeepInv ==
  ASSUME UserListInv,
         \/ \E U \in SUBSET User : \E f \in [U -> UserState] : SetStates(f)
         \/ \E u \in User, n \in Name : SetUsername(u, n)
  PROVE  UserListInv'
  <1> USE UserListAssumption DEF UserListInv, UserListTypeOK
  <1>1. ASSUME NEW U \in SUBSET User, NEW f \in [U -> UserState], SetStates(f)
        PROVE  UserListInv'
    <2>1. \A u \in U : heap[u] = "live" /\ refs[u] > 0
      BY <1>1, HeldIsCounted DEF SetStates, IsHeld, HeldAlive
    <2>2. UserListTypeOK'
      BY <1>1 DEF SetStates
    <2>3. NoZombie' /\ FreshUsers'
      BY <1>1, <2>1 DEF SetStates, NoZombie, FreshUsers
    <2>4. HeldAlive' /\ IndexSound' /\ HeldIndexed' /\ RefsCover'
      BY <1>1 DEF SetStates, HeldAlive, IndexSound, HeldIndexed, RefsCover, Holders
    <2>5. QED
      BY <2>2, <2>3, <2>4
  <1>2. ASSUME NEW u \in User, NEW n \in Name, SetUsername(u, n)
        PROVE  UserListInv'
    <2>1. \A m \in Name : byName[m] # u
      BY <1>2 DEF SetUsername, IndexSound
    <2>2. UserListTypeOK'
      BY <1>2 DEF SetUsername
    <2>3. IndexSound'
      BY <1>2, <2>1 DEF SetUsername, IndexSound
    <2>4. HeldAlive' /\ HeldIndexed' /\ RefsCover' /\ NoZombie' /\ FreshUsers'
      BY <1>2 DEF SetUsername, HeldAlive, HeldIndexed, RefsCover, Holders,
                  NoZombie, FreshUsers
    <2>5. QED
      BY <2>2, <2>3, <2>4
  <1>3. QED
    BY <1>1, <1>2

-----------------------------------------------------------------------------
LEMMA InitEstablishesInv == Init => UserListInv
  <1> SUFFICES ASSUME Init
               PROVE  UserListInv
    OBVIOUS
  <1> USE UserListAssumption DEF Init
  <1>1. UserListTypeOK
    BY DEF UserListTypeOK
  <1>2. \A u \in User : Holders(held, u) = {}
    BY DEF Holders
  <1>3. \A u \in User : refs[u] = 0
    OBVIOUS
  <1>4. RefsCover
    <2> HIDE DEF Init
    <2>1. QED
      BY <1>2, <1>3, FS_EmptySet DEF RefsCover
  <1>5. HeldAlive /\ IndexSound /\ HeldIndexed /\ NoZombie /\ FreshUsers
    BY DEF HeldAlive, IndexSound, HeldIndexed, NoZombie, FreshUsers
  <1>6. QED
    BY <1>1, <1>4, <1>5 DEF UserListInv

LEMMA StepKeepsInv == UserListInv /\ [Next]_userVars => UserListInv'
  <1> SUFFICES ASSUME UserListInv, [Next]_userVars
               PROVE  UserListInv'
    OBVIOUS
  <1>1. ASSUME NEW u \in User, NEW f \in Fd, Accept(u, f)
        PROVE  UserListInv'
    BY <1>1, AcceptKeepsInv
  <1>2. ASSUME NEW u \in User, AddNamed(u)
        PROVE  UserListInv'
    BY <1>2, AddNamedKeepsInv
  <1>3. ASSUME NEW r \in Ref, NEW n \in Name, GetByName(r, n)
        PROVE  UserListInv'
    BY <1>3, GetKeepsInv
  <1>4. ASSUME NEW r \in Ref, NEW f \in Fd, GetByFd(r, f)
        PROVE  UserListInv'
    BY <1>4, GetKeepsInv
  <1>5. ASSUME NEW r \in Ref, Yield(r)
        PROVE  UserListInv'
    BY <1>5, YieldKeepsInv
  <1>6. ASSUME NEW r \in Ref, Forget(r)
        PROVE  UserListInv'
    BY <1>6, ForgetKeepsInv
  <1>7. ASSUME NEW U \in SUBSET User, NEW f \in [U -> UserState], SetStates(f)
        PROVE  UserListInv'
    BY <1>7, WritesKeepInv
  <1>8. ASSUME NEW u \in User, NEW n \in Name, SetUsername(u, n)
        PROVE  UserListInv'
    BY <1>8, WritesKeepInv
  <1>9. CASE UNCHANGED userVars
    BY <1>9 DEF userVars, UserListInv, UserListTypeOK, HeldAlive, IndexSound,
                HeldIndexed, NoZombie, RefsCover, FreshUsers, Holders
  <1>10. QED
    BY <1>1, <1>2, <1>3, <1>4, <1>5, <1>6, <1>7, <1>8, <1>9 DEF Next

(* The inductive invariant holds in every reachable state.                 *)
LEMMA InvHolds == Spec => []UserListInv
  <1>1. QED
    BY InitEstablishesInv, StepKeepsInv, PTL DEF Spec

(* Type correctness of the list; in it, refs \in [User -> Nat] says that   *)
(* the unsigned reference count never wraps below zero.                    *)
THEOREM UserListTypeCorrect == Spec => []UserListTypeOK
  <1>1. UserListInv => UserListTypeOK
    BY DEF UserListInv
  <1>2. QED
    BY <1>1, InvHolds, PTL

(* No thread ever points to a destroyed User, whatever the threads do with *)
(* the list: no use after free.                                            *)
THEOREM NoUseAfterFree == Spec => []HeldAlive
  <1>1. UserListInv => HeldAlive
    BY DEF UserListInv
  <1>2. QED
    BY <1>1, InvHolds, PTL

(* The two maps never lead to a destroyed User nor to a user with another  *)
(* name or descriptor.                                                     *)
THEOREM IndexNeverDangles == Spec => []IndexSound
  <1>1. UserListInv => IndexSound
    BY DEF UserListInv
  <1>2. QED
    BY <1>1, InvHolds, PTL

(* A user in use by a thread is never unlisted.                            *)
THEOREM UsersInUseStayListed == Spec => []HeldIndexed
  <1>1. UserListInv => HeldIndexed
    BY DEF UserListInv
  <1>2. QED
    BY <1>1, InvHolds, PTL

(* A disconnected user that still exists has a reference out whose return  *)
(* destroys it.                                                            *)
THEOREM DisconnectedUsersAreReclaimable == Spec => []NoZombie
  <1>1. UserListInv => NoZombie
    BY DEF UserListInv
  <1>2. QED
    BY <1>1, InvHolds, PTL
=============================================================================
