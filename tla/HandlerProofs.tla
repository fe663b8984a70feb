---------------------------- MODULE HandlerProofs ----------------------------
(***************************************************************************)
(* The handlers of the server that lock two users.                         *)
(*                                                                         *)
(* First, that workers never wait for one another in a circle.  Of two     *)
(* names doubleLock locks the smaller first, which is enough as long as    *)
(* the two users have different names.  Nothing keeps two clients from     *)
(* logging in with one name, the second while the first is being destroyed *)
(* or because both find the name free; then doubleLock takes the mutexes   *)
(* in the order of arrival, and what excludes a circle is the map by name: *)
(* all who look for a name find the same user, who never looks for his     *)
(* own name in turn.                                                       *)
(*                                                                         *)
(* Second, that challenges and games begin for two users at once.  The     *)
(* handlers look at the states of both users in one step and change them   *)
(* in another, and between the two only the main thread or a worker        *)
(* without the lock can interfere, who write nothing but DISCONNECTED.     *)
(***************************************************************************)
EXTENDS SystemProofs

(* A finite set has an element that is greatest by a measure.              *)
LEMMA MaximumExists ==
  ASSUME NEW H, IsFiniteSet(H), H # {}, NEW key \in [H -> Nat]
  PROVE  \E v \in H : \A u \in H : key[u] <= key[v]
  <1> DEFINE Above(v) == {u \in H : key[u] > key[v]}
             Counts == {Cardinality(Above(v)) : v \in H}
  <1>1. \A v \in H : IsFiniteSet(Above(v)) /\ Cardinality(Above(v)) \in Nat
    <2> SUFFICES ASSUME NEW v \in H
                 PROVE  IsFiniteSet(Above(v)) /\ Cardinality(Above(v)) \in Nat
      OBVIOUS
    <2>1. IsFiniteSet(Above(v))
      BY FS_Subset
    <2>2. QED
      BY <2>1, FS_CardinalityType
  <1>2. Counts \in SUBSET Nat /\ Counts # {}
    BY <1>1
  <1>3. \E n \in Counts : \A m \in Counts : n <= m
    <2> HIDE DEF Counts
    <2>1. QED
      BY <1>2, LeastExists
  <1>4. PICK v \in H : \A u \in H : Cardinality(Above(v)) <= Cardinality(Above(u))
    <2>1. PICK n \in Counts : \A m \in Counts : n <= m
      BY <1>3
    <2>2. PICK v \in H : n = Cardinality(Above(v))
      OBVIOUS
    <2>3. \A u \in H : Cardinality(Above(u)) \in Counts
      OBVIOUS
    <2> HIDE DEF Counts, Above
    <2>4. QED
      BY <2>1, <2>2, <2>3
  <1>5. \A u \in H : ~(key[u] > key[v])
    <2> SUFFICES ASSUME NEW u \in H, key[u] > key[v] PROVE FALSE
      OBVIOUS
    <2>1. Above(u) \subseteq Above(v) /\ u \in Above(v) /\ u \notin Above(u)
      OBVIOUS
    <2>2. Cardinality(Above(u)) < Cardinality(Above(v))
      <3>1. IsFiniteSet(Above(v)) /\ Cardinality(Above(v)) \in Nat
            /\ Cardinality(Above(u)) \in Nat
        BY <1>1
      <3> HIDE DEF Above
      <3>2. /\ Cardinality(Above(u)) <= Cardinality(Above(v))
            /\ Cardinality(Above(v)) = Cardinality(Above(u)) => Above(v) = Above(u)
        BY <2>1, <3>1, FS_Subset
      <3>3. QED
        BY <2>1, <3>1, <3>2
    <2>3. Cardinality(Above(v)) \in Nat /\ Cardinality(Above(u)) \in Nat
      BY <1>1
    <2> HIDE DEF Above
    <2>4. QED
      BY <1>4, <2>2, <2>3
  <1>6. QED
    BY <1>5

-----------------------------------------------------------------------------
(* Names are numbers, and those of the users in use are known.             *)
LEMMA NamesKnown ==
  ASSUME SystemInv, NEW w \in Worker, wpc[w] \in HasOpponent
  PROVE  /\ U(w) \in Conn /\ O(w) \in Conn
         /\ uname[U(w)] \in Nat /\ uname[O(w)] \in Nat
         /\ uname[U(w)] # NoName /\ uname[O(w)] # NoName
         /\ uname[U(w)] \in Name
  <1>1. wpc[w] \in RegisteredPc /\ wpc[w] \notin {"pull", "get"}
    BY DEF RegisteredPc, HasOpponent
  <1>2. /\ U(w) \in Conn /\ O(w) \in Conn /\ uname \in [Conn -> Name \cup {NoName}]
    BY <1>1, Pointers
  <1>3. Name \subseteq Nat /\ NoName \in Nat
    BY ServerAssumption DEF Name, NoName
  <1>4. uname[U(w)] # NoName /\ uname[O(w)] # NoName
    BY <1>1, AllSound DEF Sound
  <1> HIDE DEF SystemInv
  <1>5. QED
    BY <1>2, <1>3, <1>4

(* A waiting worker that holds a mutex is in doubleLock, and waits for a   *)
(* user whose name comes after the name of the one it holds, or who is its *)
(* user's namesake.                                                        *)
AwaitedName(w) == IF wpc[w] = "dl" THEN uname[O(w)] ELSE uname[U(w)]

LEMMA HoldAndWait ==
  ASSUME SystemInv, OrderKept, NEW w \in Worker,
         WaitsFor(w) # {}, NEW c \in Holding(w)
  PROVE  /\ AwaitedName(w) \in Nat /\ uname[c] \in Nat
         /\ WaitsFor(w) \subseteq Conn
         /\ \A x \in WaitsFor(w) : uname[x] = AwaitedName(w)
         /\ uname[c] <= AwaitedName(w)
         /\ uname[c] = AwaitedName(w) =>
              wpc[w] = "dl" /\ Namesake(w) /\ c = U(w) /\ WaitsFor(w) = {O(w)}
  <1>1. \/ wpc[w] = "dl" /\ ~OtherFirst(U(w), O(w)) /\ WaitsFor(w) = {O(w)}
        \/ wpc[w] = "dl_own" /\ WaitsFor(w) = {U(w)}
    BY DEF WaitsFor, Holding, HoldsNone, HoldsOther
  <1>2. wpc[w] \in HasOpponent
    BY <1>1 DEF HasOpponent
  <1>3. /\ U(w) \in Conn /\ O(w) \in Conn
        /\ uname[U(w)] \in Nat /\ uname[O(w)] \in Nat
    BY <1>2, NamesKnown
  <1>4. CASE wpc[w] = "dl"
    <2>1. c = U(w)
      BY <1>4 DEF Holding, HoldsNone, HoldsOther
    <2>2. O(w) # U(w)
      BY <1>2, <1>4, AllSound DEF Sound
    <2> HIDE DEF SystemInv
    <2>3. QED
      BY <1>1, <1>2, <1>3, <1>4, <2>1, <2>2 DEF AwaitedName, OtherFirst, Namesake
  <1>5. CASE wpc[w] = "dl_own"
    <2>1. c = O(w)
      BY <1>5 DEF Holding, HoldsNone, HoldsOther
    <2>2. uname[O(w)] < uname[U(w)]
      BY <1>5 DEF OrderKept, OtherFirst
    <2> HIDE DEF SystemInv
    <2>3. QED
      BY <1>1, <1>3, <1>5, <2>1, <2>2 DEF AwaitedName
  <1>6. QED
    BY <1>1, <1>4, <1>5

LEMMA OrderExcludesCircles ==
  ASSUME SystemInv, LockOrderInv
  PROVE  NoDeadlyEmbrace
  <1> SUFFICES ASSUME NEW W \in SUBSET Worker, W # {},
                      \A w \in W : \E v \in W : WaitsFor(w) \cap Holding(v) # {}
               PROVE  FALSE
    <2> HIDE DEF SystemInv, LockOrderInv
    <2>1. QED
      BY ZenonT(30) DEF NoDeadlyEmbrace
  <1> DEFINE H == {v \in W : Holding(v) # {}}
             key == [v \in H |-> AwaitedName(v)]
  <1>1. OrderKept /\ NoCircle
    BY DEF LockOrderInv
  <1>2. \A w \in W : \E v \in H : WaitsFor(w) \cap Holding(v) # {}
    OBVIOUS
  <1>3. \A w \in W : WaitsFor(w) # {}
    OBVIOUS
  <1>4. H # {} /\ IsFiniteSet(H)
    <2>1. IsFiniteSet(Worker)
      BY ServerAssumption
    <2>2. QED
      BY <1>2, <2>1, FS_Subset
  <1>5. \A v \in H : AwaitedName(v) \in Nat
    BY <1>1, <1>3, HoldAndWait
  <1>6. PICK m \in H : \A v \in H : AwaitedName(v) <= AwaitedName(m)
    <2>1. key \in [H -> Nat]
      BY <1>5
    <2>2. \E m \in H : \A v \in H : key[v] <= key[m]
      <3> HIDE DEF H, key
      <3>1. QED
        BY <1>4, <2>1, MaximumExists
    <2>3. QED
      BY <2>2
  <1> DEFINE K == {v \in H : /\ wpc[v] = "dl" /\ Namesake(v) /\ WaitsFor(v) = {O(v)}
                             /\ AwaitedName(v) = AwaitedName(m)}
  <1>7. \A w \in H : AwaitedName(w) = AwaitedName(m) =>
          \E v \in K : U(v) \in WaitsFor(w)
    <2> SUFFICES ASSUME NEW w \in H, AwaitedName(w) = AwaitedName(m)
                 PROVE  \E v \in K : U(v) \in WaitsFor(w)
      OBVIOUS
    <2>0. PICK v \in H : WaitsFor(w) \cap Holding(v) # {}
      BY <1>2
    <2>1. PICK c \in Holding(v) : c \in WaitsFor(w)
      BY <2>0
    <2>2. uname[c] = AwaitedName(m)
      <3>1. \E d : d \in Holding(w)
        OBVIOUS
      <3>2. \A x \in WaitsFor(w) : uname[x] = AwaitedName(w)
        BY <1>1, <1>3, <3>1, HoldAndWait
      <3>3. QED
        BY <2>1, <3>2
    <2>3. /\ AwaitedName(v) \in Nat /\ uname[c] \in Nat /\ uname[c] <= AwaitedName(v)
          /\ uname[c] = AwaitedName(v) =>
               wpc[v] = "dl" /\ Namesake(v) /\ c = U(v) /\ WaitsFor(v) = {O(v)}
      BY <1>1, <1>3, <2>1, HoldAndWait
    <2>4. AwaitedName(v) <= AwaitedName(m)
      BY <1>6, <2>1
    <2>5. uname[c] = AwaitedName(v)
      BY <2>2, <2>3, <2>4
    <2>6. QED
      BY <2>1, <2>2, <2>3, <2>5
  <1>8. K # {}
    BY <1>7
  <1>9. \A w \in K : Namesake(w) /\ \E v \in K : U(v) = O(w)
    BY <1>7
  <1>10. K \in SUBSET Worker
    OBVIOUS
  <1> HIDE DEF K
  <1>11. QED
    BY <1>1, <1>8, <1>9, <1>10 DEF NoCircle

-----------------------------------------------------------------------------
(* A worker has an opponent from before, or has just found it by name.     *)
LEMMA OpponentStep ==
  ASSUME SystemInv, NEW w \in Worker, WorkerStep(w), wpc'[w] \in HasOpponent
  PROVE  /\ U(w)' = U(w) /\ wpc[w] \in RegisteredPc
         /\ \/ wpc[w] \in HasOpponent /\ O(w)' = O(w)
            \/ /\ UNCHANGED <<uname, byName>>
               /\ wpc'[w] \in {"dl", "chl_self", "rsp_self"}
               /\ \E n \in Name : O(w)' = byName[n] /\ uname[byName[n]] = n
         /\ wpc'[w] = "dl_opponent" => wpc[w] = "dl" /\ OtherFirst(U(w), O(w))
         /\ wpc'[w] = "dl_own" => wpc[w] = "dl_opponent"
  <1>0. /\ wpc \in [Worker -> WorkerPc] /\ held \in [Ref -> Conn \cup {NULL}]
        /\ MyUser(w) \in Ref /\ Opponent(w) \in Ref /\ MyUser(w) # Opponent(w)
        /\ wpc[w] # "pull" => wmsg[w] \in QueueItem
        /\ opponent \in [Conn -> Name \cup {NoName}]
        /\ wpc[w] \notin {"pull", "get"} => U(w) \in Conn
        /\ Sound(w)
    BY Pointers, RefFacts, AllSound
  <1>1. \A n \in Name : byName[n] # NULL => uname[byName[n]] = n
    BY DEF SystemInv, UL!UserListInv, UL!IndexSound
  <1>2. wpc[w] = "CHALLENGE" => wmsg[w].arg \in Name
    BY CurrentMessage
  <1>3. wpc[w] \in {"dl", "dl_opponent", "dl_own"} =>
          AfterDoubleLock[wmsg[w].type] \in {"chl_check", "rsp_check", "rsp_reject"}
    BY CurrentMessage DEF AfterDoubleLock
  <1> HIDE DEF SystemInv
  <1>4. CASE Pull(w) \/ Get(w) \/ Lock(w) \/ Unlock(w) \/ Fail(w) \/ YieldUser(w)
    BY <1>0, <1>4 DEF Pull, Get, Lock, Unlock, Fail, YieldUser, At, Goto, HasOpponent
  <1>5. CASE Dispatch(w)
    <2>1. wpc[w] = "dispatch" /\ wpc'[w] \in {"fail", "unlock", wmsg[w].type}
      BY <1>0, <1>5 DEF Dispatch, At, Goto
    <2>2. wmsg[w].type \in Plain \cup Secure
      BY <1>0, <2>1 DEF QueueItem
    <2>3. QED
      BY <2>1, <2>2 DEF HasOpponent, Plain, Secure
  <1>6. CASE DoubleLock(w) \/ DoubleUnlock(w)
    <2>1. /\ wpc[w] \in {"dl", "dl_opponent", "dl_own", "du", "du_opponent", "du_own"}
          /\ U(w)' = U(w) /\ O(w)' = O(w)
      BY <1>6 DEF DoubleLock, DoubleUnlock, At, listVars, U, O
    <2>2. \/ wpc'[w] \notin {"dl_opponent", "dl_own"}
          \/ wpc'[w] = "dl_opponent" /\ wpc[w] = "dl" /\ OtherFirst(U(w), O(w))
          \/ wpc'[w] = "dl_own" /\ wpc[w] = "dl_opponent"
      BY <1>0, <1>3, <1>6 DEF DoubleLock, DoubleUnlock, At, Goto
    <2>3. QED
      BY <2>1, <2>2 DEF HasOpponent, RegisteredPc
  <1>7. CASE Challenge(w) \/ Respond(w)
    <2>1. wpc[w] \in {"CHALLENGE", "ACCEPT", "REJECT"}
      BY <1>7 DEF Challenge, Respond, At
    <2>2. PICK n \in Name :
            /\ O(w)' = byName[n] /\ U(w)' = U(w) /\ UNCHANGED <<uname, byName>>
            /\ \/ byName[n] = NULL /\ wpc'[w] \in {"unlock", "rsp_none"}
               \/ byName[n] # NULL /\ wpc'[w] \in {"dl", "chl_self", "rsp_self"}
      <3>1. CASE Challenge(w)
        <4>1. wmsg[w].arg \in Name /\ U(w) # NULL
          BY <1>0, <1>2, <3>1 DEF Challenge, At, Sound
        <4>2. QED
          BY <1>0, <3>1, <4>1 DEF Challenge, At, Goto, Finish, UL!GetByName, UL!Take,
             Itself, U, O
      <3>2. CASE Respond(w)
        <4>1. opponent[U(w)] \in Name
          BY <1>0, <3>2 DEF Respond, Sound
        <4>2. QED
          BY <1>0, <3>2, <4>1 DEF Respond, At, Goto, UL!GetByName, UL!Take, Itself, U, O
      <3>3. QED
        BY <1>7, <3>1, <3>2
    <2>3. QED
      BY <1>1, <2>1, <2>2 DEF HasOpponent, RegisteredPc
  <1>8. CASE HandlerStep(w) /\ ~(Challenge(w) \/ Respond(w))
    <2>1. CASE CertReq(w) \/ ClientHello(w) \/ ClientVerify(w) \/ Register(w)
               \/ RegisterExists(w) \/ RegisterAdd(w) \/ UsersListReq(w) \/ GameEnd(w)
               \/ ChallengeSelf(w) \/ RespondSelf(w) \/ RespondNone(w) \/ GiveBack(w)
      BY <1>0, <2>1 DEF CertReq, ClientHello, ClientVerify, Register, RegisterExists,
         RegisterAdd, UsersListReq, GameEnd, ChallengeSelf, RespondSelf, RespondNone,
         GiveBack, At, Goto, Finish, HasOpponent
    <2>2. CASE ChallengeCheck(w) \/ ChallengeForward(w) \/ AcceptCheck(w) \/ StartGame(w)
               \/ RejectChallenge(w)
      <3>1. /\ wpc[w] \in {"chl_check", "chl_forward", "rsp_check", "rsp_start", "rsp_reject"}
            /\ wpc'[w] \in {"du", "chl_forward", "rsp_start"}
        BY <1>0, <2>2 DEF ChallengeCheck, ChallengeForward, AcceptCheck, StartGame,
           RejectChallenge, At, Goto
      <3>2. U(w)' = U(w) /\ O(w)' = O(w)
        BY <2>2 DEF ChallengeCheck, ChallengeForward, AcceptCheck, StartGame,
           RejectChallenge, listVars, SetState, SetBoth, UL!SetStates, U, O
      <3>3. QED
        BY <3>1, <3>2 DEF HasOpponent, RegisteredPc
    <2>3. QED
      BY <1>8, <2>1, <2>2 DEF HandlerStep
  <1>9. QED
    BY <1>4, <1>5, <1>6, <1>7, <1>8 DEF WorkerStep

(* A name leads to the same user as before, or to nobody; or a worker has  *)
(* just listed its user.                                                   *)
LEMMA ByNameStep ==
  ASSUME SystemInv, NEW n \in Name
  PROVE  /\ MainStep => byName'[n] \in {byName[n], NULL}
         /\ \A w \in Worker : WorkerStep(w) =>
              \/ byName'[n] \in {byName[n], NULL}
              \/ wpc[w] = "reg_add" /\ n = uname[U(w)] /\ byName'[n] = U(w)
  <1>0. byName \in [Name -> Conn \cup {NULL}]
    BY DEF SystemInv, UL!UserListInv, UL!UserListTypeOK
  <1>1. \A r : UL!Yield(r) => byName'[n] \in {byName[n], NULL}
    BY <1>0 DEF UL!Yield, UL!Unlist, UL!Erased, UL!maps
  <1> HIDE DEF SystemInv
  <1>2. MainStep => byName'[n] \in {byName[n], NULL}
    BY <1>1 DEF MainStep, SelectBadFd, SelectReady, ScanAccept, ScanEnd, ScanGet, ScanClear,
       CheckState, DropDisconnected, ReadMessage, ReadEof, MainYield, MainExists, listVars,
       UL!Accept, UL!GetByFd, UL!Take, SetState, UL!SetStates
  <1>3. ASSUME NEW w \in Worker, WorkerStep(w)
        PROVE  \/ byName'[n] \in {byName[n], NULL}
               \/ wpc[w] = "reg_add" /\ n = uname[U(w)] /\ byName'[n] = U(w)
    <2>1. CASE RegisterAdd(w)
      BY <1>0, <2>1 DEF RegisterAdd, At, UL!AddNamed, UL!Inserted, UL!maps
    <2>2. CASE YieldUser(w) \/ GiveBack(w)
      BY <1>1, <2>2 DEF YieldUser, GiveBack
    <2>3. CASE ~(RegisterAdd(w) \/ YieldUser(w) \/ GiveBack(w))
      <3>1. byName' = byName
        BY <1>3, <2>3 DEF WorkerStep, Pull, Get, Lock, Dispatch, DoubleLock, DoubleUnlock,
           Unlock, Fail, HandlerStep, CertReq, ClientHello, ClientVerify, Register,
           RegisterExists, UsersListReq, GameEnd, Challenge, ChallengeSelf,
           ChallengeCheck, ChallengeForward, Respond, RespondSelf, RespondNone,
           AcceptCheck, StartGame, RejectChallenge, listVars, UL!GetByFd, UL!GetByName,
           UL!Take, UL!Forget, SetState, SetBoth, UL!SetStates, UL!SetUsername
      <3>2. QED
        BY <3>1
    <2>4. QED
      BY <2>1, <2>2, <2>3
  <1>4. QED
    BY <1>2, <1>3

-----------------------------------------------------------------------------
(* Steps that move no worker.                                              *)
LEMMA QuietStepKeepsOrder ==
  ASSUME SystemInv, LockOrderInv,
         UNCHANGED <<wpc, uname>>,
         \A w \in Worker : U(w)' = U(w) /\ O(w)' = O(w),
         \A n \in Name : byName'[n] \in {byName[n], NULL}
  PROVE  LockOrderInv'
  <1>1. \A w \in Worker : Namesake(w)' = Namesake(w)
    BY DEF Namesake
  <1>2. OrderKept'
    BY DEF LockOrderInv, OrderKept, OtherFirst
  <1>3. ListedNeverAsks'
    <2> SUFFICES ASSUME NEW w \in Worker, Namesake(w)
                 PROVE  byName'[uname[U(w)]] # U(w)
      BY <1>1 DEF ListedNeverAsks
    <2>1. wpc[w] \in HasOpponent /\ byName[uname[U(w)]] # U(w)
      BY DEF LockOrderInv, ListedNeverAsks, Namesake
    <2>2. uname[U(w)] \in Name /\ U(w) # NULL
      BY <2>1, NamesKnown, ServerAssumption
    <2>3. QED
      BY <2>1, <2>2
  <1>4. NoCircle'
    BY <1>1 DEF LockOrderInv, NoCircle
  <1>5. QED
    BY <1>2, <1>3, <1>4 DEF LockOrderInv

(* The other workers do not see a worker's step: names do not change.      *)
LEMMA OthersKeepOrder ==
  ASSUME SystemInv, NEW w \in Worker, WorkerStep(w), NEW v \in Worker, v # w,
         wpc[v] \in HasOpponent
  PROVE  /\ U(v)' = U(v) /\ O(v)' = O(v) /\ wpc'[v] = wpc[v]
         /\ uname'[U(v)] = uname[U(v)] /\ uname'[O(v)] = uname[O(v)]
  BY WorkerFrame, UsersKept, NamesKnown

LEMMA WorkerKeepsOrder ==
  ASSUME SystemInv, LockOrderInv, NEW w \in Worker, WorkerStep(w)
  PROVE  LockOrderInv'
  <1>1. \A v \in Worker : v # w => wpc'[v] = wpc[v]
    BY WorkerFrame
  <1>2. \A v \in Worker : v # w => Namesake(v)' = Namesake(v)
    <2> SUFFICES ASSUME NEW v \in Worker, v # w PROVE Namesake(v)' = Namesake(v)
      OBVIOUS
    <2>1. CASE wpc[v] \in HasOpponent
      BY <2>1, OthersKeepOrder DEF Namesake
    <2>2. CASE wpc[v] \notin HasOpponent
      BY <1>1, <2>2 DEF Namesake
    <2>3. QED
      BY <2>1, <2>2
  (* What w knows of its opponent from before stays true. *)
  <1>3. wpc[w] \in HasOpponent =>
          uname'[U(w)] = uname[U(w)] /\ uname'[O(w)] = uname[O(w)]
    BY NamesKnown, UsersKept
  <1>4. Namesake(w)' =>
          /\ U(w)' = U(w)
          /\ \/ Namesake(w) /\ O(w)' = O(w) /\ uname'[U(w)] = uname[U(w)]
             \/ /\ UNCHANGED <<uname, byName>>
                /\ O(w)' = byName[uname[U(w)]] /\ byName[uname[U(w)]] # U(w)
    <2> SUFFICES ASSUME Namesake(w)'
                 PROVE  /\ U(w)' = U(w)
                        /\ \/ Namesake(w) /\ O(w)' = O(w) /\ uname'[U(w)] = uname[U(w)]
                           \/ /\ UNCHANGED <<uname, byName>>
                              /\ O(w)' = byName[uname[U(w)]] /\ byName[uname[U(w)]] # U(w)
      OBVIOUS
    <2>1. wpc'[w] \in HasOpponent /\ O(w)' # U(w)' /\ uname'[O(w)'] = uname'[U(w)']
      BY DEF Namesake
    <2>2. /\ U(w)' = U(w)
          /\ \/ wpc[w] \in HasOpponent /\ O(w)' = O(w)
             \/ /\ UNCHANGED <<uname, byName>>
                /\ \E n \in Name : O(w)' = byName[n] /\ uname[byName[n]] = n
      BY <2>1, OpponentStep
    <2> HIDE DEF SystemInv, LockOrderInv
    <2>3. QED
      BY <1>3, <2>1, <2>2 DEF Namesake
  <1>5. OrderKept'
    <2> SUFFICES ASSUME NEW v \in Worker, wpc'[v] \in {"dl_opponent", "dl_own"}
                 PROVE  uname'[O(v)'] < uname'[U(v)']
      BY DEF OrderKept, OtherFirst
    <2>1. CASE v # w
      <3>1. wpc[v] \in {"dl_opponent", "dl_own"} /\ wpc[v] \in HasOpponent
        BY <1>1, <2>1 DEF HasOpponent
      <3>2. uname[O(v)] < uname[U(v)]
        BY <3>1 DEF LockOrderInv, OrderKept, OtherFirst
      <3>3. QED
        BY <2>1, <3>1, <3>2, OthersKeepOrder
    <2>2. CASE v = w
      <3>1. wpc'[w] \in HasOpponent /\ wpc'[w] \notin {"dl", "chl_self", "rsp_self"}
        BY <2>2 DEF HasOpponent
      <3>2. /\ U(w)' = U(w) /\ wpc[w] \in HasOpponent /\ O(w)' = O(w)
            /\ wpc'[w] = "dl_opponent" => OtherFirst(U(w), O(w))
            /\ wpc'[w] = "dl_own" => wpc[w] = "dl_opponent"
        BY <3>1, OpponentStep
      <3>3. uname[O(w)] < uname[U(w)]
        BY <2>2, <3>2 DEF LockOrderInv, OrderKept, OtherFirst
      <3>4. QED
        BY <1>3, <2>2, <3>2, <3>3
    <2>3. QED
      BY <2>1, <2>2
  <1>6. ListedNeverAsks'
    <2> SUFFICES ASSUME NEW v \in Worker, Namesake(v)'
                 PROVE  byName'[uname'[U(v)']] # U(v)'
      BY DEF ListedNeverAsks
    <2>1. CASE v # w
      <3>1. Namesake(v) /\ wpc[v] \in HasOpponent
        BY <1>2, <2>1 DEF Namesake
      <3>2. U(v)' = U(v) /\ uname'[U(v)] = uname[U(v)]
        BY <2>1, <3>1, OthersKeepOrder
      <3>3. byName[uname[U(v)]] # U(v)
        BY <3>1 DEF LockOrderInv, ListedNeverAsks
      <3>4. uname[U(v)] \in Name /\ U(v) # NULL
        BY <3>1, NamesKnown, ServerAssumption
      <3>5. wpc[w] = "reg_add" => U(w) # U(v)
        <4>1. wpc[v] \in RegisteredPc
          BY <3>1 DEF RegisteredPc
        <4>2. QED
          BY <2>1, <4>1 DEF SystemInv, RegisteredOnce, Registering
      <3>6. \/ byName'[uname[U(v)]] \in {byName[uname[U(v)]], NULL}
            \/ wpc[w] = "reg_add" /\ byName'[uname[U(v)]] = U(w)
        BY <3>4, ByNameStep
      <3> HIDE DEF SystemInv, LockOrderInv
      <3>7. QED
        BY <3>2, <3>3, <3>4, <3>5, <3>6
    <2>2. CASE v = w
      <3>1. CASE UNCHANGED <<uname, byName>> /\ byName[uname[U(w)]] # U(w) /\ U(w)' = U(w)
        BY <2>2, <3>1
      <3>2. CASE Namesake(w) /\ U(w)' = U(w) /\ uname'[U(w)] = uname[U(w)]
        <4>1. byName[uname[U(w)]] # U(w) /\ wpc[w] \in HasOpponent /\ wpc[w] # "reg_add"
          BY <3>2 DEF LockOrderInv, ListedNeverAsks, Namesake, HasOpponent
        <4>2. uname[U(w)] \in Name /\ U(w) # NULL
          BY <4>1, NamesKnown, ServerAssumption
        <4>3. byName'[uname[U(w)]] \in {byName[uname[U(w)]], NULL}
          BY <4>1, <4>2, ByNameStep
        <4>4. QED
          BY <2>2, <3>2, <4>1, <4>2, <4>3
      <3>3. QED
        BY <1>4, <2>2, <3>1, <3>2
    <2>3. QED
      BY <2>1, <2>2
  <1>7. NoCircle'
    <2> SUFFICES ASSUME NEW W \in (SUBSET Worker) \ {{}},
                        \A v \in W : Namesake(v)' /\ \E x \in W : U(x)' = O(v)'
                 PROVE  FALSE
      <3> HIDE DEF SystemInv, LockOrderInv
      <3>1. QED
        BY DEF NoCircle
    <2>1. \A v \in W : v # w =>
            /\ Namesake(v) /\ wpc[v] \in HasOpponent
            /\ U(v)' = U(v) /\ O(v)' = O(v) /\ byName[uname[U(v)]] # U(v)
            /\ uname'[U(v)] = uname[U(v)]
      <3> SUFFICES ASSUME NEW v \in W, v # w
                   PROVE  /\ Namesake(v) /\ wpc[v] \in HasOpponent
                          /\ U(v)' = U(v) /\ O(v)' = O(v) /\ byName[uname[U(v)]] # U(v)
                          /\ uname'[U(v)] = uname[U(v)]
        OBVIOUS
      <3>1. Namesake(v) /\ wpc[v] \in HasOpponent
        BY <1>2 DEF Namesake
      <3>2. QED
        BY <3>1, OthersKeepOrder DEF LockOrderInv, ListedNeverAsks
    <2>2. NoCircle
      BY DEF LockOrderInv
    <2> HIDE DEF SystemInv, LockOrderInv
    <2>3. CASE w \in W => Namesake(w) /\ U(w)' = U(w) /\ O(w)' = O(w)
      <3>1. \A v \in W : Namesake(v) /\ \E x \in W : U(x) = O(v)
        BY <2>1, <2>3
      <3>2. QED
        BY <2>2, <3>1 DEF NoCircle
    <2>4. CASE /\ w \in W /\ U(w)' = U(w)
               /\ UNCHANGED <<uname, byName>>
               /\ O(w)' = byName[uname[U(w)]] /\ byName[uname[U(w)]] # U(w)
      <3>1. PICK x \in W : U(x)' = O(w)'
        BY <2>4
      <3>2. x # w
        BY <2>4, <3>1
      <3>3. U(x) = byName[uname[U(w)]] /\ byName[uname[U(x)]] # U(x)
        BY <2>1, <2>4, <3>1, <3>2
      <3>4. uname[O(w)'] = uname[U(w)]
        BY <2>4 DEF Namesake
      <3>5. QED
        BY <2>4, <3>3, <3>4
    <2>5. QED
      BY <1>4, <2>3, <2>4
  <1>8. QED
    BY <1>5, <1>6, <1>7 DEF LockOrderInv

(* Every step keeps the order, and it holds at the start.                  *)
LEMMA StepKeepsOrder ==
  SystemInv /\ LockOrderInv /\ [Next]_vars => LockOrderInv'
  <1> SUFFICES ASSUME SystemInv, LockOrderInv, [Next]_vars PROVE LockOrderInv'
    OBVIOUS
  <1>1. CASE MainStep
    <2>1. UNCHANGED <<wpc, uname>> /\ \A w \in Worker : U(w)' = U(w) /\ O(w)' = O(w)
      BY <1>1, MainFrame
    <2>2. \A n \in Name : byName'[n] \in {byName[n], NULL}
      BY <1>1, ByNameStep
    <2>3. QED
      BY <2>1, <2>2, QuietStepKeepsOrder
  <1>2. ASSUME NEW w \in Worker, WorkerStep(w) PROVE LockOrderInv'
    BY <1>2, WorkerKeepsOrder
  <1>3. CASE UNCHANGED <<listVars, workerVars>>
    <2>1. UNCHANGED <<wpc, uname, held, byName>>
      BY <1>3 DEF listVars, workerVars
    <2>2. \A w \in Worker : U(w)' = U(w) /\ O(w)' = O(w)
      BY <2>1 DEF U, O
    <2>3. QED
      BY <2>1, <2>2, QuietStepKeepsOrder
  <1>4. ASSUME NEW w \in Worker, WakeUp(w) PROVE UNCHANGED <<listVars, workerVars>>
    BY <1>4 DEF WakeUp, SpuriousWakeup
  <1>5. ASSUME NEW c \in Conn, ClientStep(c) PROVE UNCHANGED <<listVars, workerVars>>
    BY <1>5, ClientLeavesServer
  <1>6. CASE UNCHANGED vars
    BY <1>3, <1>6 DEF vars, serverVars
  <1> HIDE DEF SystemInv, LockOrderInv
  <1>7. QED
    BY <1>1, <1>2, <1>3, <1>4, <1>5, <1>6 DEF Next, ServerStep

LEMMA InitEstablishesOrder == Init => LockOrderInv
  <1> SUFFICES ASSUME Init PROVE LockOrderInv
    OBVIOUS
  <1>1. \A w \in Worker : wpc[w] = "pull"
    BY DEF Init, LoggedIn
  <1>2. OrderKept /\ \A w \in Worker : ~Namesake(w)
    BY <1>1 DEF OrderKept, Namesake, HasOpponent
  <1>3. ListedNeverAsks /\ NoCircle
    BY <1>2 DEF ListedNeverAsks, NoCircle
  <1>4. QED
    BY <1>2, <1>3 DEF LockOrderInv

-----------------------------------------------------------------------------
(* doubleLock and doubleUnlock prevent deadlocks, as their comments say:   *)
(* for any number of workers and users, of the same or of different names, *)
(* in no reachable state does every worker of a set wait for a mutex that  *)
(* one of them is using.                                                   *)
THEOREM NoDeadlockOfWorkers == Spec => []NoDeadlyEmbrace
  <1>1. Init => LockOrderInv
    BY InitEstablishesOrder
  <1>2. SystemInv /\ LockOrderInv /\ [Next]_vars => LockOrderInv'
    BY StepKeepsOrder
  <1>3. SystemInv /\ LockOrderInv => NoDeadlyEmbrace
    BY OrderExcludesCircles
  <1>4. QED
    BY <1>1, <1>2, <1>3, SystemInvariant, PTL DEF Spec

-----------------------------------------------------------------------------
(* Whoever gives a user another state than DISCONNECTED holds its mutex.   *)
LEMMA StatesChangeUnderLock ==
  ASSUME SystemInv, NEW w \in Worker, WorkerStep(w), NEW c \in Conn,
         ustate'[c] \notin {ustate[c], "DISCONNECTED"}
  PROVE  c \in Holding(w)
  <1>1. c = U(w) \/ c = O(w)
    BY StatesChange
  <1>2. \/ wpc[w] \in {"CLIENT_VERIFY", "reg_exists", "GAME_END", "rsp_none"}
        \/ wpc[w] \in {"chl_forward", "rsp_start", "rsp_reject"}
    BY StatesChange
  <1>3. O(w) = NULL <=> wpc[w] \notin HasOpponent
    BY AllSound DEF Sound
  <1> HIDE DEF SystemInv
  <1>4. CASE wpc[w] \in {"CLIENT_VERIFY", "reg_exists", "GAME_END", "rsp_none"}
    <2>1. c = U(w)
      BY <1>1, <1>3, <1>4, ServerAssumption DEF HasOpponent
    <2>2. wpc[w] \notin HoldsNone \cup {"dl_own", "du_opponent"}
      BY <1>4 DEF HoldsNone
    <2>3. QED
      BY <2>1, <2>2 DEF Holding
  <1>5. CASE wpc[w] \in {"chl_forward", "rsp_start", "rsp_reject"}
    <2>1. wpc[w] \notin HoldsNone \cup {"dl_own", "du_opponent"} /\ wpc[w] \in HoldsOther
      BY <1>5 DEF HoldsNone, HoldsOther
    <2>2. QED
      BY <1>1, <2>1 DEF Holding
  <1>6. QED
    BY <1>2, <1>4, <1>5

-----------------------------------------------------------------------------
(* What a handler has seen stays as it was.                                *)
Acting == {"chl_forward", "rsp_start"}

LEMMA SeenHolds ==
  ASSUME SystemInv, NEW v \in Worker, wpc[v] \in Acting
  PROVE  /\ U(v) \in Conn /\ O(v) \in Conn /\ U(v) # O(v)
         /\ Holding(v) = {U(v), O(v)}
  <1>1. /\ wpc[v] \in HasOpponent /\ wpc[v] \notin {"pull", "get", "chl_self", "rsp_self"}
        /\ wpc[v] \notin HoldsNone \cup {"dl_own", "du_opponent"} /\ wpc[v] \in HoldsOther
    BY DEF Acting, HasOpponent, HoldsNone, HoldsOther
  <1>2. O(v) = U(v) <=> wpc[v] \in {"chl_self", "rsp_self"}
    BY <1>1, AllSound DEF Sound
  <1>3. QED
    BY <1>1, <1>2, Pointers DEF Holding

(* A handler acts after it has looked at both states.                      *)
LEMMA ActsAfterCheck ==
  ASSUME SystemInv, NEW w \in Worker, WorkerStep(w), wpc'[w] \in Acting
  PROVE  /\ U(w)' = U(w) /\ O(w)' = O(w) /\ ustate' = ustate
         /\ wpc'[w] = "chl_forward" => SeenStates(w, "AVAILABLE")
         /\ wpc'[w] = "rsp_start" => SeenStates(w, "CHALLENGED")
  <1>0. /\ wpc \in [Worker -> WorkerPc]
        /\ wpc[w] \in {"dl", "dl_opponent", "dl_own"} => wmsg[w].type \in DOMAIN AfterDoubleLock
        /\ wpc[w] = "dispatch" => wmsg[w].type \in Plain \cup Secure
    BY Pointers, AllSound DEF Sound, QueueItem
  <1> HIDE DEF SystemInv
  <1> USE DEF Acting
  <1>1. /\ ~ (Pull(w) \/ Get(w) \/ Lock(w) \/ DoubleUnlock(w) \/ Unlock(w) \/ Fail(w)
              \/ YieldUser(w))
        /\ ~ (CertReq(w) \/ ClientHello(w) \/ ClientVerify(w) \/ Register(w)
              \/ RegisterExists(w) \/ RegisterAdd(w) \/ UsersListReq(w) \/ GameEnd(w))
        /\ ~ (Challenge(w) \/ ChallengeSelf(w) \/ ChallengeForward(w) \/ Respond(w)
              \/ RespondSelf(w) \/ RespondNone(w) \/ StartGame(w) \/ RejectChallenge(w)
              \/ GiveBack(w))
    <2>1. ~ (Pull(w) \/ Get(w) \/ Lock(w) \/ DoubleUnlock(w) \/ Unlock(w) \/ Fail(w)
             \/ YieldUser(w))
      BY <1>0 DEF Pull, Get, Lock, DoubleUnlock, Unlock, Fail, YieldUser, At, Goto
    <2>2. ~ (CertReq(w) \/ ClientHello(w) \/ ClientVerify(w) \/ Register(w)
             \/ RegisterExists(w) \/ RegisterAdd(w) \/ UsersListReq(w) \/ GameEnd(w))
      BY <1>0 DEF CertReq, ClientHello, ClientVerify, Register, RegisterExists,
         RegisterAdd, UsersListReq, GameEnd, At, Goto, Finish
    <2>3. ~ (Challenge(w) \/ ChallengeSelf(w) \/ ChallengeForward(w) \/ Respond(w)
             \/ RespondSelf(w) \/ RespondNone(w) \/ StartGame(w) \/ RejectChallenge(w)
             \/ GiveBack(w))
      BY <1>0 DEF Challenge, ChallengeSelf, ChallengeForward, Respond, RespondSelf,
         RespondNone, StartGame, RejectChallenge, GiveBack, At, Goto, Finish
    <2>4. QED
      BY <2>1, <2>2, <2>3
  <1>2. ~ Dispatch(w)
    BY <1>0 DEF Dispatch, At, Goto, Plain, Secure
  <1>3. ~ DoubleLock(w)
    BY <1>0 DEF DoubleLock, At, Goto, AfterDoubleLock
  <1>4. CASE ChallengeCheck(w)
    BY <1>0, <1>4 DEF ChallengeCheck, At, Goto, StillAvailable, SeenStates, listVars, U, O
  <1>5. CASE AcceptCheck(w)
    BY <1>0, <1>5 DEF AcceptCheck, At, Goto, SeenStates, listVars, U, O
  <1>6. QED
    BY <1>1, <1>2, <1>3, <1>4, <1>5 DEF WorkerStep, HandlerStep

LEMMA WorkerKeepsSeen ==
  ASSUME SystemInv, StatesStillAsSeen, NEW w \in Worker, WorkerStep(w)
  PROVE  StatesStillAsSeen'
  <1>1. ASSUME NEW v \in Worker, v # w, wpc'[v] \in Acting
        PROVE  /\ wpc'[v] = wpc[v] /\ U(v)' = U(v) /\ O(v)' = O(v)
               /\ \A c \in {U(v), O(v)} : ustate'[c] \in {ustate[c], "DISCONNECTED"}
    <2>1. wpc[v] = wpc'[v] /\ U(v)' = U(v) /\ O(v)' = O(v)
      BY <1>1, WorkerFrame
    <2>2. U(v) \in Conn /\ O(v) \in Conn /\ Holding(v) = {U(v), O(v)}
      BY <1>1, <2>1, SeenHolds
    <2>3. Holding(v) \cap Holding(w) = {}
      BY <1>1, Exclusive
    <2>4. \A c \in {U(v), O(v)} : ustate'[c] \in {ustate[c], "DISCONNECTED"}
      BY <2>2, <2>3, StatesChangeUnderLock
    <2>5. QED
      BY <2>1, <2>4
  <1> HIDE DEF SystemInv
  <1>2. ASSUME NEW v \in Worker
        PROVE  /\ wpc'[v] = "chl_forward" => SeenStates(v, "AVAILABLE")'
               /\ wpc'[v] = "rsp_start" => SeenStates(v, "CHALLENGED")'
    <2>1. CASE v = w
      BY <2>1, ActsAfterCheck DEF SeenStates, Acting
    <2>2. CASE v # w
      BY <1>1, <2>2 DEF StatesStillAsSeen, SeenStates, Acting
    <2>3. QED
      BY <2>1, <2>2
  <1>3. QED
    BY <1>2 DEF StatesStillAsSeen

(* At its own place in the code a handler takes its own step.              *)
LEMMA OneStepThere ==
  ASSUME NEW w \in Worker, WorkerStep(w)
  PROVE  /\ wpc[w] = "chl_forward" => ChallengeForward(w)
         /\ wpc[w] = "rsp_start" => StartGame(w)
  <1>1. wpc[w] \in Acting =>
          ~ (Pull(w) \/ Get(w) \/ Lock(w) \/ Dispatch(w) \/ DoubleLock(w) \/ DoubleUnlock(w)
             \/ Unlock(w) \/ Fail(w) \/ YieldUser(w))
    BY DEF Acting, Pull, Get, Lock, Dispatch, DoubleLock, DoubleUnlock, Unlock, Fail,
       YieldUser, At
  <1>2. wpc[w] \in Acting =>
          ~ (CertReq(w) \/ ClientHello(w) \/ ClientVerify(w) \/ Register(w)
             \/ RegisterExists(w) \/ RegisterAdd(w) \/ UsersListReq(w) \/ GameEnd(w)
             \/ Challenge(w) \/ ChallengeSelf(w) \/ ChallengeCheck(w) \/ Respond(w)
             \/ RespondSelf(w) \/ RespondNone(w) \/ AcceptCheck(w)
             \/ RejectChallenge(w) \/ GiveBack(w))
    BY DEF Acting, CertReq, ClientHello, ClientVerify, Register, RegisterExists,
       RegisterAdd, UsersListReq, GameEnd, Challenge, ChallengeSelf, ChallengeCheck,
       Respond, RespondSelf, RespondNone, AcceptCheck, RejectChallenge, GiveBack, At
  <1>3. (wpc[w] = "chl_forward" => ~ StartGame(w)) /\ (wpc[w] = "rsp_start" => ~ ChallengeForward(w))
    BY DEF StartGame, ChallengeForward, At
  <1>4. QED
    BY <1>1, <1>2, <1>3 DEF WorkerStep, HandlerStep, Acting

LEMMA StepKeepsSeen ==
  SystemInv /\ StatesStillAsSeen /\ [Next]_vars => StatesStillAsSeen'
  <1> SUFFICES ASSUME SystemInv, StatesStillAsSeen, [Next]_vars PROVE StatesStillAsSeen'
    OBVIOUS
  <1>0. ASSUME UNCHANGED wpc, \A w \in Worker : U(w)' = U(w) /\ O(w)' = O(w),
               \A c \in Conn : ustate'[c] \in {ustate[c], "DISCONNECTED"}
        PROVE  StatesStillAsSeen'
    <2>1. \A w \in Worker : wpc[w] \in Acting => U(w) \in Conn /\ O(w) \in Conn
      BY SeenHolds
    <2> HIDE DEF SystemInv
    <2>2. QED
      BY <1>0, <2>1 DEF StatesStillAsSeen, SeenStates, Acting
  <1>1. CASE MainStep
    <2>1. /\ UNCHANGED wpc /\ \A w \in Worker : U(w)' = U(w) /\ O(w)' = O(w)
          /\ \A c \in Conn : ustate'[c] \in {ustate[c], "DISCONNECTED"}
      BY <1>1, MainFrame
    <2>2. QED
      BY <1>0, <2>1
  <1>2. ASSUME NEW w \in Worker, WorkerStep(w) PROVE StatesStillAsSeen'
    BY <1>2, WorkerKeepsSeen
  <1>3. CASE UNCHANGED <<listVars, workerVars>>
    BY <1>0, <1>3 DEF listVars, workerVars, U, O
  <1>4. ASSUME NEW w \in Worker, WakeUp(w) PROVE UNCHANGED <<listVars, workerVars>>
    BY <1>4 DEF WakeUp, SpuriousWakeup
  <1>5. ASSUME NEW c \in Conn, ClientStep(c) PROVE UNCHANGED <<listVars, workerVars>>
    BY <1>5, ClientLeavesServer
  <1>6. CASE UNCHANGED vars
    BY <1>3, <1>6 DEF vars, serverVars
  <1> HIDE DEF SystemInv
  <1>7. QED
    BY <1>1, <1>2, <1>3, <1>4, <1>5, <1>6 DEF Next, ServerStep

LEMMA InitEstablishesSeen == Init => StatesStillAsSeen
  BY DEF Init, LoggedIn, StatesStillAsSeen

-----------------------------------------------------------------------------
(* A user becomes CHALLENGED only by a forwarded challenge, and PLAYING    *)
(* only by the start of a game.                                            *)
LEMMA ChallengeForTwo ==
  ASSUME SystemInv, StatesStillAsSeen, NEW w \in Worker, WorkerStep(w),
         NEW c \in Conn, Becomes(c, "CHALLENGED")
  PROVE  \E d \in Conn \ {c} :
           /\ ustate'[d] = "CHALLENGED" /\ Paired(c, d)'
           /\ {ustate[c], ustate[d]} \subseteq {"AVAILABLE", "DISCONNECTED"}
  <1>1. wpc[w] = "chl_forward" /\ (c = U(w) \/ c = O(w))
    BY StatesChange DEF Becomes
  <1>2. U(w) \in Conn /\ O(w) \in Conn /\ U(w) # O(w)
    BY <1>1, SeenHolds DEF Acting
  <1>3. {ustate[U(w)], ustate[O(w)]} \subseteq {"AVAILABLE", "DISCONNECTED"}
    BY <1>1 DEF StatesStillAsSeen, SeenStates
  <1>4. /\ ustate \in [Conn -> UserState] /\ opponent \in [Conn -> Name \cup {NoName}]
    BY Pointers
  <1> HIDE DEF SystemInv
  <1>5. ChallengeForward(w)
    BY <1>1, OneStepThere
  <1>6. /\ SetBoth(U(w), "CHALLENGED", O(w), "CHALLENGED")
        /\ opponent' = [opponent EXCEPT ![U(w)] = uname[O(w)], ![O(w)] = uname[U(w)]]
    <2>1. CASE SetState(O(w), "DISCONNECTED")
      BY <1>1, <1>2, <1>4, <2>1 DEF SetState, UL!SetStates, Becomes
    <2>2. QED
      BY <1>5, <2>1 DEF ChallengeForward
  <1>7. /\ uname' = uname
        /\ ustate'[U(w)] = "CHALLENGED" /\ ustate'[O(w)] = "CHALLENGED"
    BY <1>2, <1>4, <1>6 DEF SetBoth, UL!SetStates
  <1>8. ASSUME NEW x \in Conn, NEW y \in Conn, x = U(w), y = O(w)
        PROVE  Paired(x, y)' /\ Paired(y, x)'
    <2>1. /\ opponent'[x] = uname[y] /\ opponent'[y] = uname[x]
      BY <1>2, <1>4, <1>6, <1>8
    <2>2. QED
      BY <1>7, <2>1 DEF Paired
  <1>9. \E x, y \in Conn : x = U(w) /\ y = O(w)
    BY <1>2
  <1>10. QED
    BY <1>1, <1>2, <1>3, <1>7, <1>8, <1>9

LEMMA GameForTwo ==
  ASSUME SystemInv, StatesStillAsSeen, NEW w \in Worker, WorkerStep(w),
         NEW c \in Conn, Becomes(c, "PLAYING")
  PROVE  \E d \in Conn \ {c} :
           /\ ustate'[d] = "PLAYING"
           /\ {ustate[c], ustate[d]} \subseteq {"CHALLENGED", "DISCONNECTED"}
  <1>1. wpc[w] = "rsp_start" /\ (c = U(w) \/ c = O(w))
    BY StatesChange DEF Becomes
  <1>2. U(w) \in Conn /\ O(w) \in Conn /\ U(w) # O(w)
    BY <1>1, SeenHolds DEF Acting
  <1>3. {ustate[U(w)], ustate[O(w)]} \subseteq {"CHALLENGED", "DISCONNECTED"}
    BY <1>1 DEF StatesStillAsSeen, SeenStates
  <1>4. ustate \in [Conn -> UserState]
    BY Pointers
  <1> HIDE DEF SystemInv
  <1>5. StartGame(w)
    BY <1>1, OneStepThere
  <1>6. SetBoth(U(w), "PLAYING", O(w), "PLAYING")
    <2>1. \/ SetBoth(U(w), "PLAYING", O(w), "PLAYING")
          \/ SetBoth(U(w), "DISCONNECTED", O(w), "DISCONNECTED")
          \/ \E x \in {U(w), O(w)}, s \in {"AVAILABLE", "DISCONNECTED"} : SetState(x, s)
      BY <1>5 DEF StartGame
    <2>2. ~ SetBoth(U(w), "DISCONNECTED", O(w), "DISCONNECTED")
      BY <1>1, <1>2, <1>4 DEF SetBoth, UL!SetStates, Becomes
    <2>3. ASSUME NEW x \in {U(w), O(w)}, NEW s \in {"AVAILABLE", "DISCONNECTED"}, SetState(x, s)
          PROVE  FALSE
      BY <1>1, <1>2, <1>4, <2>3 DEF SetState, UL!SetStates, Becomes
    <2>4. QED
      BY <2>1, <2>2, <2>3
  <1>7. ustate'[U(w)] = "PLAYING" /\ ustate'[O(w)] = "PLAYING"
    BY <1>2, <1>4, <1>6 DEF SetBoth, UL!SetStates
  <1>8. QED
    BY <1>1, <1>2, <1>3, <1>7

(* Every step but a worker's gives no state but DISCONNECTED.              *)
LEMMA OnlyWorkersPair ==
  ASSUME SystemInv, [Next]_vars, NEW c \in Conn,
         ustate'[c] \notin {ustate[c], "DISCONNECTED"}
  PROVE  \E w \in Worker : WorkerStep(w)
  <1>1. CASE MainStep
    BY <1>1, MainFrame
  <1> HIDE DEF SystemInv
  <1>2. ASSUME NEW w \in Worker, WakeUp(w) PROVE FALSE
    BY <1>2 DEF WakeUp, SpuriousWakeup, listVars
  <1>3. ASSUME NEW d \in Conn, ClientStep(d) PROVE FALSE
    <2>1. UNCHANGED listVars
      BY <1>3, ClientLeavesServer
    <2>2. QED
      BY <2>1 DEF listVars
  <1>4. CASE UNCHANGED vars
    BY <1>4 DEF vars, serverVars, listVars
  <1>5. QED
    BY <1>1, <1>2, <1>3, <1>4 DEF Next, ServerStep

-----------------------------------------------------------------------------
(* What a handler has seen under both locks holds when it acts, whatever   *)
(* the other threads do in between (server.cpp:111-135, 208-232).          *)
THEOREM SeenUnderBothLocks == Spec => []StatesStillAsSeen
  <1>1. Spec => []SystemInv
    BY SystemInvariant
  <1>2. QED
    BY <1>1, InitEstablishesSeen, StepKeepsSeen, PTL DEF Spec

(* Two users become CHALLENGED in one step and by each other, two become   *)
(* PLAYING in one step, and the states seen are the states changed but for *)
(* a disconnection: for any number of workers and of clients, patient or   *)
(* not, and whatever the names (server.cpp:111-135, 208-232).              *)
THEOREM ChallengesAndGamesAreForTwo == Spec => StatesMoveTogether
  <1> DEFINE Step == \A c \in Conn :
               /\ Becomes(c, "CHALLENGED") =>
                    \E d \in Conn \ {c} :
                      /\ ustate'[d] = "CHALLENGED" /\ Paired(c, d)'
                      /\ {ustate[c], ustate[d]} \subseteq {"AVAILABLE", "DISCONNECTED"}
               /\ Becomes(c, "PLAYING") =>
                    \E d \in Conn \ {c} :
                      /\ ustate'[d] = "PLAYING"
                      /\ {ustate[c], ustate[d]} \subseteq {"CHALLENGED", "DISCONNECTED"}
  <1>1. SystemInv /\ StatesStillAsSeen /\ [Next]_vars => Step
    <2> SUFFICES ASSUME SystemInv, StatesStillAsSeen, [Next]_vars PROVE Step
      OBVIOUS
    <2>1. ASSUME NEW c \in Conn, NEW s \in {"CHALLENGED", "PLAYING"}, Becomes(c, s)
          PROVE  \E w \in Worker : WorkerStep(w)
      BY <2>1, OnlyWorkersPair DEF Becomes
    <2> HIDE DEF SystemInv
    <2>2. QED
      BY <2>1, ChallengeForTwo, GameForTwo
  <1>2. Step => [Step]_serverVars
    OBVIOUS
  <1>3. StatesMoveTogether <=> [][Step]_serverVars
    BY DEF StatesMoveTogether
  <1> HIDE DEF Step
  <1>4. Spec => []SystemInv /\ []StatesStillAsSeen
    BY SystemInvariant, SeenUnderBothLocks, PTL
  <1>5. QED
    BY <1>1, <1>2, <1>3, <1>4, PTL DEF Spec
=============================================================================
