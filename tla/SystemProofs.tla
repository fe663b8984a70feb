---------------------------- MODULE SystemProofs ----------------------------
(***************************************************************************)
(* What is proved of the server and its clients for all connections, names *)
(* (distinct or not), worker threads, bounds and scenarios.  Everything    *)
(* follows from the inductive invariant SystemInv; in it, the invariant of *)
(* the user list comes from UserListProofs, because every step of the      *)
(* server is a step of the list or leaves the list alone.                  *)
(***************************************************************************)
EXTENDS SystemInvariant, FiniteSetTheorems, WellFoundedInduction, TLAPS

ULP == INSTANCE UserListProofs WITH User <- Conn
MQP == INSTANCE MessageQueueProofs WITH
         Item <- [fd : Fd, type : Plain \cup Secure, from : Conn,
                  seq : Nat, arg : Name \cup {NoName}],
         Consumer <- Worker, MaxSize <- MaxQueue

-----------------------------------------------------------------------------
(* The pointer variables are finitely many and all different.              *)
LEMMA PairsFinite ==
  ASSUME NEW S, IsFiniteSet(S), NEW a
  PROVE  IsFiniteSet({<<x, a>> : x \in S})
  <1> DEFINE T == {<<x, a>> : x \in S}
             f == [x \in S |-> <<x, a>>]
  <1>1. f \in Surjection(S, T)
    BY DEF Surjection
  <1>2. QED
    BY <1>1, FS_Surjection

LEMMA RefsFinite == IsFiniteSet(Ref)
  <1> DEFINE Thread == Worker \cup {Main}
  <1>0. IsFiniteSet(Worker)
    BY ServerAssumption
  <1>1. IsFiniteSet(Thread)
    BY <1>0, FS_Union, FS_Singleton
  <1> HIDE DEF Thread
  <1>2. IsFiniteSet({<<t, "u">> : t \in Thread})
    BY <1>1, PairsFinite
  <1>3. IsFiniteSet({<<w, "opponent">> : w \in Worker})
    BY <1>0, PairsFinite
  <1>4. QED
    BY <1>2, <1>3, FS_Union DEF Ref, MyUser, Opponent, Thread

LEMMA RefFacts ==
  /\ MyUser(Main) \in Ref
  /\ \A w \in Worker : MyUser(w) \in Ref /\ Opponent(w) \in Ref
  /\ \A w \in Worker : MyUser(w) # MyUser(Main) /\ Opponent(w) # MyUser(Main)
  /\ \A v, w \in Worker : MyUser(v) # Opponent(w)
  /\ \A v, w \in Worker : v # w => MyUser(v) # MyUser(w) /\ Opponent(v) # Opponent(w)
  BY ServerAssumption DEF Ref, MyUser, Opponent

(* The assumptions of UserList and MessageQueue hold of the server's       *)
(* instances of them.                                                      *)
LEMMA ListAssumption == ULP!UserListAssumption
  <1>1. NULL \notin Conn /\ NULL \notin Fd /\ MaxUsers \in Nat
    BY ServerAssumption DEF Fd
  <1>2. NoName \notin Name
    BY ServerAssumption DEF Name, NoName
  <1>3. ULP!IsFiniteSet(Ref)
    BY RefsFinite DEF ULP!IsFiniteSet, IsFiniteSet
  <1>4. QED
    BY <1>1, <1>2, <1>3 DEF ULP!UserListAssumption, UserState

-----------------------------------------------------------------------------
(* UserListProofs has its own copies of the definitions of UserList.       *)
LEMMA SameCardinality ==
  ASSUME NEW S
  PROVE  /\ UL!Cardinality(S) = ULP!Cardinality(S)
         /\ UL!Cardinality(S) = Cardinality(S)
  BY DEF UL!Cardinality, ULP!Cardinality, Cardinality

LEMMA SameListInv == UL!UserListInv <=> ULP!UserListInv
  <1>1. UL!UserListTypeOK <=> ULP!UserListTypeOK
    BY DEF UL!UserListTypeOK, ULP!UserListTypeOK
  <1>2. UL!HeldAlive <=> ULP!HeldAlive
    BY DEF UL!HeldAlive, ULP!HeldAlive
  <1>3. UL!IndexSound <=> ULP!IndexSound
    BY DEF UL!IndexSound, ULP!IndexSound
  <1>4. UL!HeldIndexed <=> ULP!HeldIndexed
    BY DEF UL!HeldIndexed, ULP!HeldIndexed
  <1>5. UL!NoZombie <=> ULP!NoZombie
    BY DEF UL!NoZombie, ULP!NoZombie
  <1>6. \A c : UL!Holders(held, c) = ULP!Holders(held, c)
    BY DEF UL!Holders, ULP!Holders
  <1>7. UL!RefsCover <=> ULP!RefsCover
    BY <1>6, SameCardinality DEF UL!RefsCover, ULP!RefsCover
  <1>8. UL!FreshUsers <=> ULP!FreshUsers
    BY DEF UL!FreshUsers, ULP!FreshUsers
  <1>9. QED
    BY <1>1, <1>2, <1>3, <1>4, <1>5, <1>7, <1>8
    DEF UL!UserListInv, ULP!UserListInv

LEMMA SameListNext == [UL!Next]_(UL!userVars) => [ULP!Next]_(ULP!userVars)
  <1>1. UL!OpenFds = ULP!OpenFds
    BY DEF UL!OpenFds, ULP!OpenFds
  <1>2. UL!HasSpace <=> ULP!HasSpace
    BY SameCardinality DEF UL!HasSpace, ULP!HasSpace
  <1>3. \A u, f : UL!Accept(u, f) => ULP!Accept(u, f)
    BY <1>1, <1>2 DEF UL!Accept, ULP!Accept, UL!Inserted, ULP!Inserted
  <1>4. \A u : UL!AddNamed(u) => ULP!AddNamed(u)
    BY <1>2 DEF UL!AddNamed, ULP!AddNamed, UL!Inserted, ULP!Inserted,
                UL!IsHeld, ULP!IsHeld, UL!maps, ULP!maps
  <1>5. \A r, x : UL!Take(r, x) => ULP!Take(r, x)
    BY DEF UL!Take, ULP!Take
  <1>6. \A r, n : UL!GetByName(r, n) => ULP!GetByName(r, n)
    BY <1>5 DEF UL!GetByName, ULP!GetByName
  <1>7. \A r, f : UL!GetByFd(r, f) => ULP!GetByFd(r, f)
    BY <1>5 DEF UL!GetByFd, ULP!GetByFd
  <1>8. \A r : UL!Yield(r) => ULP!Yield(r)
    BY DEF UL!Yield, ULP!Yield, UL!Destroys, ULP!Destroys, UL!Unlist, ULP!Unlist,
           UL!Erased, ULP!Erased, UL!maps, ULP!maps
  <1>9. \A r : UL!Forget(r) => ULP!Forget(r)
    BY DEF UL!Forget, ULP!Forget
  <1>10. \A f : UL!SetStates(f) => ULP!SetStates(f)
    BY DEF UL!SetStates, ULP!SetStates, UL!IsHeld, ULP!IsHeld
  <1>11. \A u, n : UL!SetUsername(u, n) => ULP!SetUsername(u, n)
    BY DEF UL!SetUsername, ULP!SetUsername, UL!IsHeld, ULP!IsHeld
  <1>12. UNCHANGED UL!userVars => UNCHANGED ULP!userVars
    BY DEF UL!userVars, ULP!userVars
  <1>13. QED
    BY <1>3, <1>4, <1>6, <1>7, <1>8, <1>9, <1>10, <1>11, <1>12
    DEF UL!Next, ULP!Next

(* What UserListProofs proves of one step of the list.                     *)
LEMMA ListStepKeepsInv ==
  ASSUME UL!UserListInv, [UL!Next]_(UL!userVars)
  PROVE  UL!UserListInv'
  <1>1. ULP!UserListInv /\ [ULP!Next]_(ULP!userVars)
    BY SameListInv, SameListNext
  <1>2. ULP!UserListInv'
    BY <1>1, ListAssumption, ULP!StepKeepsInv
  <1>3. (UL!UserListInv <=> ULP!UserListInv)'
    BY SameListInv, PTL
  <1>4. QED
    BY <1>2, <1>3

LEMMA SameQueueInv == MQ!QueueTypeOK /\ MQ!NoLostWakeup <=> MQP!QueueInv
  BY DEF MQ!QueueTypeOK, MQ!NoLostWakeup,
         MQP!QueueTypeOK, MQP!NoLostWakeup, MQP!QueueInv

LEMMA QueueStepKeepsInv ==
  ASSUME MQ!QueueTypeOK, MQ!NoLostWakeup, [MQ!Next]_(MQ!queueVars)
  PROVE  MQ!QueueTypeOK' /\ MQ!NoLostWakeup'
  <1>1. MQP!QueueAssumption
    BY ServerAssumption DEF MQP!QueueAssumption
  <1>2. \A e : MQ!PushSignal(e) => MQP!PushSignal(e)
    BY DEF MQ!PushSignal, MQP!PushSignal, MQ!HasRoom, MQP!HasRoom, MQ!Signals,
           MQP!Signals, MQ!Signal, MQP!Signal, MQ!queueVars, MQP!queueVars
  <1>3. \A c : /\ MQ!PullItem(c) => MQP!PullItem(c)
               /\ MQ!PullSleep(c) => MQP!PullSleep(c)
               /\ MQ!SpuriousWakeup(c) => MQP!SpuriousWakeup(c)
    BY DEF MQ!PullItem, MQP!PullItem, MQ!PullSleep, MQP!PullSleep,
           MQ!SpuriousWakeup, MQP!SpuriousWakeup
  <1>4. [MQP!Next]_(MQP!queueVars)
    <2>1. MQ!Next => MQP!Next
      BY <1>2, <1>3 DEF MQ!Next, MQP!Next
    <2>2. UNCHANGED MQ!queueVars => UNCHANGED MQP!queueVars
      BY DEF MQ!queueVars, MQP!queueVars
    <2>3. QED
      BY <2>1, <2>2
  <1>5. MQP!QueueInv'
    BY <1>1, <1>4, SameQueueInv, MQP!QueueStepKeepsInv
  <1>6. (MQ!QueueTypeOK /\ MQ!NoLostWakeup <=> MQP!QueueInv)'
    BY SameQueueInv, PTL
  <1>7. QED
    BY <1>5, <1>6

-----------------------------------------------------------------------------
(* A connection that waits to be accepted finds a free descriptor: there   *)
(* are as many as connections, and the open ones belong to other users.    *)
LEMMA HeadAndTail ==
  ASSUME NEW S, NEW s \in Seq(S), s # <<>>
  PROVE  /\ Head(s) \in S /\ Tail(s) \in Seq(S)
         /\ Head(s) = s[1] /\ 1 \in DOMAIN s
         /\ \A i \in DOMAIN Tail(s) : i + 1 \in DOMAIN s /\ Tail(s)[i] = s[i + 1]
  OBVIOUS

LEMMA LeastExists ==
  ASSUME NEW S \in SUBSET Nat, S # {}
  PROVE  \E f \in S : \A g \in S : f <= g
  <1>1. PICK f \in S : \A g \in S : ~(<<g, f>> \in OpToRel(<, Nat))
    BY NatLessThanWellFounded, WFMin
  <1>2. \A g \in S : ~(g < f)
    BY <1>1 DEF OpToRel
  <1>3. QED
    BY <1>2

LEMMA FreeFdExists ==
  ASSUME UL!UserListInv, NEW c \in Conn, heap[c] = "unborn"
  PROVE  LowestFreeFd \in Fd \ UL!OpenFds
  <1> DEFINE Live == {x \in Conn : heap[x] = "live"}
             n == Cardinality(Conn)
             f == [x \in Live |-> fdOf[x]]
  <1>1. IsFiniteSet(Conn) /\ n \in Nat
    BY ServerAssumption, FS_CardinalityType
  <1>2. IsFiniteSet(Live) /\ Cardinality(Live) < n
    <2>1. IsFiniteSet(Live) /\ Cardinality(Live) <= n
          /\ (n = Cardinality(Live) => Conn = Live)
      BY <1>1, FS_Subset
    <2>2. Cardinality(Live) \in Nat
      BY <2>1, FS_CardinalityType
    <2>3. QED
      BY <1>1, <2>1, <2>2
  <1>3. IsFiniteSet(UL!OpenFds) /\ Cardinality(UL!OpenFds) < n
    <2>1. f \in Surjection(Live, UL!OpenFds)
      BY DEF Surjection, UL!OpenFds
    <2>2. IsFiniteSet(UL!OpenFds) /\ Cardinality(UL!OpenFds) <= Cardinality(Live)
      BY <1>2, <2>1, FS_Surjection
    <2>3. Cardinality(UL!OpenFds) \in Nat /\ Cardinality(Live) \in Nat
      BY <1>2, <2>2, FS_CardinalityType
    <2>4. QED
      BY <1>1, <1>2, <2>2, <2>3
  <1>4. Cardinality(Fd) = n
    BY <1>1, FS_Interval DEF Fd
  <1>5. Fd \ UL!OpenFds # {}
    <2> SUFFICES ASSUME Fd \subseteq UL!OpenFds
                 PROVE  FALSE
      OBVIOUS
    <2>1. Cardinality(Fd) <= Cardinality(UL!OpenFds)
      BY <1>3, FS_Subset
    <2>2. Cardinality(UL!OpenFds) \in Nat
      BY <1>3, FS_CardinalityType
    <2>3. QED
      BY <1>1, <1>3, <1>4, <2>1, <2>2
  <1>6. Fd \ UL!OpenFds \in SUBSET Nat
    BY <1>1 DEF Fd
  <1>7. \E x \in Fd \ UL!OpenFds : \A g \in Fd \ UL!OpenFds : x <= g
    BY <1>5, <1>6, LeastExists
  <1>8. QED
    BY <1>7 DEF LowestFreeFd

-----------------------------------------------------------------------------
(* Frames.  A step that leaves the workers where they are, with the users  *)
(* they point to, and changes states only to DISCONNECTED.                 *)
LEMMA QuietStepKeeps ==
  ASSUME SystemInv,
         UNCHANGED <<wpc, wmsg, lockOwner, session, opponent, uname>>,
         \A w \in Worker : U(w)' = U(w) /\ O(w)' = O(w),
         \A c \in Conn : ustate'[c] \in {ustate[c], "DISCONNECTED"},
         \A c \in Conn : phase[c] \notin Unverified => phase'[c] \notin Unverified
  PROVE  /\ LocksHeld' /\ HandlersMatch' /\ AuthenticSession'
         /\ StagesInOrder' /\ RegisteredOnce'
  <1>1. LocksHeld'
    BY DEF SystemInv, LocksHeld, Holding
  <1>2. HandlersMatch'
    BY DEF SystemInv, HandlersMatch
  <1>3. AuthenticSession'
    BY DEF SystemInv, AuthenticSession, Unverified
  <1>4. StagesInOrder'
    BY DEF SystemInv, StagesInOrder
  <1>5. RegisteredOnce'
    BY DEF SystemInv, RegisteredOnce
  <1>6. QED
    BY <1>1, <1>2, <1>3, <1>4, <1>5

-----------------------------------------------------------------------------
(* The main thread.                                                        *)
LEMMA AcceptsOne ==
  ASSUME SystemInv, ScanAccept
  PROVE  backlog # <<>> /\ Head(backlog) \in Conn /\ LowestFreeFd \in Fd
  <1>1. backlog # <<>>
    BY DEF SystemInv, Types, SystemTypeOK, ServerTypeOK, ScanAccept, IsNext,
       Stale, ListenFd, Fd
  <1>2. Head(backlog) \in Conn
    BY <1>1, HeadAndTail DEF SystemInv, Types
  <1>3. heap[Head(backlog)] = "unborn"
    BY DEF ScanAccept, UL!Accept
  <1>4. QED
    BY <1>1, <1>2, <1>3, FreeFdExists DEF SystemInv

LEMMA MainListStep ==
  ASSUME SystemInv, MainStep
  PROVE  [UL!Next]_(UL!userVars)
  <1>1. CASE SelectBadFd \/ SelectReady \/ ScanEnd \/ CheckState \/ ReadMessage
             \/ MainExists \/ \E f \in Fd : ScanClear(f)
    BY <1>1 DEF SelectBadFd, SelectReady, ScanEnd, CheckState, ReadMessage,
       MainExists, ScanClear, listVars, UL!userVars
  <1>2. CASE ScanAccept
    BY <1>2, AcceptsOne DEF ScanAccept, UL!Next
  <1>3. CASE \E f \in Fd : ScanGet(f)
    BY <1>3, RefFacts DEF ScanGet, UL!Next
  <1>4. CASE DropDisconnected \/ MainYield
    BY <1>4, RefFacts DEF DropDisconnected, MainYield, UL!Next
  <1>5. CASE ReadEof
    <2>1. held[MyUser(Main)] \in Conn
      BY <1>5, RefFacts DEF ReadEof, SystemInv, PointersKept, UL!UserListInv,
         UL!UserListTypeOK
    <2>2. QED
      BY <1>5, <2>1 DEF ReadEof, SetState, UL!Next, UserState
  <1>6. QED
    BY <1>1, <1>2, <1>3, <1>4, <1>5 DEF MainStep

LEMMA MainFrame ==
  ASSUME SystemInv, MainStep
  PROVE  /\ UNCHANGED <<wpc, wmsg, wres, lockOwner, session, opponent, uname>>
         /\ \A w \in Worker : U(w)' = U(w) /\ O(w)' = O(w)
         /\ \A c \in Conn : ustate'[c] \in {ustate[c], "DISCONNECTED"}
  <1> USE RefFacts DEF SystemInv, UL!UserListInv, UL!UserListTypeOK, U, O
  <1>0. UNCHANGED <<wpc, wmsg, wres, lockOwner, session, opponent>>
    BY DEF MainStep, workerVars, peerVars
  <1>1. CASE SelectBadFd \/ SelectReady \/ ScanEnd \/ CheckState \/ ReadMessage
             \/ MainExists \/ \E f \in Fd : ScanClear(f)
    BY <1>0, <1>1 DEF SelectBadFd, SelectReady, ScanEnd, CheckState, ReadMessage,
       MainExists, ScanClear, listVars
  <1>2. CASE ScanAccept
    BY <1>0, <1>2 DEF ScanAccept, UL!Accept
  <1>3. CASE \E f \in Fd : ScanGet(f)
    BY <1>0, <1>3 DEF ScanGet, UL!GetByFd, UL!Take
  <1>4. CASE DropDisconnected \/ MainYield
    BY <1>0, <1>4 DEF DropDisconnected, MainYield, UL!Yield
  <1>5. CASE ReadEof
    BY <1>0, <1>5 DEF ReadEof, SetState, UL!SetStates
  <1>6. QED
    BY <1>1, <1>2, <1>3, <1>4, <1>5 DEF MainStep

LEMMA MainQueueStep ==
  ASSUME SystemInv, MainStep
  PROVE  [MQ!Next]_(MQ!queueVars)
  <1>1. CASE ReadMessage
    <2> DEFINE c == held[MyUser(Main)]
               m == Head(inbox[c])
    <2>1. c \in Conn
      BY <1>1, RefFacts DEF ReadMessage, SystemInv, PointersKept, UL!UserListInv,
         UL!UserListTypeOK
    <2>2. m \in ClientMessage
      BY <1>1, <2>1, HeadAndTail DEF ReadMessage, SystemInv, Types
    <2>3. cursor \in Fd
      BY <1>1 DEF ReadMessage, SystemInv, Types
    <2>4. [fd |-> cursor, type |-> m.type, from |-> c, seq |-> m.seq, arg |-> m.arg]
            \in QueueItem
      BY <2>1, <2>2, <2>3 DEF ClientMessage, QueueItem
    <2>5. QED
      BY <1>1, <2>4 DEF ReadMessage, MQ!Next, QueueItem
  <1>2. CASE ~ReadMessage
    BY <1>2 DEF MainStep, SelectBadFd, SelectReady, ScanAccept, ScanEnd, ScanGet,
       ScanClear, CheckState, DropDisconnected, ReadEof, MainYield, MainExists,
       queueVars, MQ!queueVars
  <1>3. QED
    BY <1>1, <1>2

MainTypes ==
  /\ mpc \in {"select", "scan", "check", "drop", "read", "yield", "exists", "crashed"}
  /\ active \subseteq Fd /\ ready \subseteq Fd \cup {ListenFd}
  /\ cursor \in Fd \cup {ListenFd - 1, ListenFd}
  /\ mpc \in {"check", "drop", "read", "yield", "exists"} => cursor \in Fd
  /\ ListenFd \in ready /\ cursor < ListenFd => backlog # <<>>
  /\ backlog \in Seq(Conn)
  /\ inbox \in [Conn -> Seq(ClientMessage)]

LEMMA MainKeepsTypes ==
  ASSUME SystemInv, MainStep
  PROVE  /\ MainTypes'
         /\ held'[MyUser(Main)] # NULL <=> mpc' \in {"check", "drop", "read", "yield"}
         /\ \A c \in Conn : \A i \in DOMAIN inbox'[c] : Genuine(c, inbox'[c][i])
         /\ \A i \in DOMAIN msgQueue' : Genuine(msgQueue'[i].from, msgQueue'[i])
  <1> DEFINE Goal == 
         /\ MainTypes'
         /\ held'[MyUser(Main)] # NULL <=> mpc' \in {"check", "drop", "read", "yield"}
         /\ \A c \in Conn : \A i \in DOMAIN inbox'[c] : Genuine(c, inbox'[c][i])
         /\ \A i \in DOMAIN msgQueue' : Genuine(msgQueue'[i].from, msgQueue'[i])
  <1>0. /\ MainTypes
        /\ held[MyUser(Main)] # NULL <=> mpc \in {"check", "drop", "read", "yield"}
        /\ held \in [Ref -> Conn \cup {NULL}] /\ byFd \in [Fd -> Conn \cup {NULL}]
        /\ MessagesGenuine
    BY DEF SystemInv, Types, SystemTypeOK, ServerTypeOK, MainTypes, PointersKept,
       UL!UserListInv, UL!UserListTypeOK
  <1>00. \A f \in Fd : f # ListenFd /\ f \in Nat /\ ~(f < ListenFd)
    BY DEF Fd, ListenFd
  <1> USE RefFacts, <1>0, <1>00 DEF MainTypes
  <1>1. CASE SelectBadFd
    BY <1>1 DEF SelectBadFd, listVars, queueVars, MessagesGenuine, ListenFd
  <1>2. CASE SelectReady
    BY <1>2 DEF SelectReady, listVars, queueVars, MessagesGenuine, ListenFd
  <1>3. CASE ScanAccept
    <2>1. backlog # <<>> /\ LowestFreeFd \in Fd
      BY <1>3, AcceptsOne
    <2>2. Tail(backlog) \in Seq(Conn)
      BY <2>1
    <2>3. QED
      BY <1>3, <2>1, <2>2 DEF ScanAccept, UL!Accept, queueVars, MessagesGenuine, IsNext,
         ListenFd
  <1>4. CASE ScanEnd
    BY <1>4 DEF ScanEnd, listVars, queueVars, MessagesGenuine, ListenFd
  <1>5. ASSUME NEW f \in Fd, ScanGet(f) PROVE Goal
    BY <1>5 DEF ScanGet, UL!GetByFd, UL!Take, queueVars, MessagesGenuine, IsNext
  <1>6. ASSUME NEW f \in Fd, ScanClear(f) PROVE Goal
    BY <1>6 DEF ScanClear, listVars, queueVars, MessagesGenuine, IsNext
  <1>7. CASE CheckState
    BY <1>7 DEF CheckState, listVars, queueVars, MessagesGenuine
  <1>8. CASE DropDisconnected
    BY <1>8 DEF DropDisconnected, UL!Yield, queueVars, MessagesGenuine
  <1>9. CASE ReadMessage
    <2> DEFINE c == held[MyUser(Main)]
               e == [fd |-> cursor, type |-> Head(inbox[c]).type, from |-> c,
                     seq |-> Head(inbox[c]).seq, arg |-> Head(inbox[c]).arg]
    <2>1. c \in Conn /\ inbox[c] # <<>> /\ inbox' = [inbox EXCEPT ![c] = Tail(@)]
          /\ mpc = "read" /\ mpc' = "yield" /\ MQ!PushSignal(e)
          /\ UNCHANGED <<active, ready, cursor, backlog, held>>
      BY <1>9 DEF ReadMessage, listVars
    <2>2. inbox[c] \in Seq(ClientMessage)
      BY <2>1
    <2>3. /\ Tail(inbox[c]) \in Seq(ClientMessage)
          /\ \A i \in DOMAIN Tail(inbox[c]) : Genuine(c, Tail(inbox[c])[i])
          /\ Genuine(c, Head(inbox[c]))
      BY <2>1, <2>2, HeadAndTail DEF MessagesGenuine
    <2>4. Genuine(e.from, e)
      BY <2>3 DEF Genuine
    <2>5. /\ msgQueue \in Seq(QueueItem)
          /\ msgQueue' = msgQueue \/ msgQueue' = Append(msgQueue, e)
      BY <2>1 DEF MQ!PushSignal, MQ!queueVars, SystemInv, Types, MQ!QueueTypeOK, QueueItem
    <2>6. \A i \in DOMAIN msgQueue' : Genuine(msgQueue'[i].from, msgQueue'[i])
      <3>1. CASE msgQueue' = msgQueue
        BY <3>1 DEF MessagesGenuine
      <3>2. CASE msgQueue' = Append(msgQueue, e)
        <4> HIDE DEF e
        <4>1. \A i \in DOMAIN msgQueue' :
                \/ i \in DOMAIN msgQueue /\ msgQueue'[i] = msgQueue[i]
                \/ msgQueue'[i] = e
          BY <2>5, <3>2
        <4>2. QED
          BY <2>4, <4>1 DEF MessagesGenuine
      <3>3. QED
        BY <2>5, <3>1, <3>2
    <2>7. \A d \in Conn : \A i \in DOMAIN inbox'[d] : Genuine(d, inbox'[d][i])
      BY <2>1, <2>3 DEF MessagesGenuine
    <2>8. MainTypes'
      BY <2>1, <2>3
    <2>9. QED
      BY <2>1, <2>6, <2>7, <2>8
  <1>10. CASE ReadEof
    BY <1>10 DEF ReadEof, SetState, UL!SetStates, queueVars, MessagesGenuine
  <1>11. CASE MainYield
    BY <1>11 DEF MainYield, UL!Yield, queueVars, MessagesGenuine
  <1>12. CASE MainExists
    BY <1>12 DEF MainExists, listVars, queueVars, MessagesGenuine
  <1>13. QED
    BY <1>1, <1>2, <1>3, <1>4, <1>5, <1>6, <1>7, <1>8, <1>9, <1>10, <1>11, <1>12 DEF MainStep

-----------------------------------------------------------------------------
(* The clients.                                                            *)
LEMMA SendingKeepsTypes ==
  ASSUME SystemInv, NEW c \in Conn, NEW msgs \in Seq(ClientMessage),
         SendAll(c, msgs),
         \A d \in Conn : phase[d] \notin Unverified => phase'[d] \notin Unverified,
         \A i \in DOMAIN msgs :
           /\ msgs[i].type = "CLIENT_VERIFY" => phase'[c] \notin Unverified
           /\ msgs[i].type = "REGISTER" => msgs[i].arg = NameOf[c]
           /\ msgs[i].type = "CHALLENGE" => msgs[i].arg \in Name
  PROVE  /\ inbox' \in [Conn -> Seq(ClientMessage)]
         /\ \A d \in Conn : \A i \in DOMAIN inbox'[d] : Genuine(d, inbox[d][i])'
         /\ sseq' \in [Conn -> Nat]
  <1>1. inbox \in [Conn -> Seq(ClientMessage)] /\ sseq \in [Conn -> Nat]
    BY DEF SystemInv, Types, SystemTypeOK
  <1>2. inbox' = inbox \/ inbox' = [inbox EXCEPT ![c] = @ \o msgs]
    BY DEF SendAll
  <1>3. \A d \in Conn : \A i \in DOMAIN inbox'[d] :
           \/ i \in DOMAIN inbox[d] /\ inbox'[d][i] = inbox[d][i]
           \/ d = c /\ \E j \in DOMAIN msgs : inbox'[d][i] = msgs[j]
    <2>1. \A i \in DOMAIN (inbox[c] \o msgs) :
             \/ i \in DOMAIN inbox[c] /\ (inbox[c] \o msgs)[i] = inbox[c][i]
             \/ \E j \in DOMAIN msgs : (inbox[c] \o msgs)[i] = msgs[j]
      BY <1>1
    <2>2. QED
      BY <1>1, <1>2, <2>1
  <1>4. \A d \in Conn : \A i \in DOMAIN inbox'[d] : Genuine(d, inbox[d][i])'
    BY <1>3 DEF SystemInv, MessagesGenuine, Genuine
  <1>5. inbox' \in [Conn -> Seq(ClientMessage)]
    <2>1. inbox[c] \o msgs \in Seq(ClientMessage)
      BY <1>1
    <2>2. QED
      BY <1>1, <1>2, <2>1
  <1>6. sseq' \in [Conn -> Nat]
    <2> DEFINE S == {i \in DOMAIN msgs : msgs[i].type \in Secure}
    <2>1. S \in SUBSET (1 .. Len(msgs)) /\ Len(msgs) \in Nat
      OBVIOUS
    <2>2. Cardinality(S) \in Nat
      <3>1. IsFiniteSet(1 .. Len(msgs))
        BY <2>1, FS_Interval
      <3>2. QED
        BY <2>1, <3>1, FS_Subset, FS_CardinalityType
    <2>3. sseq' = [sseq EXCEPT ![c] = @ + Cardinality(S)]
      BY DEF SendAll
    <2> HIDE DEF S
    <2>4. QED
      BY <1>1, <2>2, <2>3
  <1>7. QED
    BY <1>4, <1>5, <1>6

LEMMA Phases ==
  DOMAIN Awaited = {"off", "cert", "hello", "lobby", "list", "challenge", "asked",
                    "replied", "game", "gone"}
  BY DEF Awaited

(* A client's step touches nothing of the server.                          *)
LEMMA ClientLeavesServer ==
  ASSUME NEW c \in Conn, ClientStep(c)
  PROVE  UNCHANGED <<listVars, queueVars, lockOwner, peerVars, mainVars, workerVars>>
  BY DEF ClientStep, Connect, RecvCertificate, RecvServerHello, RequestList,
     ChallengePeer, RecvChallenge, ReplyChallenge, RecvAnswer, Discard, EndGame,
     FailGame, Quit, BadServerHello, GiveUp, ServerClosed, Close, ServerRest

ClientGoal ==
  /\ phase' \in [Conn -> DOMAIN Awaited]
  /\ \A d \in Conn : phase[d] \notin Unverified => phase'[d] \notin Unverified
  /\ sseq' \in [Conn -> Nat]
  /\ ops' \in [Conn -> Nat] /\ \A d \in Conn : ops'[d] \in 0 .. MaxOps[d]
  /\ inbox' \in [Conn -> Seq(ClientMessage)]
  /\ \A d \in Conn : \A i \in DOMAIN inbox'[d] : Genuine(d, inbox[d][i])'
  /\ backlog' \in Seq(Conn) /\ (backlog # <<>> => backlog' # <<>>)

LEMMA ClientKeepsTypes ==
  ASSUME SystemInv, NEW c \in Conn, ClientStep(c)
  PROVE  ClientGoal
  <1>0. /\ phase \in [Conn -> DOMAIN Awaited]
        /\ sseq \in [Conn -> Nat]
        /\ ops \in [Conn -> Nat] /\ \A d \in Conn : ops[d] \in 0 .. MaxOps[d]
        /\ MaxOps \in [Conn -> Nat]
        /\ inbox \in [Conn -> Seq(ClientMessage)]
        /\ backlog \in Seq(Conn)
        /\ MessagesGenuine
    BY SystemAssumption DEF SystemInv, Types, SystemTypeOK, MaxOps
  <1> DEFINE one(type, arg) == <<Msg(type, arg, sseq[c])>>
  <1>1. \A type \in Plain \cup Secure, arg \in Name \cup {NoName} :
          /\ one(type, arg) \in Seq(ClientMessage)
          /\ DOMAIN one(type, arg) = {1}
          /\ one(type, arg)[1].type = type /\ one(type, arg)[1].arg = arg
    BY <1>0 DEF Msg, ClientMessage
  <1>2. ASSUME NEW type \in Plain \cup Secure, NEW arg \in Name \cup {NoName},
               Request(c, type, arg), type \notin {"CLIENT_VERIFY", "REGISTER"},
               type = "CHALLENGE" => arg \in Name,
               NEW p \in DOMAIN Awaited, Become(c, p),
               phase[c] \notin Unverified => p \notin Unverified,
               ops' \in [Conn -> Nat] /\ \A d \in Conn : ops'[d] \in 0 .. MaxOps[d],
               backlog' \in Seq(Conn) /\ (backlog # <<>> => backlog' # <<>>)
        PROVE  ClientGoal
    <2>1. /\ phase' \in [Conn -> DOMAIN Awaited]
          /\ \A d \in Conn : phase[d] \notin Unverified => phase'[d] \notin Unverified
      BY <1>0, <1>2 DEF Become
    <2>2. SendAll(c, one(type, arg))
      BY <1>2 DEF Request
    <2> HIDE DEF one
    <2>3. QED
      BY <1>1, <1>2, <2>1, <2>2, SendingKeepsTypes DEF ClientGoal
  <1> HIDE DEF one
  <1> USE Phases DEF Plain, Secure, Unverified
  <1>3. CASE Connect(c)
    <2>1. backlog' \in Seq(Conn) /\ backlog' # <<>> /\ ops' = ops /\ phase[c] = "off"
      BY <1>0, <1>3 DEF Connect
    <2>2. \/ Become(c, "cert") /\ Request(c, "CERT_REQ", NoName)
          \/ Become(c, "hello") /\ Request(c, "CLIENT_HELLO", NoName)
      BY <1>3 DEF Connect
    <2>3. QED
      BY <1>0, <1>2, <2>1, <2>2
  <1>4. CASE RecvCertificate(c)
    <2>1. phase[c] \in Unverified
      <3>1. phase[c] \in DOMAIN Awaited /\ "CERTIFICATE" \in Awaited[phase[c]]
        BY <1>0, <1>4 DEF RecvCertificate, Received
      <3>2. QED
        BY <3>1 DEF Awaited
    <2>2. QED
      BY <1>0, <1>2, <1>4, <2>1 DEF RecvCertificate
  <1>5. CASE RecvServerHello(c)
    <2> DEFINE msgs == <<Msg("CLIENT_VERIFY", NoName, 0), Msg("REGISTER", NameOf[c], sseq[c])>>
    <2>1. msgs \in Seq(ClientMessage)
      BY <1>0 DEF Msg, ClientMessage, Name
    <2>2. /\ DOMAIN msgs = {1, 2}
          /\ msgs[1].type = "CLIENT_VERIFY"
          /\ msgs[2].type = "REGISTER" /\ msgs[2].arg = NameOf[c]
      BY DEF Msg
    <2>3. SendAll(c, msgs) /\ Become(c, "lobby") /\ UNCHANGED <<backlog, ops>>
      BY <1>5 DEF RecvServerHello
    <2> HIDE DEF msgs
    <2>4. /\ phase' \in [Conn -> DOMAIN Awaited] /\ phase'[c] = "lobby"
          /\ \A d \in Conn : phase[d] \notin Unverified => phase'[d] \notin Unverified
      BY <1>0, <2>3 DEF Become
    <2>5. QED
      BY <1>0, <2>1, <2>2, <2>3, <2>4, SendingKeepsTypes DEF ClientGoal
  <1>6. CASE RequestList(c)
    <2>1. ops' \in [Conn -> Nat] /\ \A d \in Conn : ops'[d] \in 0 .. MaxOps[d]
      BY <1>0, <1>6 DEF RequestList
    <2>2. phase[c] \notin Unverified /\ "list" \notin Unverified /\ "list" \in DOMAIN Awaited
      BY <1>6 DEF RequestList
    <2>3. QED
      BY <1>0, <1>2, <1>6, <2>1, <2>2 DEF RequestList
  <1>7. ASSUME NEW n \in Name, ChallengePeer(c, n)
        PROVE  ClientGoal
    BY <1>0, <1>2, <1>7 DEF ChallengePeer
  <1>8. CASE ReplyChallenge(c)
    BY <1>0, <1>2, <1>8 DEF ReplyChallenge
  <1>9. CASE EndGame(c)
    BY <1>0, <1>2, <1>9 DEF EndGame
  <1>10. CASE RecvChallenge(c) \/ RecvAnswer(c) \/ Discard(c) \/ FailGame(c)
    <2>1. /\ UNCHANGED <<inbox, backlog, sseq, ops>>
          /\ \/ phase' = phase
             \/ \E p \in {"asked", "lobby", "game"} : Become(c, p)
      BY <1>10 DEF RecvChallenge, RecvAnswer, Discard, FailGame, clientVars, networkVars
    <2>2. /\ phase' \in [Conn -> DOMAIN Awaited]
          /\ \A d \in Conn : phase[d] \notin Unverified => phase'[d] \notin Unverified
      BY <1>0, <2>1 DEF Become
    <2>3. QED
      BY <1>0, <2>1, <2>2 DEF ClientGoal, MessagesGenuine, Genuine
  <1>11. CASE Quit(c) \/ BadServerHello(c) \/ GiveUp(c) \/ ServerClosed(c)
    <2>1. Close(c)
      BY <1>11 DEF Quit, BadServerHello, GiveUp, ServerClosed
    <2>2. inbox' = inbox \/ inbox' = [inbox EXCEPT ![c] = <<>>]
      BY <2>1 DEF Close
    <2>3. /\ inbox' \in [Conn -> Seq(ClientMessage)]
          /\ \A d \in Conn : \A i \in DOMAIN inbox'[d] :
               i \in DOMAIN inbox[d] /\ inbox'[d][i] = inbox[d][i]
      <3>1. <<>> \in Seq(ClientMessage) /\ DOMAIN <<>> = {}
        OBVIOUS
      <3>2. QED
        BY <1>0, <2>2, <3>1
    <2>4. /\ phase' = [phase EXCEPT ![c] = "gone"]
          /\ UNCHANGED <<backlog, sseq, ops>>
      BY <2>1 DEF Close, Become
    <2>5. /\ phase' \in [Conn -> DOMAIN Awaited]
          /\ \A d \in Conn : phase[d] \notin Unverified => phase'[d] \notin Unverified
      BY <1>0, <2>4
    <2>6. QED
      BY <1>0, <2>3, <2>4, <2>5 DEF ClientGoal, MessagesGenuine, Genuine
  <1>12. QED
    BY <1>3, <1>4, <1>5, <1>6, <1>7, <1>8, <1>9, <1>10, <1>11 DEF ClientStep

-----------------------------------------------------------------------------
(* The workers.                                                            *)
LEMMA Pointers ==
  ASSUME SystemInv, NEW w \in Worker
  PROVE  /\ held \in [Ref -> Conn \cup {NULL}] /\ byFd \in [Fd -> Conn \cup {NULL}]
         /\ byName \in [Name -> Conn \cup {NULL}] /\ uname \in [Conn -> Name \cup {NoName}]
         /\ ustate \in [Conn -> UserState]
         /\ wpc \in [Worker -> WorkerPc] /\ opponent \in [Conn -> Name \cup {NoName}]
         /\ wmsg \in [Worker -> QueueItem \cup {NULL}]
         /\ MyUser(w) \in Ref /\ Opponent(w) \in Ref
         /\ wpc[w] \notin {"pull", "get"} => U(w) \in Conn
         /\ wpc[w] \in HasOpponent => O(w) \in Conn
         /\ wpc[w] # "pull" => wmsg[w] \in QueueItem
  <1>1. /\ held \in [Ref -> Conn \cup {NULL}] /\ byFd \in [Fd -> Conn \cup {NULL}]
        /\ byName \in [Name -> Conn \cup {NULL}] /\ uname \in [Conn -> Name \cup {NoName}]
        /\ ustate \in [Conn -> UserState]
    BY DEF SystemInv, UL!UserListInv, UL!UserListTypeOK
  <1>2. /\ wpc \in [Worker -> WorkerPc] /\ opponent \in [Conn -> Name \cup {NoName}]
        /\ wmsg \in [Worker -> QueueItem \cup {NULL}]
        /\ wmsg[w] = NULL <=> wpc[w] = "pull"
    BY DEF SystemInv, Types, SystemTypeOK, ServerTypeOK
  <1>3. MyUser(w) \in Ref /\ Opponent(w) \in Ref
    BY RefFacts
  <1>4. /\ wpc[w] \notin {"pull", "get"} => U(w) # NULL
        /\ wpc[w] \in HasOpponent => O(w) # NULL
    BY DEF SystemInv, PointersKept
  <1>5. QED
    BY <1>1, <1>2, <1>3, <1>4 DEF U, O

LEMMA StateStep ==
  ASSUME NEW c \in Conn, NEW d \in Conn, NEW s \in UserState, NEW t \in UserState,
         SetState(c, s) \/ SetBoth(c, s, d, t)
  PROVE  UL!Next
  <1>1. CASE SetState(c, s)
    <2>1. {c} \in SUBSET Conn /\ [x \in {c} |-> s] \in [{c} -> UserState]
      OBVIOUS
    <2>2. QED
      BY <1>1, <2>1 DEF SetState, UL!Next
  <1>2. CASE SetBoth(c, s, d, t)
    <2>1. /\ {c, d} \in SUBSET Conn
          /\ [x \in {c, d} |-> IF x = c THEN s ELSE t] \in [{c, d} -> UserState]
      OBVIOUS
    <2>2. QED
      BY <1>2, <2>1 DEF SetBoth, UL!Next
  <1>3. QED
    BY <1>1, <1>2

(* The message a worker handles says what it was taken from the queue for. *)
LEMMA CurrentMessage ==
  ASSUME SystemInv, NEW w \in Worker, wpc[w] # "pull"
  PROVE  /\ wmsg[w] \in QueueItem /\ wmsg[w].fd \in Fd /\ wmsg[w].from \in Conn
         /\ wpc[w] \in Handler => wmsg[w].type = wpc[w]
         /\ wpc[w] = "CHALLENGE" => wmsg[w].arg \in Name
         /\ wpc[w] = "REGISTER" => wmsg[w].arg \in Name /\ wmsg[w].arg = NameOf[wmsg[w].from]
         /\ wpc[w] = "CLIENT_VERIFY" => phase[wmsg[w].from] \notin Unverified
         /\ wpc[w] \in {"dl", "dl_opponent", "dl_own"} =>
              wmsg[w].type \in {"CHALLENGE", "ACCEPT", "REJECT"}
  <1>1. wmsg[w] \in QueueItem /\ wmsg[w] # NULL
    BY Pointers DEF SystemInv, Types, SystemTypeOK, ServerTypeOK
  <1>2. wmsg[w].fd \in Fd /\ wmsg[w].from \in Conn
    BY <1>1 DEF QueueItem
  <1>3. wpc[w] \in Handler => wmsg[w].type = wpc[w]
    BY DEF SystemInv, HandlersMatch
  <1>4. Genuine(wmsg[w].from, wmsg[w])
    BY <1>1 DEF SystemInv, MessagesGenuine
  <1>5. NameOf[wmsg[w].from] \in Name
    BY <1>2 DEF Name
  <1>6. wpc[w] \in {"dl", "dl_opponent", "dl_own"} =>
          wmsg[w].type \in {"CHALLENGE", "ACCEPT", "REJECT"}
    BY DEF SystemInv, HandlersMatch, AfterDoubleLock
  <1> HIDE DEF SystemInv
  <1>7. QED
    BY <1>1, <1>2, <1>3, <1>4, <1>5, <1>6 DEF Genuine, Handler, Plain, Secure

LEMMA WorkerListStep ==
  ASSUME SystemInv, NEW w \in Worker, WorkerStep(w)
  PROVE  [UL!Next]_(UL!userVars)
  <1>1. CASE Pull(w) \/ Lock(w) \/ Dispatch(w) \/ DoubleLock(w) \/ DoubleUnlock(w) \/ Unlock(w)
             \/ ClientHello(w) \/ UsersListReq(w) \/ ChallengeCheck(w) \/ AcceptCheck(w)
    BY <1>1 DEF Pull, Lock, Dispatch, DoubleLock, DoubleUnlock, Unlock, ClientHello,
       UsersListReq, ChallengeCheck, AcceptCheck, listVars, UL!userVars
  <1>2. CASE Get(w)
    <2>1. wmsg[w].fd \in Fd
      BY <1>2, Pointers DEF Get, At, QueueItem
    <2>2. QED
      BY <1>2, <2>1, Pointers DEF Get, UL!Next
  <1>3. CASE Challenge(w)
    <2>1. wmsg[w].arg \in Name
      BY <1>3, CurrentMessage DEF Challenge, At
    <2>2. QED
      BY <1>3, <2>1, Pointers DEF Challenge, UL!Next
  <1>4. CASE Respond(w)
    <2>1. opponent[U(w)] \in Name
      BY <1>4, Pointers DEF Respond, SystemInv, StagesInOrder
    <2>2. QED
      BY <1>4, <2>1, Pointers DEF Respond, UL!Next
  <1>5. CASE YieldUser(w) \/ GiveBack(w) \/ ChallengeSelf(w) \/ RespondSelf(w)
    BY <1>5, Pointers DEF YieldUser, GiveBack, ChallengeSelf, RespondSelf, UL!Next
  <1>6. CASE Register(w)
    <2>1. U(w) \in Conn /\ wmsg[w].arg \in Name
      BY <1>6, Pointers, CurrentMessage DEF Register, At
    <2>2. QED
      BY <1>6, <2>1 DEF Register, UL!Next
  <1>7. CASE RegisterAdd(w)
    BY <1>7, Pointers DEF RegisterAdd, At, UL!Next
  <1>8. CASE Fail(w) \/ CertReq(w) \/ ClientVerify(w) \/ RegisterExists(w) \/ GameEnd(w)
             \/ ChallengeForward(w) \/ RespondNone(w) \/ StartGame(w) \/ RejectChallenge(w)
    <2>1. /\ U(w) \in Conn
          /\ wpc[w] \in HasOpponent => O(w) \in Conn
      BY <1>8, Pointers DEF Fail, CertReq, ClientVerify, RegisterExists, GameEnd,
         ChallengeForward, RespondNone, StartGame, RejectChallenge, At
    <2>2. CASE ChallengeForward(w)
      BY <2>1, <2>2, StateStep DEF ChallengeForward, At, HasOpponent, UserState
    <2>3. CASE StartGame(w)
      BY <2>1, <2>3, StateStep DEF StartGame, At, HasOpponent, UserState
    <2>4. CASE RejectChallenge(w)
      BY <2>1, <2>4, StateStep DEF RejectChallenge, At, HasOpponent, UserState
    <2>5. CASE CertReq(w)
      BY <2>1, <2>5, StateStep DEF CertReq, UserState, listVars, UL!userVars
    <2>6. CASE Fail(w) \/ ClientVerify(w) \/ RegisterExists(w) \/ GameEnd(w) \/ RespondNone(w)
      BY <2>1, <2>6, StateStep DEF Fail, ClientVerify, RegisterExists, GameEnd,
         RespondNone, UserState
    <2>7. QED
      BY <1>8, <2>2, <2>3, <2>4, <2>5, <2>6
  <1>9. QED
    BY <1>1, <1>2, <1>3, <1>4, <1>5, <1>6, <1>7, <1>8 DEF WorkerStep, HandlerStep

LEMMA WorkerQueueStep ==
  ASSUME SystemInv, NEW w \in Worker, WorkerStep(w)
  PROVE  [MQ!Next]_(MQ!queueVars)
  <1>1. CASE Pull(w)
    BY <1>1 DEF Pull, MQ!Next
  <1>2. CASE ~Pull(w)
    BY <1>2 DEF WorkerStep, HandlerStep, Get, Lock, Dispatch, DoubleLock, DoubleUnlock,
       Unlock, Fail, YieldUser, queueVars, MQ!queueVars
  <1>3. QED
    BY <1>1, <1>2

-----------------------------------------------------------------------------
(* The mutexes exclude: two workers do not use the same one.               *)
LEMMA Exclusive ==
  ASSUME SystemInv, NEW v \in Worker, NEW w \in Worker, v # w
  PROVE  Holding(v) \cap Holding(w) = {}
  BY DEF SystemInv, LocksHeld

(* What a worker's step leaves alone, as the others see it.                *)
LEMMA WorkerFrame ==
  ASSUME SystemInv, NEW w \in Worker, WorkerStep(w)
  PROVE  /\ \A v \in Worker \ {w} :
              /\ wpc'[v] = wpc[v] /\ wmsg'[v] = wmsg[v]
              /\ U(v)' = U(v) /\ O(v)' = O(v)
         /\ held'[MyUser(Main)] = held[MyUser(Main)]
  <1> USE Pointers, RefFacts DEF U, O
  <1> HIDE DEF SystemInv
  <1>1. \A v \in Worker \ {w} : wpc'[v] = wpc[v] /\ wmsg'[v] = wmsg[v]
    <2>1. CASE Pull(w) \/ Get(w) \/ Lock(w) \/ Dispatch(w) \/ DoubleLock(w)
               \/ DoubleUnlock(w) \/ Unlock(w) \/ Fail(w) \/ YieldUser(w)
      BY <2>1 DEF Pull, Get, Lock, Dispatch, DoubleLock, DoubleUnlock, Unlock, Fail,
         YieldUser, Goto
    <2>2. CASE HandlerStep(w)
      BY <2>2 DEF HandlerStep, CertReq, ClientHello, ClientVerify, Register,
         RegisterExists, RegisterAdd, UsersListReq, GameEnd, Challenge, ChallengeSelf,
         ChallengeCheck, ChallengeForward, Respond, RespondSelf, RespondNone,
         AcceptCheck, StartGame, RejectChallenge, GiveBack, Goto, Finish
    <2>3. QED
      BY <2>1, <2>2 DEF WorkerStep
  <1>2. \/ held' = held
        \/ \E x : held' = [held EXCEPT ![MyUser(w)] = x]
        \/ \E x : held' = [held EXCEPT ![Opponent(w)] = x]
    <2>1. CASE Pull(w) \/ Get(w) \/ Lock(w) \/ Dispatch(w) \/ DoubleLock(w)
               \/ DoubleUnlock(w) \/ Unlock(w) \/ Fail(w) \/ YieldUser(w)
      BY <2>1 DEF Pull, Get, Lock, Dispatch, DoubleLock, DoubleUnlock, Unlock, Fail,
         YieldUser, listVars, UL!GetByFd, UL!Take, UL!Yield, SetState, UL!SetStates
    <2>2. CASE HandlerStep(w)
      BY <2>2 DEF HandlerStep, CertReq, ClientHello, ClientVerify, Register,
         RegisterExists, RegisterAdd, UsersListReq, GameEnd, Challenge, ChallengeSelf,
         ChallengeCheck, ChallengeForward, Respond, RespondSelf, RespondNone,
         AcceptCheck, StartGame, RejectChallenge, GiveBack, listVars, UL!GetByName,
         UL!Take, UL!Yield, UL!Forget, SetState, SetBoth, UL!SetStates, UL!SetUsername,
         UL!AddNamed
    <2>3. QED
      BY <2>1, <2>2 DEF WorkerStep
  <1>3. QED
    BY <1>1, <1>2

(* Only its owner gives a mutex back.                                      *)
LEMMA OthersKeepLocks ==
  ASSUME SystemInv, NEW w \in Worker, WorkerStep(w)
  PROVE  /\ lockOwner' \in [Conn -> Worker \cup {NULL}]
         /\ \A v \in Worker \ {w}, c \in Conn : lockOwner[c] = v => lockOwner'[c] = v
  <1>1. /\ lockOwner \in [Conn -> Worker \cup {NULL}] /\ NULL \notin Worker
        /\ \A c \in Holding(w) : lockOwner[c] = w
    BY ServerAssumption DEF SystemInv, Types, SystemTypeOK, ServerTypeOK, LocksHeld
  <1>2. \/ lockOwner' = lockOwner
        \/ \E c \in Conn : Acquire(w, c)
        \/ \E c \in Holding(w) : Release(c)
    <2> USE Pointers
    <2> HIDE DEF SystemInv
    <2>1. CASE Pull(w) \/ Get(w) \/ Dispatch(w) \/ Fail(w) \/ YieldUser(w) \/ HandlerStep(w)
      BY <2>1 DEF Pull, Get, Dispatch, Fail, YieldUser, HandlerStep
    <2>2. CASE Lock(w)
      BY <2>2 DEF Lock, At
    <2>3. CASE DoubleLock(w)
      BY <2>3 DEF DoubleLock, At, Holding, HoldsNone, HoldsOther, HasOpponent
    <2>4. CASE DoubleUnlock(w)
      BY <2>4 DEF DoubleUnlock, At, Holding, HoldsNone, HoldsOther, HasOpponent
    <2>5. CASE Unlock(w)
      BY <2>5 DEF Unlock, At, Holding, HoldsNone, HoldsOther
    <2>6. QED
      BY <2>1, <2>2, <2>3, <2>4, <2>5 DEF WorkerStep
  <1>3. QED
    BY <1>1, <1>2 DEF Acquire, Release

(* What a worker knows of itself stays well-typed.                         *)
LEMMA WorkerTypes ==
  ASSUME SystemInv, NEW w \in Worker, WorkerStep(w)
  PROVE  /\ wpc' \in [Worker -> WorkerPc]
         /\ wres' \in [Worker -> BOOLEAN]
         /\ wmsg' \in [Worker -> QueueItem \cup {NULL}]
         /\ wmsg'[w] = NULL <=> wpc'[w] = "pull"
  <1>0. /\ wpc \in [Worker -> WorkerPc]
        /\ wres \in [Worker -> BOOLEAN]
        /\ wmsg \in [Worker -> QueueItem \cup {NULL}]
        /\ wmsg[w] = NULL <=> wpc[w] = "pull"
    BY DEF SystemInv, Types, SystemTypeOK, ServerTypeOK
  <1>1. wpc[w] # "pull" => wmsg[w] \in QueueItem /\ wmsg[w] # NULL
    BY <1>0
  <1>2. wpc[w] \in {"dl", "dl_opponent", "dl_own"} =>
          AfterDoubleLock[wmsg[w].type] \in {"chl_check", "rsp_check", "rsp_reject"}
    BY CurrentMessage DEF AfterDoubleLock
  <1>3. CASE Pull(w)
    <2>1. CASE MQ!PullItem(w)
      <3>1. msgQueue \in Seq(QueueItem) /\ msgQueue # <<>>
        BY <2>1 DEF MQ!PullItem, SystemInv, Types, MQ!QueueTypeOK, QueueItem
      <3>2. Head(msgQueue) \in QueueItem /\ Head(msgQueue) # NULL
        BY <3>1, HeadAndTail, NoMessageAssumption
      <3> HIDE DEF SystemInv
      <3>3. CASE wpc' = [wpc EXCEPT ![w] = "get"] /\ wmsg' = [wmsg EXCEPT ![w] = Head(msgQueue)]
        BY <1>0, <1>3, <3>2, <3>3 DEF Pull, WorkerPc
      <3>4. CASE MQ!PullSleep(w)
        BY <2>1, <3>4 DEF MQ!PullItem, MQ!PullSleep
      <3>5. QED
        BY <1>3, <3>3, <3>4 DEF Pull, Goto
    <2>2. CASE UNCHANGED <<wpc, wmsg>>
      BY <1>0, <1>3, <2>2 DEF Pull
    <2>3. QED
      BY <1>3, <2>1, <2>2 DEF Pull
  <1> HIDE DEF SystemInv
  <1>4. CASE Get(w) \/ Lock(w) \/ Unlock(w) \/ Fail(w) \/ YieldUser(w)
    BY <1>0, <1>1, <1>4 DEF Get, Lock, Unlock, Fail, YieldUser, At, Goto, Result, WorkerPc
  <1>5. CASE Dispatch(w)
    <2>1. wmsg[w].type \in Handler
      BY <1>1, <1>5 DEF Dispatch, At, QueueItem, Handler
    <2>2. wmsg[w].type # "pull"
      BY <2>1 DEF Handler, Plain, Secure
    <2>3. QED
      BY <1>0, <1>1, <1>5, <2>1, <2>2 DEF Dispatch, At, Goto, Result, WorkerPc
  <1>6. CASE DoubleLock(w) \/ DoubleUnlock(w)
    BY <1>0, <1>1, <1>2, <1>6 DEF DoubleLock, DoubleUnlock, At, Goto, WorkerPc
  <1>7. CASE HandlerStep(w)
    <2>1. \E p \in WorkerPc \ {"pull"}, res \in BOOLEAN :
             /\ wpc' = [wpc EXCEPT ![w] = p]
             /\ wres' = wres \/ wres' = [wres EXCEPT ![w] = res]
      <3> USE DEF Goto, Result, Finish, WorkerPc, SendOutcome
      <3>1. CASE CertReq(w) \/ ClientHello(w) \/ ClientVerify(w) \/ Register(w)
                 \/ RegisterExists(w) \/ RegisterAdd(w) \/ UsersListReq(w) \/ GameEnd(w)
        BY <3>1 DEF CertReq, ClientHello, ClientVerify, Register, RegisterExists,
           RegisterAdd, UsersListReq, GameEnd, SignatureOK
      <3>2. CASE Challenge(w) \/ ChallengeSelf(w) \/ ChallengeCheck(w)
                 \/ ChallengeForward(w)
        BY <3>2 DEF Challenge, ChallengeSelf, ChallengeCheck, ChallengeForward
      <3>3. CASE Respond(w) \/ RespondSelf(w) \/ RespondNone(w) \/ AcceptCheck(w)
                 \/ StartGame(w) \/ RejectChallenge(w) \/ GiveBack(w)
        BY <3>3 DEF Respond, RespondSelf, RespondNone, AcceptCheck, StartGame,
           RejectChallenge, GiveBack
      <3>4. QED
        BY <1>7, <3>1, <3>2, <3>3 DEF HandlerStep
    <2>2. wpc[w] # "pull" /\ wmsg' = wmsg
      BY <1>7 DEF HandlerStep, CertReq, ClientHello, ClientVerify, Register,
         RegisterExists, RegisterAdd, UsersListReq, GameEnd, Challenge, ChallengeSelf,
         ChallengeCheck, ChallengeForward, Respond, RespondSelf, RespondNone,
         AcceptCheck, StartGame, RejectChallenge, GiveBack, At
    <2>3. QED
      BY <1>0, <1>1, <2>1, <2>2
  <1>8. QED
    BY <1>3, <1>4, <1>5, <1>6, <1>7 DEF WorkerStep

(* What is kept of a user by others: its name and its authentication, once *)
(* it has them.                                                            *)
LEMMA UsersKept ==
  ASSUME SystemInv, NEW w \in Worker, WorkerStep(w)
  PROVE  /\ session' \in [Conn -> [hello : Conn \cup {NULL}, auth : BOOLEAN, recvSeq : Nat]]
         /\ opponent' \in [Conn -> Name \cup {NoName}]
         /\ \A c \in Conn :
              /\ session[c].auth =>
                   session'[c].auth /\ session'[c].hello = session[c].hello
              /\ session'[c].auth /\ ~session[c].auth =>
                   /\ wpc[w] = "CLIENT_VERIFY" /\ c = U(w)
                   /\ session'[c].hello = c /\ wmsg[w].from = c
              /\ opponent[c] # NoName => opponent'[c] # NoName
              /\ uname[c] # NoName => uname'[c] = uname[c]
              /\ uname'[c] # uname[c] =>
                   wpc[w] = "REGISTER" /\ c = U(w) /\ uname'[c] = wmsg[w].arg
  <1> DEFINE S == [hello : Conn \cup {NULL}, auth : BOOLEAN, recvSeq : Nat]
  <1>0. /\ session \in [Conn -> S]
        /\ wpc[w] = "CLIENT_HELLO" => ~session[U(w)].auth
        /\ wpc[w] \in HasOpponent => uname[U(w)] # NoName /\ uname[O(w)] # NoName
    BY DEF SystemInv, Types, StagesInOrder, RegisteredPc
  <1> HIDE DEF SystemInv
  <1>1. \/ UNCHANGED session
        \/ Dispatch(w) /\ session' = [session EXCEPT ![U(w)].recvSeq = @ + 1]
        \/ ClientHello(w)
        \/ ClientVerify(w) /\ SignatureOK(U(w), wmsg[w].from)
             /\ session' = [session EXCEPT ![U(w)].auth = TRUE]
    BY DEF WorkerStep, Pull, Get, Lock, Dispatch, DoubleLock, DoubleUnlock, Unlock, Fail,
       YieldUser, HandlerStep, CertReq, ClientVerify, Register,
       RegisterExists, RegisterAdd, UsersListReq, GameEnd, Challenge, ChallengeSelf,
       ChallengeCheck, ChallengeForward, Respond, RespondSelf, RespondNone,
       AcceptCheck, StartGame, RejectChallenge, GiveBack, peerVars
  <1>2. /\ session' \in [Conn -> S]
        /\ \A c \in Conn :
              /\ session[c].auth =>
                   session'[c].auth /\ session'[c].hello = session[c].hello
              /\ session'[c].auth /\ ~session[c].auth =>
                   /\ wpc[w] = "CLIENT_VERIFY" /\ c = U(w)
                   /\ session'[c].hello = c /\ wmsg[w].from = c
    <2>1. CASE UNCHANGED session
      BY <1>0, <2>1
    <2>2. CASE Dispatch(w) /\ session' = [session EXCEPT ![U(w)].recvSeq = @ + 1]
      BY <1>0, <2>2, Pointers DEF Dispatch, At
    <2>3. CASE ClientHello(w)
      <3>1. wmsg[w].from \in Conn /\ U(w) \in Conn /\ ~session[U(w)].auth
        BY <1>0, <2>3, CurrentMessage, Pointers DEF ClientHello, At
      <3>2. session' = [session EXCEPT ![U(w)].hello = wmsg[w].from]
        BY <2>3 DEF ClientHello
      <3>3. QED
        BY <1>0, <3>1, <3>2
    <2>4. CASE /\ ClientVerify(w) /\ SignatureOK(U(w), wmsg[w].from)
               /\ session' = [session EXCEPT ![U(w)].auth = TRUE]
      <3>1. /\ U(w) \in Conn /\ wpc[w] = "CLIENT_VERIFY"
            /\ session[U(w)].hello = U(w) /\ wmsg[w].from = U(w)
            /\ session' = [session EXCEPT ![U(w)].auth = TRUE]
        BY <2>4, Pointers DEF ClientVerify, At, SignatureOK
      <3>2. QED
        BY <1>0, <3>1
    <2>5. QED
      BY <1>1, <2>1, <2>2, <2>3, <2>4
  <1>3. /\ opponent' \in [Conn -> Name \cup {NoName}]
        /\ \A c \in Conn : opponent[c] # NoName => opponent'[c] # NoName
    <2>1. CASE ChallengeForward(w)
      BY <1>0, <2>1, Pointers DEF ChallengeForward, At, HasOpponent
    <2>2. CASE ~ChallengeForward(w)
      <3>1. opponent' = opponent
        BY <2>2 DEF WorkerStep, Pull, Get, Lock, Dispatch, DoubleLock, DoubleUnlock,
           Unlock, Fail, YieldUser, HandlerStep, CertReq, ClientHello, ClientVerify,
           Register, RegisterExists, RegisterAdd, UsersListReq, GameEnd, Challenge,
           ChallengeSelf, ChallengeCheck, Respond, RespondSelf, RespondNone,
           AcceptCheck, StartGame, RejectChallenge, GiveBack, peerVars
      <3>2. QED
        BY <3>1, Pointers
    <2>3. QED
      BY <2>1, <2>2
  <1>4. \/ UNCHANGED uname
        \/ Register(w)
    BY DEF WorkerStep, Pull, Get, Lock, Dispatch, DoubleLock, DoubleUnlock, Unlock, Fail,
       YieldUser, HandlerStep, CertReq, ClientHello, ClientVerify,
       RegisterExists, RegisterAdd, UsersListReq, GameEnd, Challenge, ChallengeSelf,
       ChallengeCheck, ChallengeForward, Respond, RespondSelf, RespondNone,
       AcceptCheck, StartGame, RejectChallenge, GiveBack, listVars, UL!GetByFd,
       UL!GetByName, UL!Take, UL!Yield, UL!Forget, SetState, SetBoth, UL!SetStates,
       UL!AddNamed
  <1>5. \A c \in Conn :
          /\ uname[c] # NoName => uname'[c] = uname[c]
          /\ uname'[c] # uname[c] =>
               wpc[w] = "REGISTER" /\ c = U(w) /\ uname'[c] = wmsg[w].arg
    BY <1>4, Pointers DEF Register, UL!SetUsername, At
  <1>6. QED
    BY <1>2, <1>3, <1>5


(* A worker changes the states of the users it works on, and gives them    *)
(* only states that their authentication and registration allow.           *)
LEMMA StatesChange ==
  ASSUME SystemInv, NEW w \in Worker, WorkerStep(w), NEW c \in Conn, ustate'[c] # ustate[c]
  PROVE  /\ c = U(w) \/ c = O(w)
         /\ \/ ustate'[c] = "DISCONNECTED"
            \/ /\ ustate'[c] = "SECURELY_CONNECTED"
               /\ wpc[w] = "CLIENT_VERIFY" /\ session'[c].auth
            \/ /\ \/ /\ wpc[w] \in {"reg_exists", "GAME_END", "rsp_none"} /\ c = U(w)
                     /\ ustate'[c] = "AVAILABLE"
                  \/ wpc[w] = "chl_forward" /\ ustate'[c] = "CHALLENGED"
                  \/ wpc[w] = "rsp_start" /\ ustate'[c] \in {"AVAILABLE", "PLAYING"}
                  \/ wpc[w] = "rsp_reject" /\ ustate'[c] = "AVAILABLE"
               /\ uname[c] # NoName
               /\ ustate'[c] = "CHALLENGED" => opponent'[c] # NoName
  <1> DEFINE Free == ustate'[c] = "AVAILABLE" \/ ustate'[c] = "PLAYING"
  <1>0. /\ wpc[w] \in RegisteredPc => uname[U(w)] # NoName
        /\ wpc[w] \in HasOpponent => uname[O(w)] # NoName
        /\ session \in [Conn -> [hello : Conn \cup {NULL}, auth : BOOLEAN, recvSeq : Nat]]
    BY DEF SystemInv, Types, StagesInOrder
  <1> USE Pointers
  <1> HIDE DEF SystemInv
  <1>1. CASE Pull(w) \/ Get(w) \/ Lock(w) \/ Dispatch(w) \/ DoubleLock(w) \/ DoubleUnlock(w)
             \/ Unlock(w) \/ YieldUser(w) \/ ClientHello(w) \/ Register(w) \/ RegisterAdd(w)
             \/ UsersListReq(w) \/ Challenge(w) \/ ChallengeSelf(w) \/ ChallengeCheck(w)
             \/ Respond(w) \/ RespondSelf(w) \/ AcceptCheck(w) \/ GiveBack(w)
    <2>1. ustate' = ustate
      BY <1>1 DEF Pull, Get, Lock, Dispatch, DoubleLock, DoubleUnlock, Unlock, YieldUser,
         ClientHello, Register, RegisterAdd, UsersListReq, Challenge, ChallengeSelf,
         ChallengeCheck, Respond, RespondSelf, AcceptCheck, GiveBack, listVars,
         UL!GetByFd, UL!GetByName, UL!Take, UL!Yield, UL!Forget, UL!SetUsername,
         UL!AddNamed
    <2>2. QED
      BY <2>1
  <1>2. CASE Fail(w) \/ CertReq(w)
    BY <1>2 DEF Fail, CertReq, listVars, SetState, UL!SetStates
  <1>3. CASE ClientVerify(w)
    <2>1. c = U(w) /\ wpc[w] = "CLIENT_VERIFY"
      BY <1>3 DEF ClientVerify, At, SetState, UL!SetStates
    <2>2. CASE SignatureOK(U(w), wmsg[w].from)
      BY <1>0, <1>3, <2>1, <2>2 DEF ClientVerify, SetState, UL!SetStates
    <2>3. CASE ~SignatureOK(U(w), wmsg[w].from)
      BY <1>3, <2>1, <2>3 DEF ClientVerify, SetState, UL!SetStates
    <2>4. QED
      BY <2>2, <2>3
  <1>4. CASE RegisterExists(w) \/ GameEnd(w) \/ RespondNone(w)
    BY <1>0, <1>4 DEF RegisterExists, GameEnd, RespondNone, At, SetState, UL!SetStates,
       RegisteredPc
  <1>5. CASE ChallengeForward(w)
    <2>1. wpc[w] = "chl_forward" /\ wpc[w] \in HasOpponent /\ wpc[w] \in RegisteredPc
      BY <1>5 DEF ChallengeForward, At, HasOpponent, RegisteredPc
    <2>2. U(w) \in Conn /\ O(w) \in Conn
      BY <2>1
    <2>3. \/ /\ SetBoth(U(w), "CHALLENGED", O(w), "CHALLENGED")
             /\ opponent' = [opponent EXCEPT ![U(w)] = uname[O(w)], ![O(w)] = uname[U(w)]]
          \/ SetState(O(w), "DISCONNECTED")
      BY <1>5 DEF ChallengeForward
    <2>4. QED
      BY <1>0, <2>1, <2>2, <2>3 DEF SetBoth, SetState, UL!SetStates
  <1>6. CASE StartGame(w)
    <2>1. wpc[w] = "rsp_start" /\ wpc[w] \in HasOpponent /\ wpc[w] \in RegisteredPc
      BY <1>6 DEF StartGame, At, HasOpponent, RegisteredPc
    <2>2. \E s, t \in {"AVAILABLE", "PLAYING", "DISCONNECTED"} :
             \/ SetBoth(U(w), s, O(w), t)
             \/ SetState(U(w), s)
             \/ SetState(O(w), s)
      BY <1>6 DEF StartGame
    <2>3. QED
      BY <1>0, <2>1, <2>2 DEF SetBoth, SetState, UL!SetStates
  <1>7. CASE RejectChallenge(w)
    <2>1. wpc[w] = "rsp_reject" /\ wpc[w] \in HasOpponent /\ wpc[w] \in RegisteredPc
      BY <1>7 DEF RejectChallenge, At, HasOpponent, RegisteredPc
    <2>2. \E t \in {"AVAILABLE", "DISCONNECTED"} : SetBoth(U(w), "AVAILABLE", O(w), t)
      BY <1>7 DEF RejectChallenge
    <2>3. QED
      BY <1>0, <2>1, <2>2 DEF SetBoth, UL!SetStates
  <1>8. QED
    BY <1>1, <1>2, <1>3, <1>4, <1>5, <1>6, <1>7 DEF WorkerStep, HandlerStep

-----------------------------------------------------------------------------
(* The parts of SystemInv that say what one worker knows and holds.        *)
Sound(w) ==
  /\ U(w) = NULL <=> wpc[w] \in {"pull", "get"}
  /\ O(w) = NULL <=> wpc[w] \notin HasOpponent
  /\ wpc[w] \in HasOpponent => (O(w) = U(w) <=> wpc[w] \in {"chl_self", "rsp_self"})
  /\ wpc[w] = "REGISTER" => uname[U(w)] = NoName
  /\ \A c \in Holding(w) : lockOwner[c] = w
  /\ wpc[w] \in Handler => wmsg[w].type = wpc[w]
  /\ wpc[w] \in {"dl", "dl_opponent", "dl_own"} => wmsg[w].type \in DOMAIN AfterDoubleLock
  /\ wpc[w] \in {"CLIENT_HELLO", "CLIENT_VERIFY"} => ~session[U(w)].auth
  /\ wpc[w] = "REGISTER" => session[U(w)].auth /\ wmsg[w].from = U(w)
  /\ wpc[w] \in RegisteredPc => uname[U(w)] # NoName
  /\ wpc[w] \in HasOpponent => uname[O(w)] # NoName
  /\ wpc[w] \in {"ACCEPT", "REJECT"} => opponent[U(w)] # NoName

LEMMA AllSound == ASSUME SystemInv, NEW w \in Worker PROVE Sound(w)
  BY DEF SystemInv, Sound, PointersKept, LocksHeld, HandlersMatch, StagesInOrder

(* The other workers' steps do not disturb it: they would need a mutex     *)
(* that this worker has locked.                                            *)
LEMMA OthersKeepSound ==
  ASSUME SystemInv, NEW w \in Worker, WorkerStep(w), NEW v \in Worker, v # w
  PROVE  Sound(v)'
  <1>1. Sound(v) /\ Sound(w)
    BY AllSound
  <1>2. /\ wpc'[v] = wpc[v] /\ wmsg'[v] = wmsg[v] /\ U(v)' = U(v) /\ O(v)' = O(v)
    BY WorkerFrame
  <1>3. Holding(v) \cap Holding(w) = {}
    BY Exclusive
  <1>4. /\ wpc[w] \in {"REGISTER", "CLIENT_VERIFY"} => U(w) \in Holding(w)
        /\ wpc[v] \in {"REGISTER", "CLIENT_HELLO", "CLIENT_VERIFY"} => U(v) \in Holding(v)
    BY DEF Holding, HoldsNone, HoldsOther
  <1>5. /\ wpc[v] \notin {"pull", "get"} => U(v) \in Conn
        /\ wpc[v] \in HasOpponent => O(v) \in Conn
    BY Pointers
  <1>6. Holding(v)' = Holding(v) /\ Holding(v) \subseteq Conn
    BY <1>2, <1>5 DEF Holding, HoldsNone, HoldsOther, HasOpponent
  <1>7. /\ \A c \in Conn : lockOwner[c] = v => lockOwner'[c] = v
        /\ \A c \in Conn :
              /\ session[c].auth => session'[c].auth
              /\ session'[c].auth /\ ~session[c].auth =>
                   wpc[w] = "CLIENT_VERIFY" /\ c = U(w)
              /\ opponent[c] # NoName => opponent'[c] # NoName
              /\ uname[c] # NoName => uname'[c] = uname[c]
              /\ uname'[c] # uname[c] => wpc[w] = "REGISTER" /\ c = U(w)
    BY OthersKeepLocks, UsersKept
  <1> HIDE DEF SystemInv
  <1>8. (\A c \in Holding(v) : lockOwner[c] = v)'
    BY <1>1, <1>6, <1>7 DEF Sound
  <1>9. wpc[v] = "REGISTER" => uname'[U(v)] = NoName /\ session'[U(v)].auth
    BY <1>1, <1>3, <1>4, <1>5, <1>7 DEF Sound
  <1>10. wpc[v] \in {"CLIENT_HELLO", "CLIENT_VERIFY"} => ~session'[U(v)].auth
    BY <1>1, <1>3, <1>4, <1>5, <1>7 DEF Sound
  <1>11. /\ wpc[v] \in RegisteredPc => uname'[U(v)] # NoName
         /\ wpc[v] \in HasOpponent => uname'[O(v)] # NoName
         /\ wpc[v] \in {"ACCEPT", "REJECT"} => opponent'[U(v)] # NoName
    <2>1. wpc[v] \in RegisteredPc => wpc[v] \notin {"pull", "get"}
      BY DEF RegisteredPc, HasOpponent
    <2>2. QED
      BY <1>1, <1>5, <1>7, <2>1 DEF Sound
  <1>12. QED
    BY <1>1, <1>2, <1>8, <1>9, <1>10, <1>11 DEF Sound

(* A message is handled only in the states that it is expected in, and     *)
(* that says what is known of the user it is handled for.                  *)
LEMMA DispatchSound ==
  ASSUME SystemInv, NEW w \in Worker, Dispatch(w)
  PROVE  Sound(w)'
  <1> DEFINE c == U(w)
             m == wmsg[w]
  <1>1. /\ Sound(w) /\ wpc[w] = "dispatch" /\ c \in Conn
        /\ UNCHANGED <<held, uname, ustate, lockOwner, opponent, wmsg>>
    BY AllSound, Pointers DEF Dispatch, At, listVars
  <1>2. U(w)' = U(w) /\ O(w)' = O(w) /\ O(w) = NULL
    BY <1>1 DEF Sound, U, O, HasOpponent
  <1>3. lockOwner[c] = w
    BY <1>1 DEF Sound, Holding, HoldsNone, HoldsOther
  <1>4. /\ session \in [Conn -> [hello : Conn \cup {NULL}, auth : BOOLEAN, recvSeq : Nat]]
        /\ wpc \in [Worker -> WorkerPc]
        /\ m.type \in Plain \cup Secure
        /\ ustate[c] \in UserState
    BY <1>1, Pointers, CurrentMessage DEF SystemInv, Types, QueueItem
  <1>5. /\ ustate[c] \in {"AVAILABLE", "CHALLENGED", "PLAYING"} => uname[c] # NoName
        /\ ustate[c] = "CHALLENGED" => opponent[c] # NoName
        /\ ustate[c] = "SECURELY_CONNECTED" => session[c].auth /\ uname[c] = NoName
    <2>1. /\ ustate[c] \in {"AVAILABLE", "CHALLENGED", "PLAYING"} => uname[c] # NoName
          /\ ustate[c] = "CHALLENGED" => opponent[c] # NoName
          /\ ustate[c] = "SECURELY_CONNECTED" =>
               /\ session[c].auth
               /\ uname[c] # NoName => \E v \in Worker : U(v) = c /\ wpc[v] = "reg_exists"
      BY <1>1 DEF SystemInv, StagesInOrder
    <2>2. \A v \in Worker : U(v) = c /\ wpc[v] = "reg_exists" => FALSE
      <3> SUFFICES ASSUME NEW v \in Worker, U(v) = c, wpc[v] = "reg_exists" PROVE FALSE
        OBVIOUS
      <3>1. v # w /\ c \in Holding(v) /\ c \in Holding(w)
        BY <1>1 DEF Holding, HoldsNone, HoldsOther
      <3>2. QED
        BY <3>1, Exclusive
    <2>3. QED
      BY <2>1, <2>2
  <1> HIDE DEF SystemInv
  <1>6. CASE wpc' = [wpc EXCEPT ![w] = "fail"]
    <2>1. wpc'[w] = "fail"
      BY <1>4, <1>6
    <2>2. QED
      BY <1>1, <1>2, <2>1 DEF Sound, Holding, HoldsNone, HoldsOther, HasOpponent, Handler,
         Plain, Secure, RegisteredPc
  <1>7. CASE wpc' = [wpc EXCEPT ![w] = "unlock"]
    <2>1. wpc'[w] = "unlock"
      BY <1>4, <1>7
    <2>2. QED
      BY <1>1, <1>2, <1>3, <2>1 DEF Sound, Holding, HoldsNone, HoldsOther, HasOpponent,
         Handler, Plain, Secure, RegisteredPc
  <1>8. CASE Legible(c, m) /\ m.type \in Expected[ustate[c]] /\ wpc' = [wpc EXCEPT ![w] = m.type]
    <2>1. wpc'[w] = m.type
      BY <1>4, <1>8
    <2>2. \/ m.type \in Plain
          \/ m.type = "REGISTER" /\ session[c].auth /\ uname[c] = NoName
          \/ m.type \in {"CHALLENGE", "USERS_LIST_REQ", "GAME_END"} /\ uname[c] # NoName
          \/ m.type \in {"ACCEPT", "REJECT"} /\ uname[c] # NoName /\ opponent[c] # NoName
      BY <1>4, <1>5, <1>8 DEF Expected, UserState
    <2>3. session'[c].auth = session[c].auth
      BY <1>1, <1>4 DEF Dispatch
    <2>4. /\ m.type \in {"CLIENT_HELLO", "CLIENT_VERIFY"} => ~session[c].auth
          /\ m.type = "REGISTER" => m.from = c
      BY <1>8 DEF Legible, Secure
    <2>5. wpc'[w] \notin HasOpponent \cup HoldsNone \cup HoldsOther
          /\ wpc'[w] \notin {"dl", "dl_opponent", "dl_own", "pull", "get"}
      BY <1>4, <2>1 DEF Plain, Secure, HasOpponent, HoldsNone, HoldsOther
    <2>6. (\A x \in Holding(w) : lockOwner[x] = w)'
      BY <1>1, <1>2, <1>3, <2>5 DEF Holding, HasOpponent
    <2>7. \/ m.type \in {"CERT_REQ", "CLIENT_HELLO", "CLIENT_VERIFY"}
          \/ m.type = "REGISTER"
          \/ m.type \in {"CHALLENGE", "USERS_LIST_REQ", "GAME_END", "ACCEPT", "REJECT"}
      BY <2>2 DEF Plain
    <2>8. wpc'[w] \in RegisteredPc => uname[c] # NoName
      BY <2>1, <2>2 DEF Plain, RegisteredPc, HasOpponent
    <2>9. U(w) # NULL
      BY <1>1 DEF Sound
    <2>10. wpc'[w] \in {"ACCEPT", "REJECT"} => opponent[c] # NoName
      BY <2>1, <2>2 DEF Plain
    <2>11. wpc'[w] = "REGISTER" => uname[c] = NoName /\ session[c].auth
      BY <2>1, <2>2 DEF Plain
    <2> HIDE DEF m
    <2>12. QED
      BY <1>1, <1>2, <2>1, <2>3, <2>4, <2>5, <2>6, <2>8, <2>9, <2>10, <2>11 DEF Sound, m
  <1>9. QED
    BY <1>6, <1>7, <1>8 DEF Dispatch, Goto

(* The steps of a message handler keep what the worker needs: the mutexes  *)
(* of both users, and an opponent that is another user.                    *)
LEMMA HandlerSound ==
  ASSUME SystemInv, NEW w \in Worker, WorkerStep(w), HandlerStep(w)
  PROVE  Sound(w)'
  <1>0. /\ Sound(w)
        /\ wpc \in [Worker -> WorkerPc]
        /\ held \in [Ref -> Conn \cup {NULL}] /\ NULL \notin Conn
        /\ MyUser(w) \in Ref /\ Opponent(w) \in Ref /\ MyUser(w) # Opponent(w)
        /\ wpc[w] \notin {"pull", "get"} => U(w) \in Conn
        /\ wpc[w] \in HasOpponent => O(w) \in Conn
        /\ lockOwner' = lockOwner /\ wmsg' = wmsg
    BY AllSound, Pointers, RefFacts, ServerAssumption DEF HandlerStep
  <1>01. /\ \A c \in Conn :
              /\ session'[c].auth /\ ~session[c].auth => wpc[w] = "CLIENT_VERIFY"
              /\ opponent[c] # NoName => opponent'[c] # NoName
              /\ uname[c] # NoName => uname'[c] = uname[c]
         /\ uname \in [Conn -> Name \cup {NoName}] /\ NoName \notin Name
    BY UsersKept, Pointers, ServerAssumption DEF Name, NoName
  <1>02. \A n \in Name : byName[n] # NULL => byName[n] \in Conn /\ uname[byName[n]] = n
    BY Pointers DEF SystemInv, UL!UserListInv, UL!IndexSound
  <1>03. wpc[w] = "CHALLENGE" => wmsg[w].arg \in Name
    BY CurrentMessage
  <1>04. wpc[w] = "REGISTER" => wmsg[w].arg \in Name
    BY CurrentMessage
  <1> DEFINE Same == U(w)' = U(w) /\ O(w)' = O(w)
  <1> HIDE DEF SystemInv
  <1>1. CASE \/ CertReq(w) \/ ClientHello(w) \/ ClientVerify(w) \/ RegisterExists(w)
             \/ RegisterAdd(w) \/ UsersListReq(w) \/ GameEnd(w) \/ RespondNone(w)
    <2>1. /\ wpc[w] \in {"CERT_REQ", "CLIENT_HELLO", "CLIENT_VERIFY", "reg_exists", "reg_add",
                         "USERS_LIST_REQ", "GAME_END", "rsp_none"}
          /\ wpc'[w] \in {"unlock", "reg_add"} /\ (wpc'[w] = "reg_add" => wpc[w] = "reg_exists")
      BY <1>0, <1>1 DEF CertReq, ClientHello, ClientVerify, RegisterExists, RegisterAdd,
         UsersListReq, GameEnd, RespondNone, At, Goto, Finish
    <2>2. Same
      BY <1>1 DEF CertReq, ClientHello, ClientVerify, RegisterExists, RegisterAdd,
         UsersListReq, GameEnd, RespondNone, listVars, SetState, UL!SetStates,
         UL!AddNamed, U, O
    <2>3. QED
      BY <1>0, <1>01, <2>1, <2>2 DEF Sound, Holding, HoldsNone, HoldsOther, HasOpponent,
         Handler, Plain, Secure, RegisteredPc
  <1>2. CASE Register(w)
    <2>1. /\ wpc[w] = "REGISTER" /\ wpc'[w] = "reg_exists" /\ Same
          /\ uname' = [uname EXCEPT ![U(w)] = wmsg[w].arg]
      BY <1>0, <1>2 DEF Register, At, Goto, UL!SetUsername, U, O
    <2>2. uname'[U(w)] # NoName
      BY <1>0, <1>01, <1>04, <2>1
    <2>3. QED
      BY <1>0, <2>1, <2>2 DEF Sound, Holding, HoldsNone, HoldsOther, HasOpponent,
         Handler, Plain, Secure, RegisteredPc
  <1>3. CASE Challenge(w) \/ Respond(w)
    <2>1. PICK n \in Name :
            /\ O(w)' = byName[n] /\ U(w)' = U(w) /\ uname' = uname
            /\ \/ byName[n] = NULL /\ wpc'[w] \in {"unlock", "rsp_none"}
               \/ byName[n] = U(w) /\ wpc'[w] \in {"chl_self", "rsp_self"}
               \/ byName[n] \notin {NULL, U(w)} /\ wpc'[w] = "dl"
      <3>1. CASE Challenge(w)
        <4>1. wmsg[w].arg \in Name
          BY <1>03, <3>1 DEF Challenge, At
        <4>2. QED
          BY <1>0, <3>1, <4>1 DEF Challenge, At, Goto, Finish, UL!GetByName, UL!Take,
             Itself, U, O
      <3>2. CASE Respond(w)
        <4>1. opponent[U(w)] \in Name
          BY <1>0, <3>2, Pointers DEF Respond, Sound
        <4>2. QED
          BY <1>0, <3>2, <4>1 DEF Respond, At, Goto, UL!GetByName, UL!Take, Itself, U, O
      <3>3. QED
        BY <1>3, <3>1, <3>2
    <2>2. wpc[w] \in {"CHALLENGE", "ACCEPT", "REJECT"}
      BY <1>3 DEF Challenge, Respond, At
    <2>3. byName[n] # NULL => byName[n] \in Conn /\ uname[byName[n]] # NoName
      BY <1>01, <1>02
    <2>4. wmsg[w].type \in DOMAIN AfterDoubleLock
      BY <1>0, <2>2 DEF Sound, Handler, Secure, AfterDoubleLock
    <2>5. /\ U(w) \in Conn /\ U(w) # NULL /\ uname[U(w)] # NoName /\ lockOwner[U(w)] = w
      BY <1>0, <2>2 DEF Sound, RegisteredPc, Holding, HoldsNone, HoldsOther
    <2>6. QED
      BY <1>0, <2>1, <2>2, <2>3, <2>4, <2>5 DEF Sound, Holding, HoldsNone, HoldsOther,
         HasOpponent, Handler, Plain, Secure, RegisteredPc
  <1>4. CASE ChallengeSelf(w) \/ RespondSelf(w) \/ GiveBack(w)
    <2>1. /\ wpc[w] \in {"chl_self", "rsp_self", "give_back"}
          /\ wpc'[w] \in {"unlock", "rsp_none"}
          /\ U(w)' = U(w) /\ O(w)' = NULL
          /\ uname' = uname
      BY <1>0, <1>4 DEF ChallengeSelf, RespondSelf, GiveBack, At, Goto, Finish, UL!Forget,
         UL!Yield, U, O
    <2>2. QED
      BY <1>0, <2>1 DEF Sound, Holding, HoldsNone, HoldsOther, HasOpponent, Handler,
         Plain, Secure, RegisteredPc
  <1>5. CASE ChallengeCheck(w) \/ ChallengeForward(w) \/ AcceptCheck(w) \/ StartGame(w)
             \/ RejectChallenge(w)
    <2>1. /\ wpc[w] \in {"chl_check", "chl_forward", "rsp_check", "rsp_start", "rsp_reject"}
          /\ wpc'[w] \in {"du", "chl_forward", "rsp_start"}
      BY <1>0, <1>5 DEF ChallengeCheck, ChallengeForward, AcceptCheck, StartGame,
         RejectChallenge, At, Goto
    <2>2. Same /\ uname' = uname
      BY <1>5 DEF ChallengeCheck, ChallengeForward, AcceptCheck, StartGame,
         RejectChallenge, listVars, SetState, SetBoth, UL!SetStates, U, O
    <2>3. QED
      BY <1>0, <2>1, <2>2 DEF Sound, Holding, HoldsNone, HoldsOther, HasOpponent, Handler,
         Plain, Secure, RegisteredPc
  <1>6. QED
    BY <1>1, <1>2, <1>3, <1>4, <1>5 DEF HandlerStep

LEMMA OwnSound ==
  ASSUME SystemInv, NEW w \in Worker, WorkerStep(w)
  PROVE  Sound(w)'
  <1>0. /\ Sound(w)
        /\ wpc \in [Worker -> WorkerPc] /\ wpc' \in [Worker -> WorkerPc]
        /\ held \in [Ref -> Conn \cup {NULL}] /\ NULL \notin Conn
        /\ MyUser(w) \in Ref /\ Opponent(w) \in Ref /\ MyUser(w) # Opponent(w)
        /\ lockOwner \in [Conn -> Worker \cup {NULL}]
        /\ wpc[w] \notin {"pull", "get"} => U(w) \in Conn
        /\ wpc[w] \in HasOpponent => O(w) \in Conn
    BY AllSound, Pointers, RefFacts, WorkerTypes, ServerAssumption
    DEF SystemInv, Types, SystemTypeOK, ServerTypeOK
  <1>01. \A c \in Conn :
           /\ session'[c].auth /\ ~session[c].auth => wpc[w] = "CLIENT_VERIFY"
           /\ opponent[c] # NoName => opponent'[c] # NoName
           /\ uname[c] # NoName => uname'[c] = uname[c]
    BY UsersKept
  <1> DEFINE Same == U(w)' = U(w) /\ O(w)' = O(w)
  <1>1. CASE Pull(w)
    <2>1. Same /\ lockOwner' = lockOwner /\ wpc'[w] \in {"pull", "get"} /\ wpc[w] = "pull"
      BY <1>0, <1>1 DEF Pull, At, Goto, listVars, U, O
    <2>2. QED
      BY <1>0, <2>1 DEF Sound, Holding, HoldsNone, HoldsOther, HasOpponent, Handler,
         Plain, Secure, RegisteredPc
  <1>2. CASE Get(w)
    <2>1. /\ wpc[w] = "get" /\ O(w)' = O(w) /\ U(w)' = byFd[wmsg[w].fd]
          /\ wpc'[w] = IF byFd[wmsg[w].fd] = NULL THEN "pull" ELSE "lock"
      BY <1>0, <1>2 DEF Get, At, Goto, UL!GetByFd, UL!Take, U, O
    <2>2. QED
      BY <1>0, <2>1 DEF Sound, Holding, HoldsNone, HoldsOther, HasOpponent, Handler,
         Plain, Secure, RegisteredPc
  <1>3. CASE Lock(w)
    <2>1. /\ wpc[w] = "lock" /\ Same /\ wpc'[w] = "dispatch"
          /\ lockOwner' = [lockOwner EXCEPT ![U(w)] = w]
      BY <1>0, <1>3 DEF Lock, At, Goto, Acquire, listVars, U, O
    <2>2. QED
      BY <1>0, <2>1 DEF Sound, Holding, HoldsNone, HoldsOther, HasOpponent, Handler,
         Plain, Secure, RegisteredPc
  <1>4. CASE Dispatch(w)
    BY <1>4, DispatchSound
  <1> HIDE DEF SystemInv
  <1>5. CASE Unlock(w)
    <2>1. wpc[w] = "unlock" /\ Same /\ wpc'[w] \in {"yield", "fail"}
      BY <1>0, <1>5 DEF Unlock, At, Goto, listVars, U, O
    <2>2. QED
      BY <1>0, <2>1 DEF Sound, Holding, HoldsNone, HoldsOther, HasOpponent, Handler,
         Plain, Secure, RegisteredPc
  <1>6. CASE Fail(w)
    <2>1. wpc[w] = "fail" /\ Same /\ wpc'[w] = "yield"
      BY <1>0, <1>6 DEF Fail, At, Goto, SetState, UL!SetStates, U, O
    <2>2. QED
      BY <1>0, <2>1 DEF Sound, Holding, HoldsNone, HoldsOther, HasOpponent, Handler,
         Plain, Secure, RegisteredPc
  <1>7. CASE YieldUser(w)
    <2>1. wpc[w] = "yield" /\ U(w)' = NULL /\ O(w)' = O(w) /\ wpc'[w] = "pull"
      BY <1>0, <1>7 DEF YieldUser, At, Goto, UL!Yield, U, O
    <2>2. QED
      BY <1>0, <2>1 DEF Sound, Holding, HoldsNone, HoldsOther, HasOpponent, Handler,
         Plain, Secure, RegisteredPc
  <1>8. CASE DoubleLock(w)
    <2>1. /\ wpc[w] \in {"dl", "dl_opponent", "dl_own"} /\ Same
          /\ UNCHANGED <<uname, session, opponent, wmsg>>
          /\ wmsg[w].type \in {"CHALLENGE", "ACCEPT", "REJECT"}
      BY <1>0, <1>8 DEF DoubleLock, At, listVars, peerVars, U, O, Sound, AfterDoubleLock
    <2>2. \/ wpc[w] = "dl" /\ wpc'[w] = "dl_opponent"
          \/ /\ wpc[w] = "dl" /\ wpc'[w] \in {"chl_check", "rsp_check", "rsp_reject"}
             /\ lockOwner' = [lockOwner EXCEPT ![O(w)] = w]
          \/ /\ wpc[w] = "dl_opponent" /\ wpc'[w] = "dl_own"
             /\ lockOwner' = [lockOwner EXCEPT ![O(w)] = w]
          \/ /\ wpc[w] = "dl_own" /\ wpc'[w] \in {"chl_check", "rsp_check", "rsp_reject"}
             /\ lockOwner' = [lockOwner EXCEPT ![U(w)] = w]
      BY <1>0, <1>8, <2>1 DEF DoubleLock, At, Goto, Acquire, AfterDoubleLock
    <2>3. QED
      BY <1>0, <2>1, <2>2 DEF Sound, Holding, HoldsNone, HoldsOther, HasOpponent, Handler,
         Plain, Secure, RegisteredPc
  <1>9. CASE DoubleUnlock(w)
    <2>1. /\ wpc[w] \in {"du", "du_opponent", "du_own"} /\ Same
          /\ UNCHANGED <<uname, session, opponent, wmsg>>
      BY <1>0, <1>9 DEF DoubleUnlock, At, listVars, peerVars, U, O
    <2>2. \/ /\ wpc[w] = "du" /\ wpc'[w] = "du_opponent"
             /\ lockOwner' = [lockOwner EXCEPT ![U(w)] = NULL]
          \/ /\ wpc[w] = "du" /\ wpc'[w] = "give_back"
             /\ lockOwner' = [lockOwner EXCEPT ![O(w)] = NULL]
          \/ wpc[w] = "du_opponent" /\ wpc'[w] = "du_own"
          \/ /\ wpc[w] = "du_own" /\ wpc'[w] = "give_back"
             /\ lockOwner' = [lockOwner EXCEPT ![U(w)] = w]
      BY <1>0, <1>9, <2>1 DEF DoubleUnlock, At, Goto, Acquire, Release
    <2>3. QED
      BY <1>0, <2>1, <2>2 DEF Sound, Holding, HoldsNone, HoldsOther, HasOpponent, Handler,
         Plain, Secure, RegisteredPc
  <1>10. CASE HandlerStep(w)
    BY <1>10, HandlerSound
  <1>11. QED
    BY <1>1, <1>2, <1>3, <1>4, <1>5, <1>6, <1>7, <1>8, <1>9, <1>10 DEF WorkerStep

-----------------------------------------------------------------------------
(* How a worker comes to register a user, and to work for a registered one. *)
LEMMA Registration ==
  ASSUME SystemInv, NEW w \in Worker, WorkerStep(w)
  PROVE  /\ wpc'[w] \in RegisteredPc =>
              \/ wpc[w] \in RegisteredPc /\ U(w)' = U(w)
              \/ wpc'[w] \in Secure \cup {"reg_exists"}
         /\ wpc'[w] \in {"reg_exists", "reg_add"} =>
              wpc[w] \in {"REGISTER", "reg_exists"} /\ U(w)' = U(w)
         /\ wpc[w] = "REGISTER" => wpc'[w] = "reg_exists" /\ U(w)' = U(w)
         /\ wpc[w] = "reg_exists" => ustate'[U(w)] # "SECURELY_CONNECTED"
  <1>0. /\ wpc \in [Worker -> WorkerPc]
        /\ held \in [Ref -> Conn \cup {NULL}]
        /\ MyUser(w) \in Ref /\ Opponent(w) \in Ref /\ MyUser(w) # Opponent(w)
        /\ wpc[w] \notin {"pull", "get"} => U(w) \in Conn
        /\ wpc[w] # "pull" => wmsg[w] \in QueueItem
    BY Pointers, RefFacts
  <1> HIDE DEF SystemInv
  <1>1. CASE Pull(w) \/ Get(w) \/ Lock(w) \/ Unlock(w) \/ Fail(w) \/ YieldUser(w)
    BY <1>0, <1>1 DEF Pull, Get, Lock, Unlock, Fail, YieldUser, At, Goto, RegisteredPc,
       HasOpponent
  <1>2. CASE Dispatch(w)
    <2>1. wpc[w] = "dispatch" /\ wpc'[w] \in {"fail", "unlock", wmsg[w].type}
      BY <1>0, <1>2 DEF Dispatch, At, Goto
    <2>2. wmsg[w].type \in Plain \cup Secure
      BY <1>0, <2>1 DEF QueueItem
    <2>3. QED
      BY <2>1, <2>2 DEF RegisteredPc, HasOpponent, Plain, Secure
  <1>3. CASE DoubleLock(w) \/ DoubleUnlock(w)
    <2>1. wpc[w] \in {"dl", "dl_opponent", "dl_own", "du", "du_opponent", "du_own"}
          /\ U(w)' = U(w)
      BY <1>3 DEF DoubleLock, DoubleUnlock, At, listVars, U
    <2>2. wpc[w] \in {"dl", "dl_opponent", "dl_own"} =>
            AfterDoubleLock[wmsg[w].type] \in {"chl_check", "rsp_check", "rsp_reject"}
      BY CurrentMessage DEF AfterDoubleLock
    <2>3. wpc'[w] \in {"dl_opponent", "dl_own", "chl_check", "rsp_check", "rsp_reject",
                       "du_opponent", "du_own", "give_back"}
      BY <1>0, <1>3, <2>2 DEF DoubleLock, DoubleUnlock, At, Goto
    <2>4. QED
      BY <2>1, <2>3 DEF RegisteredPc, HasOpponent
  <1>4. CASE HandlerStep(w)
    <2>1. U(w)' = U(w)
      BY <1>0, <1>4 DEF HandlerStep, CertReq, ClientHello, ClientVerify, Register,
         RegisterExists, RegisterAdd, UsersListReq, GameEnd, Challenge, ChallengeSelf,
         ChallengeCheck, ChallengeForward, Respond, RespondSelf, RespondNone,
         AcceptCheck, StartGame, RejectChallenge, GiveBack, listVars, UL!GetByName,
         UL!Take, UL!Yield, UL!Forget, SetState, SetBoth, UL!SetStates, UL!SetUsername,
         UL!AddNamed, U
    <2>2. CASE CertReq(w) \/ ClientHello(w) \/ ClientVerify(w) \/ RegisterAdd(w)
               \/ UsersListReq(w) \/ GameEnd(w) \/ RespondNone(w)
      BY <1>0, <2>2 DEF CertReq, ClientHello, ClientVerify, RegisterAdd, UsersListReq,
         GameEnd, RespondNone, At, Goto, Finish, RegisteredPc, HasOpponent
    <2>3. CASE Register(w) \/ RegisterExists(w)
      BY <1>0, <2>1, <2>3 DEF Register, RegisterExists, At, Goto, Finish, RegisteredPc,
         HasOpponent, SetState, UL!SetStates
    <2>4. CASE ~(CertReq(w) \/ ClientHello(w) \/ ClientVerify(w) \/ RegisterAdd(w)
                 \/ UsersListReq(w) \/ GameEnd(w) \/ RespondNone(w)
                 \/ Register(w) \/ RegisterExists(w))
      <3>1. wpc[w] \in RegisteredPc \ {"reg_exists", "reg_add"}
        BY <1>4, <2>4 DEF HandlerStep, Challenge, ChallengeSelf, ChallengeCheck,
           ChallengeForward, Respond, RespondSelf, RespondNone, AcceptCheck, StartGame,
           RejectChallenge, GiveBack, At, RegisteredPc, HasOpponent
      <3>2. wpc'[w] \notin {"reg_exists", "reg_add"}
        BY <1>0, <1>4, <2>4 DEF HandlerStep, Challenge, ChallengeSelf, ChallengeCheck,
           ChallengeForward, Respond, RespondSelf, RespondNone, AcceptCheck, StartGame,
           RejectChallenge, GiveBack, At, Goto, Finish
      <3>3. wpc[w] # "REGISTER"
        BY <3>1 DEF RegisteredPc, HasOpponent
      <3>4. QED
        BY <2>1, <3>1, <3>2, <3>3
    <2>5. QED
      BY <2>2, <2>3, <2>4
  <1>5. QED
    BY <1>1, <1>2, <1>3, <1>4 DEF WorkerStep

LEMMA WorkerKeepsSessions ==
  ASSUME SystemInv, NEW w \in Worker, WorkerStep(w), UNCHANGED clientVars
  PROVE  AuthenticSession' /\ StagesInOrder'
  <1>1. \A v \in Worker : Sound(v)'
    BY OwnSound, OthersKeepSound
  <1>2. Sound(w) /\ phase' = phase
    BY AllSound DEF clientVars
  <1>3. ASSUME NEW c \in Conn
        PROVE  /\ session'[c].auth => session'[c].hello = c /\ phase'[c] \notin Unverified
               /\ uname'[c] # NoName => session'[c].auth /\ uname'[c] = NameOf[c]
    <2>1. CASE session'[c].auth /\ ~session[c].auth
      <3>1. wpc[w] = "CLIENT_VERIFY" /\ wmsg[w].from = c /\ session'[c].hello = c
        BY <2>1, UsersKept
      <3>2. phase[c] \notin Unverified
        BY <3>1, CurrentMessage
      <3>3. uname[c] = NoName
        BY <2>1 DEF SystemInv, AuthenticSession
      <3>4. uname'[c] = uname[c]
        BY <3>1, UsersKept
      <3>5. QED
        BY <1>2, <3>1, <3>2, <3>3, <3>4
    <2>2. CASE ~(session'[c].auth /\ ~session[c].auth)
      <3>1. session'[c].auth =>
              session[c].auth /\ session'[c].hello = session[c].hello
        BY <2>2, UsersKept
      <3>2. session[c].auth => session'[c].auth
        BY UsersKept
      <3>3. /\ session[c].auth => session[c].hello = c /\ phase[c] \notin Unverified
            /\ uname[c] # NoName => session[c].auth /\ uname[c] = NameOf[c]
        BY DEF SystemInv, AuthenticSession, Unverified
      <3>4. CASE uname'[c] = uname[c]
        BY <1>2, <3>1, <3>2, <3>3, <3>4
      <3>5. CASE uname'[c] # uname[c]
        <4>1. wpc[w] = "REGISTER" /\ c = U(w) /\ uname'[c] = wmsg[w].arg
          BY <3>5, UsersKept
        <4>2. wmsg[w].arg = NameOf[wmsg[w].from]
          BY <4>1, CurrentMessage
        <4>3. session[c].auth /\ wmsg[w].from = c
          BY <1>2, <4>1 DEF Sound
        <4>4. QED
          BY <1>2, <3>1, <3>2, <3>3, <4>1, <4>2, <4>3
      <3>6. QED
        BY <3>4, <3>5
    <2>3. QED
      BY <2>1, <2>2
  <1>4. ASSUME NEW c \in Conn
        PROVE  /\ ustate'[c] \in {"AVAILABLE", "CHALLENGED", "PLAYING"} => uname'[c] # NoName
               /\ ustate'[c] = "CHALLENGED" => opponent'[c] # NoName
               /\ ustate'[c] = "SECURELY_CONNECTED" =>
                    /\ session'[c].auth
                    /\ uname'[c] # NoName => \E v \in Worker : U(v)' = c /\ wpc'[v] = "reg_exists"
    <2>1. /\ session[c].auth => session'[c].auth
          /\ opponent[c] # NoName => opponent'[c] # NoName
          /\ uname[c] # NoName => uname'[c] = uname[c]
          /\ uname'[c] # uname[c] => wpc[w] = "REGISTER" /\ c = U(w)
      BY UsersKept
    <2>2. /\ ustate[c] \in {"AVAILABLE", "CHALLENGED", "PLAYING"} => uname[c] # NoName
          /\ ustate[c] = "CHALLENGED" => opponent[c] # NoName
          /\ ustate[c] = "SECURELY_CONNECTED" =>
               /\ session[c].auth
               /\ uname[c] # NoName => \E v \in Worker : U(v) = c /\ wpc[v] = "reg_exists"
      BY DEF SystemInv, StagesInOrder
    <2>3. CASE ustate'[c] # ustate[c]
      <3>1. \/ ustate'[c] = "DISCONNECTED"
            \/ /\ ustate'[c] = "SECURELY_CONNECTED"
               /\ wpc[w] = "CLIENT_VERIFY" /\ session'[c].auth
            \/ /\ ustate'[c] \in {"AVAILABLE", "CHALLENGED", "PLAYING"}
               /\ uname[c] # NoName
               /\ ustate'[c] = "CHALLENGED" => opponent'[c] # NoName
        BY <2>3, StatesChange
      <3>2. wpc[w] = "CLIENT_VERIFY" /\ ustate'[c] = "SECURELY_CONNECTED" => uname'[c] = NoName
        <4> SUFFICES ASSUME wpc[w] = "CLIENT_VERIFY", ustate'[c] = "SECURELY_CONNECTED"
                     PROVE  uname'[c] = NoName
          OBVIOUS
        <4>1. c = U(w)
          <5>1. c = U(w) \/ c = O(w)
            BY <2>3, StatesChange
          <5>2. O(w) = NULL
            BY <1>2 DEF Sound, HasOpponent
          <5>3. QED
            BY <5>1, <5>2, ServerAssumption
        <4>2. ~session[c].auth
          BY <1>2, <4>1 DEF Sound
        <4>3. uname[c] = NoName
          BY <4>2 DEF SystemInv, AuthenticSession
        <4>4. QED
          BY <2>1, <4>3
      <3>3. QED
        BY <2>1, <3>1, <3>2
    <2>4. CASE ustate'[c] = ustate[c]
      <3>1. CASE ustate[c] = "SECURELY_CONNECTED" /\ uname'[c] # NoName
        <4>1. CASE uname[c] = NoName
          <5>1. wpc[w] = "REGISTER" /\ c = U(w)
            BY <2>1, <3>1, <4>1
          <5>2. wpc'[w] = "reg_exists" /\ U(w)' = c
            BY <5>1, Registration
          <5>3. QED
            BY <2>1, <2>2, <2>4, <3>1, <5>2
        <4>2. CASE uname[c] # NoName
          <5>1. PICK v \in Worker : U(v) = c /\ wpc[v] = "reg_exists"
            BY <2>2, <3>1, <4>2
          <5>2. v # w
            BY <2>4, <3>1, <5>1, Registration
          <5>3. U(v)' = c /\ wpc'[v] = "reg_exists"
            BY <5>1, <5>2, WorkerFrame
          <5>4. QED
            BY <2>1, <2>2, <2>4, <3>1, <5>3
        <4>3. QED
          BY <4>1, <4>2
      <3>2. CASE ~(ustate[c] = "SECURELY_CONNECTED" /\ uname'[c] # NoName)
        BY <2>1, <2>2, <2>4, <3>2
      <3>3. QED
        BY <3>1, <3>2
    <2>5. QED
      BY <2>3, <2>4
  <1>5. AuthenticSession'
    <2> SUFFICES ASSUME NEW c \in Conn
                 PROVE  /\ session'[c].auth =>
                             session'[c].hello = c /\ phase'[c] \notin {"off", "cert", "hello"}
                        /\ uname'[c] # NoName => session'[c].auth /\ uname'[c] = NameOf[c]
                        /\ ustate'[c] \notin {"JUST_CONNECTED", "DISCONNECTED"} => session'[c].auth
      BY DEF AuthenticSession
    <2>1. ustate'[c] \in UserState
      BY WorkerListStep, ListStepKeepsInv DEF SystemInv, UL!UserListInv, UL!UserListTypeOK
    <2>2. QED
      BY <1>3, <1>4, <2>1 DEF UserState, Unverified
  <1>6. StagesInOrder'
    <2>1. \A v \in Worker :
            /\ wpc'[v] \in {"CLIENT_HELLO", "CLIENT_VERIFY"} => ~session'[U(v)'].auth
            /\ wpc'[v] = "REGISTER" => session'[U(v)'].auth /\ wmsg'[v].from = U(v)'
            /\ wpc'[v] \in RegisteredPc => uname'[U(v)'] # NoName
            /\ wpc'[v] \in HasOpponent => uname'[O(v)'] # NoName
            /\ wpc'[v] \in {"ACCEPT", "REJECT"} => opponent'[U(v)'] # NoName
      BY <1>1 DEF Sound
    <2>2. QED
      BY <1>4, <2>1 DEF StagesInOrder
  <1>7. QED
    BY <1>5, <1>6

LEMMA WorkerKeepsRegistration ==
  ASSUME SystemInv, NEW w \in Worker, WorkerStep(w)
  PROVE  RegisteredOnce'
  <1> SUFFICES ASSUME NEW x \in Worker, NEW y \in Worker, x # y, U(x)' = U(y)',
                      wpc'[y] \in Registering, wpc'[x] \in RegisteredPc
               PROVE  FALSE
    BY DEF RegisteredOnce
  <1>1. Sound(x)' /\ Sound(y)'
    BY OwnSound, OthersKeepSound
  <1>2. wpc'[y] # "REGISTER"
    BY <1>1 DEF Sound
  <1>3. lockOwner'[U(y)'] = y
    BY <1>1 DEF Sound, Holding, HoldsNone, HoldsOther, Registering
  <1>4. U(x) = U(y) /\ wpc[y] \in Registering => wpc[x] \notin RegisteredPc
    BY DEF SystemInv, RegisteredOnce
  <1>5. \A v \in Worker \ {w} : wpc'[v] = wpc[v] /\ U(v)' = U(v)
    BY WorkerFrame
  <1> HIDE DEF SystemInv
  <1>6. CASE x # w /\ y # w
    BY <1>4, <1>5, <1>6
  <1>7. CASE y = w
    <2>1. wpc[y] \in Registering /\ U(y)' = U(y)
      BY <1>2, <1>7, Registration DEF SystemInv, Registering
    <2>2. QED
      BY <1>4, <1>5, <1>7, <2>1
  <1>8. CASE x = w
    <2>1. wpc'[x] \notin Secure \cup {"reg_exists"}
      <3> SUFFICES ASSUME wpc'[x] \in Secure \cup {"reg_exists"} PROVE FALSE
        OBVIOUS
      <3>1. lockOwner'[U(x)'] = x
        BY <1>1 DEF Sound, Holding, HoldsNone, HoldsOther, Secure
      <3>2. QED
        BY <1>3, <3>1
    <2>2. wpc[x] \in RegisteredPc /\ U(x)' = U(x)
      BY <1>8, <2>1, Registration
    <2>3. QED
      BY <1>4, <1>5, <1>8, <2>2
  <1>9. QED
    BY <1>6, <1>7, <1>8

(* A step of a worker keeps the invariant.                                 *)
LEMMA WorkerKeepsInv ==
  ASSUME SystemInv, NEW w \in Worker, WorkerStep(w), UNCHANGED <<clientVars, scenario>>
  PROVE  SystemInv'
  <1>1. UNCHANGED <<mpc, active, ready, cursor, backlog, inbox, closed, phase, sseq, ops, scenario>>
    BY DEF WorkerStep, mainVars, clientVars
  <1>2. UL!UserListInv'
    BY WorkerListStep, ListStepKeepsInv DEF SystemInv
  <1>3. MQ!QueueTypeOK' /\ MQ!NoLostWakeup'
    BY WorkerQueueStep, QueueStepKeepsInv DEF SystemInv, Types
  <1>4. \A v \in Worker : Sound(v)'
    BY OwnSound, OthersKeepSound
  <1>5. held'[MyUser(Main)] = held[MyUser(Main)]
    BY WorkerFrame
  <1>6. PointersKept'
    BY <1>1, <1>4, <1>5 DEF SystemInv, PointersKept, Sound
  <1>7. LocksHeld' /\ HandlersMatch'
    BY <1>4 DEF LocksHeld, HandlersMatch, Sound
  <1>8. AuthenticSession' /\ StagesInOrder'
    BY WorkerKeepsSessions
  <1>9. RegisteredOnce'
    BY WorkerKeepsRegistration
  <1>10. MessagesGenuine'
    <2>1. \A c \in Conn : \A i \in DOMAIN inbox'[c] : Genuine(c, inbox[c][i])'
      BY <1>1 DEF SystemInv, MessagesGenuine, Genuine
    <2>2. \A c, m : Genuine(c, m) => Genuine(c, m)'
      BY <1>1 DEF Genuine
    <2>3. \/ msgQueue' = msgQueue
          \/ msgQueue # <<>> /\ msgQueue' = Tail(msgQueue)
      BY DEF WorkerStep, Pull, MQ!PullItem, MQ!PullSleep, HandlerStep, Get, Lock, Dispatch,
         DoubleLock, DoubleUnlock, Unlock, Fail, YieldUser, queueVars
    <2>4. msgQueue \in Seq(QueueItem)
      BY DEF SystemInv, Types, MQ!QueueTypeOK, QueueItem
    <2>5. \A i \in DOMAIN msgQueue : Genuine(msgQueue[i].from, msgQueue[i])
      BY DEF SystemInv, MessagesGenuine
    <2>6. \A i \in DOMAIN msgQueue' : \E j \in DOMAIN msgQueue : msgQueue'[i] = msgQueue[j]
      BY <2>3, <2>4, HeadAndTail
    <2>7. \A i \in DOMAIN msgQueue' : Genuine(msgQueue[i].from, msgQueue[i])'
      BY <1>1, <2>5, <2>6 DEF Genuine
    <2>8. \/ wmsg'[w] = NULL
          \/ wmsg'[w] = wmsg[w]
          \/ wmsg'[w] = Head(msgQueue) /\ msgQueue # <<>>
      <3>1. wmsg \in [Worker -> QueueItem \cup {NULL}]
        BY Pointers
      <3> HIDE DEF SystemInv
      <3>2. QED
        BY <3>1 DEF WorkerStep, Pull, MQ!PullItem, MQ!PullSleep, HandlerStep, Get, Lock, Dispatch,
         DoubleLock, DoubleUnlock, Unlock, Fail, YieldUser, queueVars
    <2>9. wmsg'[w] # NULL => Genuine(wmsg[w].from, wmsg[w])'
      <3>1. msgQueue # <<>> => Head(msgQueue) = msgQueue[1] /\ 1 \in DOMAIN msgQueue
        BY <2>4, HeadAndTail
      <3>2. wmsg[w] # NULL => Genuine(wmsg[w].from, wmsg[w])
        BY DEF SystemInv, MessagesGenuine
      <3>3. QED
        BY <1>1, <2>5, <2>8, <3>1, <3>2 DEF Genuine
    <2>10. \A v \in Worker \ {w} : wmsg'[v] = wmsg[v]
      BY WorkerFrame
    <2>11. \A v \in Worker : wmsg'[v] # NULL => Genuine(wmsg[v].from, wmsg[v])'
      BY <1>1, <2>9, <2>10 DEF SystemInv, MessagesGenuine, Genuine
    <2>12. QED
      BY <2>1, <2>7, <2>11 DEF MessagesGenuine
  <1>11. Types'
    <2>1. /\ lockOwner' \in [Conn -> Worker \cup {NULL}]
          /\ opponent' \in [Conn -> Name \cup {NoName}]
          /\ session' \in [Conn -> [hello : Conn \cup {NULL}, auth : BOOLEAN, recvSeq : Nat]]
          /\ wpc' \in [Worker -> WorkerPc] /\ wres' \in [Worker -> BOOLEAN]
          /\ wmsg' \in [Worker -> QueueItem \cup {NULL}]
      BY OthersKeepLocks, UsersKept, WorkerTypes
    <2>2. \A v \in Worker : wmsg'[v] = NULL <=> wpc'[v] = "pull"
      <3>1. wmsg'[w] = NULL <=> wpc'[w] = "pull"
        BY WorkerTypes
      <3>2. \A v \in Worker \ {w} : wmsg'[v] = wmsg[v] /\ wpc'[v] = wpc[v]
        BY WorkerFrame
      <3>3. QED
        BY <3>1, <3>2 DEF SystemInv, Types, SystemTypeOK, ServerTypeOK
    <2>3. UL!UserListTypeOK' /\ Len(msgQueue') <= MaxQueue
      BY <1>2, <1>3 DEF UL!UserListInv, MQ!QueueTypeOK
    <2>4. ServerTypeOK'
      <3>1. \A c \in Conn : /\ session'[c].hello \in Conn \cup {NULL}
                            /\ session'[c].auth \in BOOLEAN
                            /\ session'[c].recvSeq \in Nat
        BY <2>1
      <3>2. QED
        BY <1>1, <2>1, <2>2, <2>3, <3>1 DEF SystemInv, Types, SystemTypeOK, ServerTypeOK
    <2>5. SystemTypeOK'
      BY <1>1, <2>4 DEF SystemInv, Types, SystemTypeOK, MaxOps
    <2>6. QED
      BY <1>1, <1>3, <2>1, <2>5 DEF SystemInv, Types
  <1>12. QED
    BY <1>2, <1>6, <1>7, <1>8, <1>9, <1>10, <1>11 DEF SystemInv

(* What is left to show of a step that moves no worker.                    *)
LEMMA QuietStepKeepsInv ==
  ASSUME SystemInv,
         [UL!Next]_(UL!userVars), [MQ!Next]_(MQ!queueVars),
         UNCHANGED <<wpc, wmsg, wres, lockOwner, session, opponent, uname, scenario>>,
         \A w \in Worker : U(w)' = U(w) /\ O(w)' = O(w),
         \A c \in Conn : ustate'[c] \in {ustate[c], "DISCONNECTED"},
         \A c \in Conn : phase[c] \notin Unverified => phase'[c] \notin Unverified,
         MainTypes',
         held'[MyUser(Main)] # NULL <=> mpc' \in {"check", "drop", "read", "yield"},
         \A c \in Conn : \A i \in DOMAIN inbox'[c] : Genuine(c, inbox[c][i])',
         \A i \in DOMAIN msgQueue' : Genuine(msgQueue[i].from, msgQueue[i])',
         phase' \in [Conn -> DOMAIN Awaited], sseq' \in [Conn -> Nat],
         ops' \in [Conn -> Nat], \A c \in Conn : ops'[c] \in 0 .. MaxOps[c]
  PROVE  SystemInv'
  <1>1. LocksHeld' /\ HandlersMatch' /\ AuthenticSession' /\ StagesInOrder' /\ RegisteredOnce'
    BY QuietStepKeeps
  <1>2. UL!UserListInv'
    BY ListStepKeepsInv DEF SystemInv
  <1>3. MQ!QueueTypeOK' /\ MQ!NoLostWakeup'
    BY QueueStepKeepsInv DEF SystemInv, Types
  <1>4. PointersKept'
    BY DEF SystemInv, PointersKept
  <1>5. MessagesGenuine'
    <2>1. \A w \in Worker : wmsg'[w] # NULL => Genuine(wmsg[w].from, wmsg[w])'
      <3> SUFFICES ASSUME NEW w \in Worker, wmsg[w] # NULL
                   PROVE  Genuine(wmsg[w].from, wmsg[w])'
        OBVIOUS
      <3>1. wmsg[w].from \in Conn
        <4>1. wpc[w] # "pull"
          BY DEF SystemInv, Types, SystemTypeOK, ServerTypeOK
        <4>2. QED
          BY <4>1, CurrentMessage
      <3>2. QED
        BY <3>1 DEF SystemInv, MessagesGenuine, Genuine
    <2>2. QED
      BY <2>1 DEF MessagesGenuine
  <1>6. Types'
    <2>1. UL!UserListTypeOK' /\ Len(msgQueue') <= MaxQueue
      BY <1>2, <1>3 DEF UL!UserListInv, MQ!QueueTypeOK
    <2>2. ServerTypeOK'
      BY <2>1 DEF SystemInv, Types, SystemTypeOK, ServerTypeOK, MainTypes
    <2>3. SystemTypeOK'
      BY <2>2 DEF SystemTypeOK, MaxOps
    <2>4. QED
      BY <1>3, <2>3 DEF SystemInv, Types, MainTypes
  <1>7. QED
    BY <1>1, <1>2, <1>4, <1>5, <1>6 DEF SystemInv

LEMMA MainKeepsInv ==
  ASSUME SystemInv, MainStep, UNCHANGED <<clientVars, scenario>>
  PROVE  SystemInv'
  <1>1. UNCHANGED <<phase, sseq, ops, scenario>>
    BY DEF clientVars
  <1>2. /\ phase \in [Conn -> DOMAIN Awaited] /\ sseq \in [Conn -> Nat]
        /\ ops \in [Conn -> Nat] /\ \A c \in Conn : ops[c] \in 0 .. MaxOps[c]
    BY DEF SystemInv, Types, SystemTypeOK
  <1>3. MaxOps' = MaxOps
    BY <1>1 DEF MaxOps
  <1>4. /\ MainTypes'
        /\ held'[MyUser(Main)] # NULL <=> mpc' \in {"check", "drop", "read", "yield"}
        /\ \A c \in Conn : \A i \in DOMAIN inbox'[c] : Genuine(c, inbox[c][i])'
        /\ \A i \in DOMAIN msgQueue' : Genuine(msgQueue[i].from, msgQueue[i])'
    <2>1. \A c, m : Genuine(c, m) => Genuine(c, m)'
      BY <1>1 DEF Genuine
    <2>2. QED
      BY <1>1, MainKeepsTypes DEF Genuine
  <1>5. [UL!Next]_(UL!userVars) /\ [MQ!Next]_(MQ!queueVars)
    BY MainListStep, MainQueueStep
  <1>6. /\ UNCHANGED <<wpc, wmsg, wres, lockOwner, session, opponent, uname>>
        /\ \A w \in Worker : U(w)' = U(w) /\ O(w)' = O(w)
        /\ \A c \in Conn : ustate'[c] \in {ustate[c], "DISCONNECTED"}
    BY MainFrame
  <1> HIDE DEF SystemInv
  <1>7. QED
    BY <1>1, <1>2, <1>3, <1>4, <1>5, <1>6, QuietStepKeepsInv

LEMMA ClientKeepsInv ==
  ASSUME SystemInv, NEW c \in Conn, ClientStep(c), UNCHANGED scenario
  PROVE  SystemInv'
  <1>1. UNCHANGED <<listVars, queueVars, lockOwner, peerVars, mainVars, workerVars>>
    BY ClientLeavesServer
  <1>2. ClientGoal
    BY ClientKeepsTypes
  <1>3. UNCHANGED <<wpc, wmsg, wres, lockOwner, session, opponent, uname, ustate, held,
                    msgQueue, mpc, active, ready, cursor>>
    BY <1>1 DEF listVars, queueVars, peerVars, mainVars, workerVars
  <1>4. UNCHANGED UL!userVars /\ UNCHANGED MQ!queueVars
    BY <1>1 DEF listVars, queueVars, UL!userVars, MQ!queueVars
  <1>5. MaxOps' = MaxOps
    BY DEF MaxOps
  <1>6. \A w \in Worker : U(w)' = U(w) /\ O(w)' = O(w)
    BY <1>3 DEF U, O
  <1>7. MainTypes'
    BY <1>2, <1>3 DEF SystemInv, Types, SystemTypeOK, ServerTypeOK, MainTypes, ClientGoal
  <1>8. held'[MyUser(Main)] # NULL <=> mpc' \in {"check", "drop", "read", "yield"}
    BY <1>3 DEF SystemInv, PointersKept
  <1>9. \A i \in DOMAIN msgQueue' : Genuine(msgQueue[i].from, msgQueue[i])'
    <2>1. \A i \in DOMAIN msgQueue : msgQueue[i].from \in Conn
      <3>1. msgQueue \in Seq(QueueItem)
        BY DEF SystemInv, Types, MQ!QueueTypeOK, QueueItem
      <3>2. \A i \in DOMAIN msgQueue : msgQueue[i] \in QueueItem
        BY <3>1
      <3>3. QED
        BY <3>2 DEF QueueItem
    <2>2. QED
      BY <1>2, <1>3, <2>1 DEF SystemInv, MessagesGenuine, Genuine, ClientGoal
  <1>10. \A d \in Conn : ustate'[d] \in {ustate[d], "DISCONNECTED"}
    BY <1>3
  <1> HIDE DEF SystemInv
  <1>11. QED
    BY <1>2, <1>3, <1>4, <1>5, <1>6, <1>7, <1>8, <1>9, <1>10, QuietStepKeepsInv DEF ClientGoal

(* A spurious wake-up moves nothing but the worker's place in the queue.   *)
LEMMA WakeUpKeepsInv ==
  ASSUME SystemInv,
         [\E w \in Worker : WakeUp(w)]_serverVars, UNCHANGED <<clientVars, scenario>>
  PROVE  SystemInv'
  <1>1. UNCHANGED <<listVars, msgQueue, lockOwner, peerVars, mainVars, workerVars,
                    backlog, inbox, phase, sseq, ops, scenario>>
    BY DEF WakeUp, SpuriousWakeup, MQ!SpuriousWakeup, clientVars, serverVars, networkVars,
       queueVars
  <1>2. [MQ!Next]_(MQ!queueVars)
    BY DEF WakeUp, SpuriousWakeup, MQ!Next, serverVars, queueVars, MQ!queueVars
  <1>3. UNCHANGED <<wpc, wmsg, wres, session, opponent, uname, ustate, held,
                    mpc, active, ready, cursor>> /\ UNCHANGED UL!userVars
    BY <1>1 DEF listVars, peerVars, mainVars, workerVars, UL!userVars
  <1>4. /\ phase' \in [Conn -> DOMAIN Awaited] /\ sseq' \in [Conn -> Nat]
        /\ ops' \in [Conn -> Nat] /\ \A c \in Conn : ops'[c] \in 0 .. MaxOps[c]
        /\ MaxOps' = MaxOps
    BY <1>1 DEF SystemInv, Types, SystemTypeOK, MaxOps
  <1>5. MainTypes'
    BY <1>1, <1>3 DEF SystemInv, Types, SystemTypeOK, ServerTypeOK, MainTypes
  <1>6. held'[MyUser(Main)] # NULL <=> mpc' \in {"check", "drop", "read", "yield"}
    BY <1>3 DEF SystemInv, PointersKept
  <1>7. /\ \A c \in Conn : \A i \in DOMAIN inbox'[c] : Genuine(c, inbox[c][i])'
        /\ \A i \in DOMAIN msgQueue' : Genuine(msgQueue[i].from, msgQueue[i])'
    BY <1>1 DEF SystemInv, MessagesGenuine, Genuine
  <1>8. /\ \A w \in Worker : U(w)' = U(w) /\ O(w)' = O(w)
        /\ \A c \in Conn : ustate'[c] \in {ustate[c], "DISCONNECTED"}
        /\ \A c \in Conn : phase[c] \notin Unverified => phase'[c] \notin Unverified
    BY <1>1, <1>3 DEF U, O
  <1> HIDE DEF SystemInv
  <1>9. QED
    BY <1>1, <1>2, <1>3, <1>4, <1>5, <1>6, <1>7, <1>8, QuietStepKeepsInv

(* Every step of the system keeps the invariant.                           *)
LEMMA StepKeepsInv == SystemInv /\ [Next]_vars => SystemInv'
  <1> SUFFICES ASSUME SystemInv, [Next]_vars PROVE SystemInv'
    OBVIOUS
  <1> HIDE DEF SystemInv
  <1>1. CASE MainStep /\ UNCHANGED <<clientVars, scenario>>
    BY <1>1, MainKeepsInv
  <1>2. ASSUME NEW w \in Worker, WorkerStep(w), UNCHANGED <<clientVars, scenario>>
        PROVE  SystemInv'
    BY <1>2, WorkerKeepsInv
  <1>3. ASSUME NEW w \in Worker, WakeUp(w), UNCHANGED <<clientVars, scenario>>
        PROVE  SystemInv'
    BY <1>3, WakeUpKeepsInv
  <1>4. ASSUME NEW c \in Conn, ClientStep(c), UNCHANGED scenario
        PROVE  SystemInv'
    BY <1>4, ClientKeepsInv
  <1>5. CASE UNCHANGED vars
    BY <1>5, WakeUpKeepsInv DEF vars
  <1>6. QED
    BY <1>1, <1>2, <1>3, <1>4, <1>5 DEF Next, ServerStep

-----------------------------------------------------------------------------
(* The connections that have logged in at the start are all different, so  *)
(* there is a descriptor for each.                                         *)
LEMMA LoginsFit ==
  ASSUME NEW s \in Scenarios
  PROVE  /\ s.before \in Seq(Conn)
         /\ \A i, j \in DOMAIN s.before : s.before[i] = s.before[j] => i = j
         /\ DOMAIN s.before \subseteq Fd
         /\ s.maxOps \in [Conn -> Nat]
  <1> DEFINE L == s.before
             n == Cardinality(Conn)
  <1>1. /\ L \in Seq(Conn) /\ s.maxOps \in [Conn -> Nat]
        /\ \A i, j \in DOMAIN L : L[i] = L[j] => i = j
    BY SystemAssumption
  <1> HIDE DEF L
  <1>2. DOMAIN L = 1 .. Len(L) /\ Len(L) \in Nat /\ L \in [1 .. Len(L) -> Conn]
    BY <1>1
  <1>3. L \in Injection(1 .. Len(L), Conn)
    BY <1>1, <1>2 DEF Injection, IsInjective
  <1>4. IsFiniteSet(Conn)
    BY ServerAssumption
  <1>5. Cardinality(1 .. Len(L)) <= n
    BY <1>3, <1>4, FS_Injection
  <1>6. Cardinality(1 .. Len(L)) = Len(L)
    <2>1. Cardinality(1 .. Len(L)) = IF 1 > Len(L) THEN 0 ELSE Len(L) - 1 + 1
      BY <1>2, FS_Interval
    <2>2. QED
      BY <1>2, <2>1
  <1>7. n \in Nat
    BY <1>4, FS_CardinalityType
  <1>8. DOMAIN L \subseteq 1 .. n
    BY <1>2, <1>5, <1>6, <1>7
  <1>9. QED
    BY <1>1, <1>8 DEF Fd, L

(* The state in which some connections have logged in.                     *)
LEMMA InitEstablishesInv == Init => SystemInv
  <1> SUFFICES ASSUME Init PROVE SystemInv
    OBVIOUS
  <1> DEFINE L == Before
             S == {L[i] : i \in DOMAIN L}
             pos(c) == CHOOSE i \in DOMAIN L : L[i] = c
             first(n) == CHOOSE c \in S : NameOf[c] = n
  <1>1. /\ L \in Seq(Conn) /\ \A i, j \in DOMAIN L : L[i] = L[j] => i = j
        /\ DOMAIN L \subseteq Fd /\ MaxOps \in [Conn -> Nat] /\ scenario \in Scenarios
    BY LoginsFit DEF Init, Before, MaxOps
  <1>2. S \subseteq Conn
    BY <1>1
  <1>3. \A c \in S : pos(c) \in DOMAIN L /\ L[pos(c)] = c
    OBVIOUS
  <1>4. \A i \in DOMAIN L : L[i] \in S /\ pos(L[i]) = i
    BY <1>1, <1>3
  <1>5. \A n : (\E c \in S : NameOf[c] = n) => first(n) \in S /\ NameOf[first(n)] = n
    OBVIOUS
  <1>6. /\ heap   = [c \in Conn |-> IF c \in S THEN "live" ELSE "unborn"]
        /\ byName = [n \in Name |-> IF \E c \in S : NameOf[c] = n THEN first(n) ELSE NULL]
        /\ byFd   = [f \in Fd |-> IF f \in DOMAIN L THEN L[f] ELSE NULL]
        /\ refs   = [c \in Conn |-> 0]
        /\ uname  = [c \in Conn |-> IF c \in S THEN NameOf[c] ELSE NoName]
        /\ ustate = [c \in Conn |-> IF c \in S THEN "AVAILABLE" ELSE "JUST_CONNECTED"]
        /\ fdOf   = [c \in Conn |-> IF c \in S THEN pos(c) ELSE NULL]
        /\ held   = [r \in Ref |-> NULL]
    BY DEF Init, LoggedIn
  <1>7. /\ msgQueue = <<>> /\ sleeping = {}
        /\ lockOwner = [c \in Conn |-> NULL]
        /\ opponent  = [c \in Conn |-> NoName]
        /\ session   = [c \in Conn |->
                          [hello |-> IF c \in S THEN c ELSE NULL,
                           auth |-> c \in S,
                           recvSeq |-> IF c \in S THEN 1 ELSE 0]]
        /\ mpc = "select" /\ active = DOMAIN L /\ ready = {} /\ cursor = ListenFd - 1
        /\ wpc  = [w \in Worker |-> "pull"]
        /\ wmsg = [w \in Worker |-> NULL]
        /\ wres = [w \in Worker |-> TRUE]
        /\ backlog = <<>> /\ inbox = [c \in Conn |-> <<>>]
    BY DEF Init, LoggedIn
  <1>8. /\ phase = [c \in Conn |-> IF c \in S THEN "lobby" ELSE "off"]
        /\ sseq = [c \in Conn |-> session[c].recvSeq]
        /\ ops = [c \in Conn |-> 0]
    <2>1. \A c \in Conn : (\E i \in DOMAIN L : L[i] = c) <=> c \in S
      OBVIOUS
    <2>2. QED
      BY <2>1 DEF Init
  <1>9. /\ NameOf \in [Conn -> Nat \ {0}] /\ \A c \in Conn : NameOf[c] \in Name
        /\ NULL \notin Conn /\ NULL \notin Fd /\ NULL \notin Worker
    BY ServerAssumption DEF Name, Fd
  <1> HIDE DEF L, S, pos, first
  <1>10. \A w \in Worker : U(w) = NULL /\ O(w) = NULL /\ wpc[w] = "pull" /\ wmsg[w] = NULL
    BY <1>6, <1>7, RefFacts DEF U, O
  <1>11. UL!UserListInv
    <2>1. UL!UserListTypeOK
      <3>1. byName \in [Name -> Conn \cup {NULL}]
        BY <1>2, <1>5, <1>6
      <3>2. byFd \in [Fd -> Conn \cup {NULL}] /\ fdOf \in [Conn -> Fd \cup {NULL}]
        BY <1>1, <1>2, <1>3, <1>4, <1>6
      <3>3. uname \in [Conn -> Name \cup {NoName}] /\ ustate \in [Conn -> UserState]
        BY <1>6, <1>9 DEF UserState
      <3>4. QED
        BY <1>6, <3>1, <3>2, <3>3 DEF UL!UserListTypeOK
    <2>2. UL!HeldAlive /\ UL!HeldIndexed
      BY <1>6 DEF UL!HeldAlive, UL!HeldIndexed
    <2>3. UL!IndexSound
      <3>1. \A n \in Name : byName[n] # NULL =>
              /\ heap[byName[n]] = "live" /\ uname[byName[n]] = n
              /\ byFd[fdOf[byName[n]]] = byName[n]
        <4> SUFFICES ASSUME NEW n \in Name, byName[n] # NULL
                     PROVE  /\ heap[byName[n]] = "live" /\ uname[byName[n]] = n
                            /\ byFd[fdOf[byName[n]]] = byName[n]
          OBVIOUS
        <4>1. byName[n] \in S /\ NameOf[byName[n]] = n
          BY <1>5, <1>6
        <4>2. fdOf[byName[n]] \in DOMAIN L /\ L[fdOf[byName[n]]] = byName[n]
          BY <1>2, <1>3, <1>6, <4>1
        <4>3. QED
          BY <1>1, <1>2, <1>6, <4>1, <4>2
      <3>2. \A f \in Fd : byFd[f] # NULL => heap[byFd[f]] = "live" /\ fdOf[byFd[f]] = f
        BY <1>2, <1>4, <1>6
      <3>3. QED
        BY <3>1, <3>2 DEF UL!IndexSound
    <2>4. UL!NoZombie
      BY <1>6 DEF UL!NoZombie
    <2>5. UL!RefsCover
      <3> SUFFICES ASSUME NEW c \in Conn
                   PROVE  UL!Cardinality(UL!Holders(held, c)) <= refs[c]
        BY DEF UL!RefsCover
      <3>1. UL!Holders(held, c) = {}
        BY <1>6, <1>9 DEF UL!Holders
      <3>2. UL!Cardinality({}) = 0
        BY SameCardinality, FS_EmptySet
      <3>3. QED
        BY <1>6, <3>1, <3>2
    <2>6. UL!FreshUsers
      BY <1>1, <1>2, <1>3, <1>6 DEF UL!FreshUsers
    <2>7. QED
      BY <2>1, <2>2, <2>3, <2>4, <2>5, <2>6 DEF UL!UserListInv
  <1>12. Types
    <2>0. session \in [Conn -> [hello : Conn \cup {NULL}, auth : BOOLEAN, recvSeq : Nat]]
      BY <1>2, <1>7
    <2>1. ServerTypeOK
      <3>1. \A c \in Conn : /\ session[c].hello \in Conn \cup {NULL}
                            /\ session[c].auth \in BOOLEAN
                            /\ session[c].recvSeq \in Nat
        BY <2>0
      <3>2. /\ lockOwner \in [Conn -> Worker \cup {NULL}]
            /\ opponent \in [Conn -> Name \cup {NoName}]
            /\ wpc \in [Worker -> WorkerPc] /\ wres \in [Worker -> BOOLEAN]
        BY <1>7 DEF WorkerPc
      <3>3. Len(msgQueue) <= MaxQueue
        BY <1>7, ServerAssumption
      <3>4. QED
        BY <1>1, <1>7, <1>10, <1>11, <3>1, <3>2, <3>3
        DEF ServerTypeOK, UL!UserListInv
    <2>2. SystemTypeOK
      <3>1. phase \in [Conn -> DOMAIN Awaited]
        BY <1>8, Phases
      <3>2. sseq \in [Conn -> Nat]
        BY <1>7, <1>8
      <3>3. \A c \in Conn : ops[c] \in 0 .. MaxOps[c]
        BY <1>1, <1>8
      <3>4. QED
        BY <2>1, <3>1, <3>2, <3>3 DEF SystemTypeOK
    <2>3. MQ!QueueTypeOK /\ MQ!NoLostWakeup
      BY <1>7, ServerAssumption DEF MQ!QueueTypeOK, MQ!NoLostWakeup
    <2>5. /\ inbox \in [Conn -> Seq(ClientMessage)] /\ backlog \in Seq(Conn)
          /\ wmsg \in [Worker -> QueueItem \cup {NULL}] /\ ops \in [Conn -> Nat]
      BY <1>7, <1>8
    <2>6. QED
      BY <1>1, <1>7, <2>0, <2>2, <2>3, <2>5 DEF Types
  <1>13. PointersKept
    BY <1>6, <1>7, <1>10, RefFacts DEF PointersKept, HasOpponent
  <1>14. LocksHeld
    BY <1>10 DEF LocksHeld, Holding, HoldsNone, HoldsOther
  <1>15. MessagesGenuine
    BY <1>7, <1>10 DEF MessagesGenuine
  <1>16. HandlersMatch
    BY <1>10 DEF HandlersMatch, Handler, Plain, Secure
  <1>17. AuthenticSession
    BY <1>6, <1>7, <1>8, <1>9 DEF AuthenticSession
  <1>18. StagesInOrder
    BY <1>6, <1>7, <1>9, <1>10 DEF StagesInOrder, RegisteredPc, HasOpponent, NoName
  <1>19. RegisteredOnce
    BY <1>10 DEF RegisteredOnce, Registering
  <1>20. QED
    BY <1>11, <1>12, <1>13, <1>14, <1>15, <1>16, <1>17, <1>18, <1>19 DEF SystemInv

-----------------------------------------------------------------------------
(* The theorems.  SystemInv holds of every reachable state.                *)
THEOREM SystemInvariant == Spec => []SystemInv
  <1>1. Init => SystemInv
    BY InitEstablishesInv
  <1>2. SystemInv /\ [Next]_vars => SystemInv'
    BY StepKeepsInv
  <1>3. QED
    BY <1>1, <1>2, PTL DEF Spec

(* No step of any thread or client spoils the type of a variable: no count *)
(* goes below zero, no descriptor is used that does not exist, the queue   *)
(* never holds more than MAX_QUEUE_LENGTH messages.                        *)
THEOREM SystemTypeCorrect == Spec => []SystemTypeOK
  <1>1. SystemInv => SystemTypeOK
    BY DEF SystemInv, Types
  <1>2. QED
    BY <1>1, SystemInvariant, PTL

(* However many clients there are, whoever shares a name, whatever is      *)
(* queued under a descriptor that is used again: a session is              *)
(* authenticated only after its own client has accepted the server's       *)
(* hello, and a user is listed only on such a session and under the name   *)
(* of the client at the other end.                                         *)
THEOREM SessionsAreAuthentic == Spec => []AuthenticSession
  <1>1. SystemInv => AuthenticSession
    BY DEF SystemInv
  <1>2. QED
    BY <1>1, SystemInvariant, PTL

(* Between get and yield a thread has a user, and at no other time, and    *)
(* the opponent a handler works on is never the user itself.               *)
THEOREM PointersAreKept == Spec => []PointersKept
  <1>1. SystemInv => PointersKept
    BY DEF SystemInv
  <1>2. QED
    BY <1>1, SystemInvariant, PTL

(* Two workers never use one user's mutex, wherever doubleLock and         *)
(* doubleUnlock are in giving mutexes up and taking them again.            *)
THEOREM MutexesExclude == Spec => []MutualExclusion
  <1>1. SystemInv => MutualExclusion
    BY Exclusive DEF MutualExclusion
  <1>2. QED
    BY <1>1, SystemInvariant, PTL

(* Every step of the server's threads and of the clients is a call of the  *)
(* user list that its contract allows, or does not touch the list: so what *)
(* UserListProofs proves of the list alone holds of it in the server.      *)
THEOREM ListIsUsedProperly == Spec => [][UL!Next]_(UL!userVars)
  <1>1. SystemInv /\ [Next]_vars => [UL!Next]_(UL!userVars)
    <2> SUFFICES ASSUME SystemInv, [Next]_vars PROVE [UL!Next]_(UL!userVars)
      OBVIOUS
    <2>1. CASE MainStep
      BY <2>1, MainListStep
    <2>2. ASSUME NEW w \in Worker, WorkerStep(w) PROVE [UL!Next]_(UL!userVars)
      BY <2>2, WorkerListStep
    <2>3. ASSUME NEW w \in Worker, WakeUp(w) PROVE UNCHANGED UL!userVars
      BY <2>3 DEF WakeUp, SpuriousWakeup, listVars, UL!userVars
    <2>4. ASSUME NEW c \in Conn, ClientStep(c) PROVE UNCHANGED UL!userVars
      BY <2>4, ClientLeavesServer DEF listVars, UL!userVars
    <2>5. CASE UNCHANGED vars
      BY <2>5 DEF vars, serverVars, listVars, UL!userVars
    <2> HIDE DEF SystemInv
    <2>6. QED
      BY <2>1, <2>2, <2>3, <2>4, <2>5 DEF Next, ServerStep
  <1>2. QED
    BY <1>1, SystemInvariant, PTL DEF Spec

(* In the server, as in the list alone: no thread points to a destroyed    *)
(* User, the maps lead to nobody who is gone, a user in use stays listed,  *)
(* and a disconnected user has somebody left to destroy it.                *)
THEOREM ServerUsesNoFreedUser ==
  Spec => [](UL!HeldAlive /\ UL!IndexSound /\ UL!HeldIndexed /\ UL!NoZombie)
  <1>1. SystemInv => UL!HeldAlive /\ UL!IndexSound /\ UL!HeldIndexed /\ UL!NoZombie
    BY DEF SystemInv, UL!UserListInv
  <1>2. QED
    BY <1>1, SystemInvariant, PTL

(* The server implements the specification of the message queue: main      *)
(* thread and workers use it as producer and consumers, and nothing else   *)
(* touches it; so no wake-up of a worker is lost.                          *)
THEOREM ServerImplementsQueue == Spec => MQ!Spec /\ []MQ!NoLostWakeup
  <1>1. Init => MQ!Init
    BY DEF Init, LoggedIn, MQ!Init
  <1>2. SystemInv /\ [Next]_vars => [MQ!Next]_(MQ!queueVars)
    <2> SUFFICES ASSUME SystemInv, [Next]_vars PROVE [MQ!Next]_(MQ!queueVars)
      OBVIOUS
    <2>1. CASE MainStep
      BY <2>1, MainQueueStep
    <2>2. ASSUME NEW w \in Worker, WorkerStep(w) PROVE [MQ!Next]_(MQ!queueVars)
      BY <2>2, WorkerQueueStep
    <2>3. ASSUME NEW w \in Worker, WakeUp(w) PROVE MQ!Next
      BY <2>3 DEF WakeUp, SpuriousWakeup, MQ!Next
    <2>4. ASSUME NEW c \in Conn, ClientStep(c) PROVE UNCHANGED MQ!queueVars
      BY <2>4, ClientLeavesServer DEF queueVars, MQ!queueVars
    <2>5. CASE UNCHANGED vars
      BY <2>5 DEF vars, serverVars, queueVars, MQ!queueVars
    <2> HIDE DEF SystemInv
    <2>6. QED
      BY <2>1, <2>2, <2>3, <2>4, <2>5 DEF Next, ServerStep
  <1>3. SystemInv => MQ!NoLostWakeup
    BY DEF SystemInv, Types
  <1>4. QED
    BY <1>1, <1>2, <1>3, SystemInvariant, PTL DEF Spec, MQ!Spec
=============================================================================
