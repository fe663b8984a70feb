------------------------------- MODULE Server -------------------------------
(***************************************************************************)
(* The server program (src/server/server.cpp): a main thread that accepts  *)
(* connections and reads messages from sockets, and workers that handle    *)
(* the messages, sharing the UserList, the MessageQueue and one mutex per  *)
(* User.  A step of a thread ends where another thread can interfere: at   *)
(* every list or queue call, at every lock and unlock, and, because the    *)
(* main thread and failed handlers write User::state without the lock,     *)
(* between reading a state and writing one.                                *)
(*                                                                         *)
(* Each TCP connection c has one User object, which is named c too; the    *)
(* bytes in flight are inbox[c] towards the server and outbox[c] towards   *)
(* the client.  What clients do is in System.                              *)
(***************************************************************************)
EXTENDS Integers, Sequences, FiniteSets

CONSTANTS
  Conn,      \* connections
  NameOf,    \* the username each connection logs in with
  Worker,    \* the worker threads (N_THREADS of them)
  Main,      \* the main thread
  MaxUsers,  \* MAX_USERS
  MaxQueue,  \* MAX_QUEUE_LENGTH
  NULL

(* Usernames are positive numbers, so that < is their alphabetical order   *)
(* and the empty name, 0, comes before all of them.                        *)
Name   == {NameOf[c] : c \in Conn}
NoName == 0

ListenFd == 0
Fd       == 1 .. Cardinality(Conn)

ASSUME ServerAssumption ==
  /\ IsFiniteSet(Conn) /\ IsFiniteSet(Worker) /\ Worker # {}
  /\ NameOf \in [Conn -> Nat \ {0}]
  /\ Main \notin Worker
  /\ NULL \notin Conn \cup Worker \cup Nat
  /\ MaxUsers \in Nat /\ MaxQueue \in Nat \ {0}

UserState == {"JUST_CONNECTED", "SECURELY_CONNECTED", "AVAILABLE",
              "CHALLENGED", "PLAYING", "DISCONNECTED"}

(* Pointer variables: every thread has a "u", a worker also an "opponent". *)
MyUser(t)   == <<t, "u">>
Opponent(w) == <<w, "opponent">>
Ref == {MyUser(t) : t \in Worker \cup {Main}} \cup {Opponent(w) : w \in Worker}

(* The messages clients send.  CHALLENGE_RESP is split by its answer.      *)
Plain  == {"CERT_REQ", "CLIENT_HELLO", "CLIENT_VERIFY"}
Secure == {"REGISTER", "USERS_LIST_REQ", "CHALLENGE", "ACCEPT", "REJECT",
           "GAME_END"}

VARIABLES
  heap, byName, byFd, refs, uname, ustate, fdOf, held,  \* UserList
  msgQueue, sleeping,                                   \* MessageQueue
  lockOwner,  \* which worker has locked each User's mutex, or NULL
  opponent,   \* User::opponent_username
  session,    \* the SecureSocketWrapper of each User
  mpc,        \* where the main thread is
  active,     \* active_fd_set, without the listening socket
  ready,      \* read_fd_set, as the last select returned it
  cursor,     \* i, the descriptor the scan is at
  wpc,        \* where each worker is
  wmsg,       \* the queue entry it is handling, or NULL
  wres,       \* res, what its handler is going to return
  backlog,    \* connections waiting to be accepted
  inbox,      \* for each connection, what the client sent and nobody read
  outbox,     \* for each connection, what the server sent and nobody read
  closed      \* connections closed by the client

UL == INSTANCE UserList WITH User <- Conn
MQ == INSTANCE MessageQueue WITH
        Item <- [fd : Fd, type : Plain \cup Secure, from : Conn,
                 seq : Nat, arg : Name \cup {NoName}],
        Consumer <- Worker, MaxSize <- MaxQueue

listVars    == <<heap, byName, byFd, refs, uname, ustate, fdOf, held>>
queueVars   == <<msgQueue, sleeping>>
peerVars    == <<opponent, session>>
mainVars    == <<mpc, active, ready, cursor>>
workerVars  == <<wpc, wmsg, wres>>
networkVars == <<backlog, inbox, outbox, closed>>
serverVars  == <<listVars, queueVars, lockOwner, peerVars, mainVars,
                 workerVars, networkVars>>

(* Where a worker can be between two steps.                                *)
Handler == Plain \cup Secure
WorkerPc ==
  Handler \cup
  {"pull", "get", "lock", "dispatch",           \* worker, handleMessage
   "reg_exists", "reg_add",                     \* handleRegisterMessage
   "dl", "dl_opponent", "dl_own",               \* doubleLock
   "chl_check", "chl_forward", "chl_self",      \* handleChallengeMessage
   "rsp_check", "rsp_start", "rsp_reject",      \* handleChallengeResponse...
   "rsp_self", "rsp_none",
   "du", "du_opponent", "du_own", "give_back",  \* doubleUnlock, yield
   "unlock", "fail", "yield"}

ServerTypeOK ==
  /\ UL!UserListTypeOK
  /\ lockOwner \in [Conn -> Worker \cup {NULL}]
  /\ opponent \in [Conn -> Name \cup {NoName}]
  /\ \A c \in Conn : /\ session[c].hello \in Conn \cup {NULL}
                     /\ session[c].auth \in BOOLEAN
                     /\ session[c].recvSeq \in Nat
  /\ mpc \in {"select", "scan", "check", "drop", "read", "yield", "exists",
              "crashed"}
  /\ active \subseteq Fd /\ ready \subseteq Fd \cup {ListenFd}
  /\ cursor \in Fd \cup {ListenFd - 1, ListenFd}
  /\ wpc \in [Worker -> WorkerPc]
  /\ wres \in [Worker -> BOOLEAN]
  /\ \A w \in Worker : wmsg[w] = NULL <=> wpc[w] = "pull"
  /\ Len(msgQueue) <= MaxQueue

-----------------------------------------------------------------------------
(* Initial state: nobody connected.  LoggedIn(L) is the state in which the *)
(* connections of the sequence L have logged in one after the other, every *)
(* message of theirs is handled and every thread is idle again.            *)
LoggedIn(L) ==
  LET S      == {L[i] : i \in DOMAIN L}
      pos(c) == CHOOSE i \in DOMAIN L : L[i] = c
  IN
  /\ heap   = [c \in Conn |-> IF c \in S THEN "live" ELSE "unborn"]
  /\ byName = [n \in Name |-> IF \E c \in S : NameOf[c] = n
                               THEN CHOOSE c \in S : NameOf[c] = n ELSE NULL]
  /\ byFd   = [f \in Fd |-> IF f \in DOMAIN L THEN L[f] ELSE NULL]
  /\ refs   = [c \in Conn |-> 0]
  /\ uname  = [c \in Conn |-> IF c \in S THEN NameOf[c] ELSE NoName]
  /\ ustate = [c \in Conn |-> IF c \in S THEN "AVAILABLE" ELSE "JUST_CONNECTED"]
  /\ fdOf   = [c \in Conn |-> IF c \in S THEN pos(c) ELSE NULL]
  /\ held   = [r \in Ref |-> NULL]
  /\ msgQueue = <<>> /\ sleeping = {}
  /\ lockOwner = [c \in Conn |-> NULL]
  /\ opponent  = [c \in Conn |-> NoName]
  /\ session   = [c \in Conn |->
                    [hello |-> IF c \in S THEN c ELSE NULL,
                     auth |-> c \in S,
                     recvSeq |-> IF c \in S THEN 1 ELSE 0]]
  /\ mpc = "select" /\ active = DOMAIN L /\ ready = {} /\ cursor = ListenFd - 1
  /\ wpc  = [w \in Worker |-> "pull"]
  /\ wmsg = [w \in Worker |-> NULL]
  /\ wres = [w \in Worker |-> TRUE]
  /\ backlog = <<>>
  /\ inbox  = [c \in Conn |-> <<>>]
  /\ outbox = [c \in Conn |-> <<>>]
  /\ closed = {}

-----------------------------------------------------------------------------
(* Sending to a client.  A send to an open connection succeeds; one to a   *)
(* connection the client has closed may still be taken by the kernel.      *)
(* (When the peer's reset has arrived twice over, send raises SIGPIPE,     *)
(* which ends the program: behaviours just stop there.)                    *)
SendOutcome(c) == IF c \in closed THEN BOOLEAN ELSE {TRUE}

Sends(box, c, msgs) == IF c \in closed THEN box ELSE [box EXCEPT ![c] = @ \o msgs]

Reply(type)    == <<[type |-> type, arg |-> NoName]>>
Cancel(n)      == <<[type |-> "GAME_CANCEL", arg |-> n]>>
Start(n)       == <<[type |-> "GAME_START", arg |-> n]>>
Forward(n)     == <<[type |-> "CHALLENGE_FWD", arg |-> n]>>

Goto(w, pc) == wpc' = [wpc EXCEPT ![w] = pc]
Result(w, res) == wres' = [wres EXCEPT ![w] = res]

(* SetStates of one and of two users; in between, the bug of forgetting    *)
(* the opponent.                                                           *)
SetState(c, s) == UL!SetStates([x \in {c} |-> s])
SetOwnOnly(c, s, d, t) == SetState(c, s)
SetBoth(c, s, d, t) == UL!SetStates([x \in {c, d} |-> IF x = c THEN s ELSE t])

-----------------------------------------------------------------------------
(* The main thread.                                                        *)

(* Open client sockets that have something to read, or an end of file.     *)
Readable(f) ==
  \E c \in Conn : heap[c] = "live" /\ fdOf[c] = f /\ (inbox[c] # <<>> \/ c \in closed)

(* select: EBADF if a descriptor of the set was closed by the destructor   *)
(* of its User, and then the set is cleaned; otherwise the ready ones.     *)
SelectBadFd ==
  /\ mpc = "select"
  /\ ~ active \subseteq UL!OpenFds
  /\ active' = {f \in active : byFd[f] # NULL}
  /\ UNCHANGED <<mpc, ready, cursor, listVars, queueVars, backlog, inbox>>

SelectReady ==
  LET now == {f \in active : Readable(f)} \cup
             (IF backlog # <<>> THEN {ListenFd} ELSE {})
  IN
  /\ mpc = "select"
  /\ active \subseteq UL!OpenFds
  /\ now # {}
  /\ ready' = now
  /\ mpc' = "scan"
  /\ UNCHANGED <<active, cursor, listVars, queueVars, backlog, inbox>>

(* The scan visits descriptors in increasing order and has something to do *)
(* at the ready ones, and at active ones whose user is gone.               *)
Stale(f)  == f \in active \ ready /\ byFd[f] = NULL
IsNext(f) ==
  /\ mpc = "scan"
  /\ f > cursor
  /\ f \in ready \/ Stale(f)
  /\ \A g \in Fd \cup {ListenFd} : g > cursor /\ g < f => ~(g \in ready \/ Stale(g))

LowestFreeFd == CHOOSE f \in Fd \ UL!OpenFds : \A g \in Fd \ UL!OpenFds : f <= g

ScanAccept ==
  /\ IsNext(ListenFd)
  /\ UL!Accept(Head(backlog), LowestFreeFd)
  /\ backlog' = Tail(backlog)
  /\ active' = active \cup {LowestFreeFd}
  /\ cursor' = ListenFd
  /\ UNCHANGED <<mpc, ready, queueVars, inbox>>

(* A ready descriptor: its user is looked up and used without a test for   *)
(* NULL, which ends the program.                                           *)
ScanGet(f) ==
  /\ IsNext(f) /\ f \in ready
  /\ UL!GetByFd(MyUser(Main), f)
  /\ cursor' = f
  /\ mpc' = IF byFd[f] = NULL THEN "crashed" ELSE "check"
  /\ UNCHANGED <<active, ready, queueVars, backlog, inbox>>

ScanClear(f) ==
  /\ IsNext(f) /\ f \notin ready
  /\ active' = active \ {f}
  /\ cursor' = f
  /\ UNCHANGED <<mpc, ready, listVars, queueVars, backlog, inbox>>

(* The scan's own variables are dead after it and get their first values.  *)
ScanEnd ==
  /\ mpc = "scan"
  /\ \A f \in Fd \cup {ListenFd} : ~ IsNext(f)
  /\ mpc' = "select"
  /\ ready' = {} /\ cursor' = ListenFd - 1
  /\ UNCHANGED <<active, listVars, queueVars, backlog, inbox>>

(* The state is read without the user's lock.                              *)
CheckState ==
  /\ mpc = "check"
  /\ mpc' = IF ustate[held[MyUser(Main)]] = "DISCONNECTED" THEN "drop" ELSE "read"
  /\ UNCHANGED <<active, ready, cursor, listVars, queueVars, backlog, inbox>>

DropDisconnected ==
  /\ mpc = "drop"
  /\ UL!Yield(MyUser(Main))
  /\ active' = active \ {cursor}
  /\ mpc' = "scan"
  /\ UNCHANGED <<ready, cursor, queueVars, backlog, inbox>>

(* A message is read and queued under the descriptor it came from; whether *)
(* the queue took it is ignored.  (Partial reads change nothing here.)  If *)
(* neither data nor an end of file is there, the read blocks.              *)
ReadMessage ==
  LET c == held[MyUser(Main)]
      m == Head(inbox[c])
  IN
  /\ mpc = "read"
  /\ inbox[c] # <<>>
  /\ inbox' = [inbox EXCEPT ![c] = Tail(@)]
  /\ MQ!PushSignal([fd |-> cursor, type |-> m.type, from |-> c,
                    seq |-> m.seq, arg |-> m.arg])
  /\ mpc' = "yield"
  /\ UNCHANGED <<active, ready, cursor, listVars, backlog>>

ReadEof ==
  LET c == held[MyUser(Main)] IN
  /\ mpc = "read"
  /\ inbox[c] = <<>> /\ c \in closed
  /\ SetState(c, "DISCONNECTED")
  /\ mpc' = "yield"
  /\ UNCHANGED <<active, ready, cursor, queueVars, backlog, inbox>>

MainYield ==
  /\ mpc = "yield"
  /\ UL!Yield(MyUser(Main))
  /\ mpc' = "exists"
  /\ UNCHANGED <<active, ready, cursor, queueVars, backlog, inbox>>

MainExists ==
  /\ mpc = "exists"
  /\ active' = IF byFd[cursor] = NULL THEN active \ {cursor} ELSE active
  /\ mpc' = "scan"
  /\ UNCHANGED <<ready, cursor, listVars, queueVars, backlog, inbox>>

MainStep ==
  /\ \/ SelectBadFd \/ SelectReady
     \/ ScanAccept \/ ScanEnd
     \/ \E f \in Fd : ScanGet(f) \/ ScanClear(f)
     \/ CheckState \/ DropDisconnected
     \/ ReadMessage \/ ReadEof
     \/ MainYield \/ MainExists
  /\ UNCHANGED <<lockOwner, peerVars, workerVars, outbox, closed>>

-----------------------------------------------------------------------------
(* The workers.  Every action below leaves the main thread's variables and *)
(* the clients' side of the network alone; WorkerStep says so for all.     *)
At(w, pc) == wpc[w] = pc
U(w) == held[MyUser(w)]
O(w) == held[Opponent(w)]

(* Mutexes; around the definitions, the bugs of going on without the mutex *)
(* and of forgetting to unlock it.                                         *)
NotWaiting(w, c) == lockOwner' = [lockOwner EXCEPT ![c] = w]
Acquire(w, c) ==
  /\ lockOwner[c] = NULL
  /\ lockOwner' = [lockOwner EXCEPT ![c] = w]
KeepLocked(c) == UNCHANGED lockOwner
Release(c) == lockOwner' = [lockOwner EXCEPT ![c] = NULL]

(* handleMessage leaves its switch with the given result.                  *)
Finish(w, res) == Goto(w, "unlock") /\ Result(w, res)

Pull(w) ==
  /\ At(w, "pull")
  /\ \/ /\ MQ!PullItem(w)
        /\ wmsg' = [wmsg EXCEPT ![w] = Head(msgQueue)]
        /\ Goto(w, "get")
     \/ MQ!PullSleep(w) /\ UNCHANGED <<wpc, wmsg>>
  /\ UNCHANGED <<listVars, lockOwner, peerVars, wres, outbox>>

SpuriousWakeup(w) ==
  /\ MQ!SpuriousWakeup(w)
  /\ UNCHANGED <<listVars, lockOwner, peerVars, workerVars, outbox>>

(* The user is looked up by the descriptor the message was read from; if   *)
(* there is none any more, the message is dropped.                         *)
Get(w) ==
  /\ At(w, "get")
  /\ UL!GetByFd(MyUser(w), wmsg[w].fd)
  /\ IF byFd[wmsg[w].fd] = NULL
       THEN Goto(w, "pull") /\ wmsg' = [wmsg EXCEPT ![w] = NULL]
       ELSE Goto(w, "lock") /\ UNCHANGED wmsg
  /\ UNCHANGED <<queueVars, lockOwner, peerVars, wres, outbox>>

Lock(w) ==
  /\ At(w, "lock")
  /\ Acquire(w, U(w))
  /\ Goto(w, "dispatch")
  /\ UNCHANGED <<listVars, queueVars, peerVars, wmsg, wres, outbox>>

(* SecureSocketWrapper::handleMsg.  A secure message is decrypted with the *)
(* session's keys and the receiver's sequence number, so it must have been *)
(* made by this connection's client and be the next one.  (cl_nonce = 0    *)
(* stands for "no hello yet"; a random nonce is taken not to be 0.)        *)
Legible(c, m) ==
  \/ m.type = "CERT_REQ"
  \/ m.type = "CLIENT_HELLO" /\ session[c].hello = NULL /\ ~session[c].auth
  \/ m.type = "CLIENT_VERIFY" /\ ~session[c].auth
  \/ /\ m.type \in Secure
     /\ session[c].auth
     /\ m.from = c /\ m.seq = session[c].recvSeq

(* What handleMessage handles in each state.                               *)
Expected ==
  [JUST_CONNECTED     |-> Plain,
   SECURELY_CONNECTED |-> {"REGISTER"},
   AVAILABLE          |-> {"CHALLENGE", "USERS_LIST_REQ"},
   CHALLENGED         |-> {"ACCEPT", "REJECT"},
   PLAYING            |-> {"GAME_END"},
   DISCONNECTED       |-> {}]

(* A message that handleMsg rejects makes handleMessage return at once,    *)
(* with the user's mutex still locked.                                     *)
Dispatch(w) ==
  LET c == U(w)
      m == wmsg[w]
  IN
  /\ At(w, "dispatch")
  /\ IF ~Legible(c, m)
       THEN Goto(w, "fail") /\ UNCHANGED <<session, wres>>
       ELSE /\ session' = IF m.type \in Secure
                            THEN [session EXCEPT ![c].recvSeq = @ + 1]
                            ELSE session
            /\ Goto(w, IF m.type \in Expected[ustate[c]] THEN m.type ELSE "unlock")
            /\ Result(w, TRUE)
  /\ UNCHANGED <<listVars, queueVars, lockOwner, opponent, wmsg, outbox>>

Unlock(w) ==
  /\ At(w, "unlock")
  /\ Release(U(w))
  /\ Goto(w, IF wres[w] THEN "yield" ELSE "fail")
  /\ UNCHANGED <<listVars, queueVars, peerVars, wmsg, wres, outbox>>

(* The worker's own setState(DISCONNECTED), outside the lock.              *)
Fail(w) ==
  /\ At(w, "fail")
  /\ SetState(U(w), "DISCONNECTED")
  /\ Goto(w, "yield")
  /\ UNCHANGED <<queueVars, lockOwner, peerVars, wmsg, wres, outbox>>

YieldUser(w) ==
  /\ At(w, "yield")
  /\ UL!Yield(MyUser(w))
  /\ wmsg' = [wmsg EXCEPT ![w] = NULL]
  /\ Goto(w, "pull") /\ Result(w, TRUE)
  /\ UNCHANGED <<queueVars, lockOwner, peerVars, outbox>>

-----------------------------------------------------------------------------
(* Handlers of the handshake and of registration.                          *)
CertReq(w) ==
  /\ At(w, "CERT_REQ")
  /\ outbox' = Sends(outbox, U(w), Reply("CERTIFICATE"))
  /\ \E ok \in SendOutcome(U(w)) :
       /\ Finish(w, ok)
       /\ IF ok THEN UNCHANGED listVars ELSE SetState(U(w), "DISCONNECTED")
  /\ UNCHANGED peerVars

(* The answer is made from the hello that was received.                    *)
ClientHello(w) ==
  LET from == wmsg[w].from IN
  /\ At(w, "CLIENT_HELLO")
  /\ session' = [session EXCEPT ![U(w)].hello = from]
  /\ outbox' = Sends(outbox, U(w), <<[type |-> "SERVER_HELLO", arg |-> from]>>)
  /\ \E ok \in SendOutcome(U(w)) : Finish(w, ok)
  /\ UNCHANGED <<listVars, opponent>>

(* The signature covers both hellos of this connection; the first          *)
(* definition is the bug of not checking it.                               *)
SignatureIgnored(c, from) == TRUE
SignatureOK(c, from) == session[c].hello = c /\ from = c

ClientVerify(w) ==
  LET c == U(w)
      ok == SignatureOK(c, wmsg[w].from)
  IN
  /\ At(w, "CLIENT_VERIFY")
  /\ session' = IF ok THEN [session EXCEPT ![c].auth = TRUE] ELSE session
  /\ SetState(c, IF ok THEN "SECURELY_CONNECTED" ELSE "DISCONNECTED")
  /\ Finish(w, ok)
  /\ UNCHANGED <<opponent, outbox>>

(* The username is set before it is known to be free; its certificate test *)
(* compares with the server's own name, which is no user's.                *)
Register(w) ==
  /\ At(w, "REGISTER")
  /\ UL!SetUsername(U(w), wmsg[w].arg)
  /\ Goto(w, "reg_exists")
  /\ UNCHANGED <<peerVars, wres, outbox>>

RegisterExists(w) ==
  /\ At(w, "reg_exists")
  /\ IF byName[uname[U(w)]] = NULL
       THEN SetState(U(w), "AVAILABLE") /\ Goto(w, "reg_add") /\ UNCHANGED wres
       ELSE SetState(U(w), "DISCONNECTED") /\ Finish(w, FALSE)
  /\ UNCHANGED <<peerVars, outbox>>

RegisterAdd(w) ==
  /\ At(w, "reg_add")
  /\ UL!AddNamed(U(w))
  /\ Finish(w, TRUE)
  /\ UNCHANGED <<peerVars, outbox>>

-----------------------------------------------------------------------------
(* doubleLock and doubleUnlock: a worker that has locked u takes the mutex *)
(* of o as well, or gives it back, in the order of the usernames.  The     *)
(* first definition is the bug of locking in the order of arrival.         *)
NeverFirst(u, o) == FALSE
OtherFirst(u, o) == uname[o] < uname[u]

AfterDoubleLock ==
  [CHALLENGE |-> "chl_check", ACCEPT |-> "rsp_check", REJECT |-> "rsp_reject"]

DoubleLock(w) ==
  /\ \/ /\ At(w, "dl") /\ OtherFirst(U(w), O(w))
        /\ Release(U(w))
        /\ Goto(w, "dl_opponent")
     \/ /\ At(w, "dl") /\ ~OtherFirst(U(w), O(w))
        /\ Acquire(w, O(w))
        /\ Goto(w, AfterDoubleLock[wmsg[w].type])
     \/ /\ At(w, "dl_opponent")
        /\ Acquire(w, O(w))
        /\ Goto(w, "dl_own")
     \/ /\ At(w, "dl_own")
        /\ Acquire(w, U(w))
        /\ Goto(w, AfterDoubleLock[wmsg[w].type])
  /\ UNCHANGED <<listVars, queueVars, peerVars, wmsg, wres, outbox>>

DoubleUnlock(w) ==
  /\ \/ /\ At(w, "du") /\ OtherFirst(U(w), O(w))
        /\ Release(U(w))
        /\ Goto(w, "du_opponent")
     \/ /\ At(w, "du") /\ ~OtherFirst(U(w), O(w))
        /\ Release(O(w))
        /\ Goto(w, "give_back")
     \/ /\ At(w, "du_opponent")
        /\ Release(O(w))
        /\ Goto(w, "du_own")
     \/ /\ At(w, "du_own")
        /\ Acquire(w, U(w))
        /\ Goto(w, "give_back")
  /\ UNCHANGED <<listVars, queueVars, peerVars, wmsg, wres, outbox>>

GiveBack(w) ==
  /\ At(w, "give_back")
  /\ UL!Yield(Opponent(w))
  /\ Goto(w, "unlock")
  /\ UNCHANGED <<peerVars, wres, outbox>>

-----------------------------------------------------------------------------
(* Handlers of the lobby.                                                  *)
UsersListReq(w) ==
  /\ At(w, "USERS_LIST_REQ")
  /\ outbox' = Sends(outbox, U(w), Reply("USERS_LIST"))
  /\ \E ok \in SendOutcome(U(w)) : Finish(w, ok)
  /\ UNCHANGED <<listVars, peerVars>>

GameEnd(w) ==
  /\ At(w, "GAME_END")
  /\ SetState(U(w), "AVAILABLE")
  /\ Finish(w, TRUE)
  /\ UNCHANGED <<peerVars, outbox>>

(* Whether a user looked up by name is the one whose message is handled;   *)
(* the first definition is the bug of not asking.                          *)
NeverItself(w, c) == FALSE
Itself(w, c) == c = U(w)

(* The challenged user is looked up by name.  Nobody, or the challenger,   *)
(* cancels the game; in the second case the reference that the lookup took *)
(* is never given back.                                                    *)
Challenge(w) ==
  LET n == wmsg[w].arg IN
  /\ At(w, "CHALLENGE")
  /\ UL!GetByName(Opponent(w), n)
  /\ \/ /\ byName[n] = NULL
        /\ outbox' = Sends(outbox, U(w), Cancel(n))
        /\ \E ok \in SendOutcome(U(w)) : Finish(w, ok)
     \/ /\ Itself(w, byName[n]) /\ Goto(w, "chl_self")
        /\ UNCHANGED <<wres, outbox>>
     \/ /\ byName[n] # NULL /\ ~Itself(w, byName[n]) /\ Goto(w, "dl")
        /\ UNCHANGED <<wres, outbox>>
  /\ UNCHANGED peerVars

ChallengeSelf(w) ==
  /\ At(w, "chl_self")
  /\ UL!Forget(Opponent(w))
  /\ outbox' = Sends(outbox, U(w), Cancel(wmsg[w].arg))
  /\ \E ok \in SendOutcome(U(w)) : Finish(w, ok)
  /\ UNCHANGED peerVars

(* With both users locked, their states are looked at again; the first     *)
(* definition is the bug of trusting what was seen before doubleLock.      *)
StaleAvailable(c) == TRUE
StillAvailable(c) == ustate[c] = "AVAILABLE"

ChallengeCheck(w) ==
  LET u == U(w)
      o == O(w)
  IN
  /\ At(w, "chl_check")
  /\ \/ /\ ~StillAvailable(u)
        /\ Goto(w, "du") /\ Result(w, TRUE)
        /\ UNCHANGED outbox
     \/ /\ StillAvailable(u) /\ ~StillAvailable(o)
        /\ outbox' = Sends(outbox, u, Cancel(wmsg[w].arg))
        /\ \E ok \in SendOutcome(u) : Result(w, ok)
        /\ Goto(w, "du")
     \/ /\ StillAvailable(u) /\ StillAvailable(o)
        /\ Goto(w, "chl_forward")
        /\ UNCHANGED <<wres, outbox>>
  /\ UNCHANGED <<listVars, peerVars>>

ChallengeForward(w) ==
  LET u == U(w)
      o == O(w)
  IN
  /\ At(w, "chl_forward")
  /\ \E ok \in SendOutcome(o) :
       IF ok
       THEN /\ outbox' = Sends(outbox, o, Forward(uname[u]))
            /\ SetBoth(u, "CHALLENGED", o, "CHALLENGED")
            /\ opponent' = [opponent EXCEPT ![u] = uname[o], ![o] = uname[u]]
            /\ Result(w, TRUE)
       ELSE /\ outbox' = Sends(outbox, u, Cancel(wmsg[w].arg))
            /\ SetState(o, "DISCONNECTED")
            /\ \E res \in SendOutcome(u) : Result(w, res)
            /\ UNCHANGED opponent
  /\ Goto(w, "du")
  /\ UNCHANGED session

-----------------------------------------------------------------------------
(* The answer to a challenge.  The opponent is whoever has the name kept   *)
(* in opponent_username now.  (Every username has a certificate here, so   *)
(* the look-ups in cert_map succeed.)                                      *)
Respond(w) ==
  LET n == opponent[U(w)] IN
  /\ wpc[w] \in {"ACCEPT", "REJECT"}
  /\ UL!GetByName(Opponent(w), n)
  /\ Goto(w, IF byName[n] = NULL THEN "rsp_none"
             ELSE IF Itself(w, byName[n]) THEN "rsp_self" ELSE "dl")
  /\ UNCHANGED <<peerVars, wres, outbox>>

RespondSelf(w) ==
  /\ At(w, "rsp_self")
  /\ UL!Forget(Opponent(w))
  /\ Goto(w, "rsp_none")
  /\ UNCHANGED <<peerVars, wres, outbox>>

RespondNone(w) ==
  /\ At(w, "rsp_none")
  /\ SetState(U(w), "AVAILABLE")
  /\ outbox' = Sends(outbox, U(w), Cancel(opponent[U(w)]))
  /\ \E ok \in SendOutcome(U(w)) : Finish(w, ok)
  /\ UNCHANGED peerVars

(* Only an acceptance looks at the states again.  Neither user's opponent  *)
(* name is compared with the other user.                                   *)
AcceptCheck(w) ==
  LET u == U(w)
      o == O(w)
  IN
  /\ At(w, "rsp_check")
  /\ \/ /\ ustate[u] # "CHALLENGED"
        /\ Goto(w, "du") /\ Result(w, TRUE)
        /\ UNCHANGED outbox
     \/ /\ ustate[u] = "CHALLENGED" /\ ustate[o] # "CHALLENGED"
        /\ outbox' = Sends(outbox, u, Cancel(uname[o]))
        /\ \E ok \in SendOutcome(u) : Result(w, ok)
        /\ Goto(w, "du")
     \/ /\ ustate[u] = "CHALLENGED" /\ ustate[o] = "CHALLENGED"
        /\ Goto(w, "rsp_start")
        /\ UNCHANGED <<wres, outbox>>
  /\ UNCHANGED <<listVars, peerVars>>

(* GAME_START to both, and what is done when a send fails.  When only the  *)
(* send to u failed, the handler returns an uninitialized variable.        *)
StartGame(w) ==
  LET u == U(w)
      o == O(w)
      start == Sends(Sends(outbox, u, Start(uname[o])), o, Start(uname[u]))
  IN
  /\ At(w, "rsp_start")
  /\ \E okU \in SendOutcome(u), okO \in SendOutcome(o) :
       \/ /\ okU /\ okO
          /\ SetBoth(u, "PLAYING", o, "PLAYING")
          /\ outbox' = start /\ Result(w, TRUE)
       \/ /\ ~okU /\ ~okO
          /\ SetBoth(u, "DISCONNECTED", o, "DISCONNECTED")
          /\ outbox' = start /\ Result(w, FALSE)
       \/ /\ ~okU /\ okO
          /\ outbox' = Sends(start, o, Cancel(uname[u]))
          /\ \E ok \in SendOutcome(o) :
               SetState(o, IF ok THEN "AVAILABLE" ELSE "DISCONNECTED")
          /\ \E res \in BOOLEAN : Result(w, res)
       \/ /\ okU /\ ~okO
          /\ outbox' = Sends(start, u, Cancel(uname[o]))
          /\ \E ok \in SendOutcome(u) :
               /\ SetState(u, IF ok THEN "AVAILABLE" ELSE "DISCONNECTED")
               /\ Result(w, ok)
  /\ Goto(w, "du")
  /\ UNCHANGED peerVars

(* A rejection frees both users; its result is an uninitialized variable.  *)
RejectChallenge(w) ==
  LET u == U(w)
      o == O(w)
  IN
  /\ At(w, "rsp_reject")
  /\ outbox' = Sends(outbox, o, Cancel(uname[u]))
  /\ \E ok \in SendOutcome(o) :
       SetBoth(u, "AVAILABLE", o, IF ok THEN "AVAILABLE" ELSE "DISCONNECTED")
  /\ \E res \in BOOLEAN : Result(w, res)
  /\ Goto(w, "du")
  /\ UNCHANGED peerVars

(* The steps of a message handler, and all the steps of a worker.         *)
HandlerStep(w) ==
  /\ \/ CertReq(w) \/ ClientHello(w) \/ ClientVerify(w)
     \/ Register(w) \/ RegisterExists(w) \/ RegisterAdd(w)
     \/ UsersListReq(w) \/ GameEnd(w)
     \/ Challenge(w) \/ ChallengeSelf(w) \/ ChallengeCheck(w) \/ ChallengeForward(w)
     \/ Respond(w) \/ RespondSelf(w) \/ RespondNone(w)
     \/ AcceptCheck(w) \/ StartGame(w) \/ RejectChallenge(w)
     \/ GiveBack(w)
  /\ UNCHANGED <<queueVars, lockOwner, wmsg>>

WorkerStep(w) ==
  /\ \/ Pull(w) \/ Get(w) \/ Lock(w) \/ Dispatch(w)
     \/ DoubleLock(w) \/ DoubleUnlock(w)
     \/ HandlerStep(w)
     \/ Unlock(w) \/ Fail(w) \/ YieldUser(w)
  /\ mpc # "crashed"
  /\ UNCHANGED <<mainVars, backlog, inbox, closed>>

WakeUp(w) ==
  /\ SpuriousWakeup(w)
  /\ mpc # "crashed"
  /\ UNCHANGED <<mainVars, backlog, inbox, closed>>

ServerStep == MainStep \/ \E w \in Worker : WorkerStep(w) \/ WakeUp(w)

-----------------------------------------------------------------------------
(* The mutexes a worker should hold where it is in its code, and the one   *)
(* it is waiting for.                                                      *)
HoldsNone == {"pull", "get", "lock", "fail", "yield", "dl_opponent", "du_own"}
HoldsOther == {"chl_check", "chl_forward", "rsp_check", "rsp_start",
               "rsp_reject", "du", "du_opponent", "dl_own"}

Holding(w) ==
  (IF wpc[w] \in HoldsNone \cup {"dl_own", "du_opponent"} THEN {} ELSE {U(w)}) \cup
  (IF wpc[w] \in HoldsOther THEN {O(w)} ELSE {})

WaitsFor(w) ==
  CASE wpc[w] \in {"lock", "dl_own", "du_own"} -> {U(w)}
    [] wpc[w] = "dl_opponent" \/ (wpc[w] = "dl" /\ ~OtherFirst(U(w), O(w))) -> {O(w)}
    [] OTHER -> {}

(* NoDeadlyEmbrace: there is no set of workers each of which waits for a   *)
(* mutex that one of them is using.  This is what doubleLock and           *)
(* doubleUnlock are for ("prevent deadlocks", server.cpp:56 and 67), and   *)
(* why a user's answer to itself is handled apart (104, 163).              *)
NoDeadlyEmbrace ==
  \A W \in (SUBSET Worker) \ {{}} :
    \E w \in W : \A v \in W : WaitsFor(w) \cap Holding(v) = {}

(* PointersKept: between looking a user up and giving the reference back a *)
(* worker points to a user, and at no other time, and the opponent it      *)
(* works on is another user; so every call it makes obeys the list's       *)
(* contract (get into an empty pointer, yield and setState of a user).     *)
HasOpponent == {"dl", "dl_opponent", "dl_own", "chl_check", "chl_forward",
                "chl_self", "rsp_check", "rsp_start", "rsp_reject", "rsp_self",
                "du", "du_opponent", "du_own", "give_back"}
PointersKept ==
  /\ \A w \in Worker :
       /\ U(w) = NULL <=> wpc[w] \in {"pull", "get"}
       /\ O(w) = NULL <=> wpc[w] \notin HasOpponent
       /\ wpc[w] \in HasOpponent => (O(w) = U(w) <=> wpc[w] \in {"chl_self", "rsp_self"})
       /\ wpc[w] = "REGISTER" => uname[U(w)] = NoName
  /\ held[MyUser(Main)] # NULL <=> mpc \in {"check", "drop", "read", "yield"}

(* PairsAgree: as long as a user whose client is there is CHALLENGED, the  *)
(* user named as its opponent is CHALLENGED by it in turn, or disconnected *)
(* or gone: concurrent challenges never leave a user waiting for somebody  *)
(* who is free or paired with a third (server.cpp:111-135, 217-255).       *)
PairsAgree ==
  \A c \in Conn \ closed : heap[c] = "live" /\ ustate[c] = "CHALLENGED" =>
    \E d \in Conn \ {c} :
      /\ uname[d] = opponent[c]
      /\ \/ heap[d] = "deleted" \/ ustate[d] = "DISCONNECTED"
         \/ ustate[d] = "CHALLENGED" /\ opponent[d] = uname[c]

(* PairsMoveTogether: two users become CHALLENGED in one step, each by the *)
(* other, and from being neither challenged nor playing; and a game starts *)
(* for both in one step, between two users who were challenged by each     *)
(* other.  The code takes both from four records that other threads write, *)
(* and never compares the opponents' names (server.cpp:111-135, 172-220).  *)
Paired(c, d) == opponent[c] = uname[d] /\ opponent[d] = uname[c]
Becomes(c, s) == ustate[c] # s /\ ustate'[c] = s

PairsMoveTogether ==
  [][\A c \in Conn :
       /\ Becomes(c, "CHALLENGED") =>
            \E d \in Conn \ {c} :
              /\ Becomes(d, "CHALLENGED") /\ Paired(c, d)'
              /\ {ustate[c], ustate[d]} \cap {"CHALLENGED", "PLAYING"} = {}
       /\ Becomes(c, "PLAYING") =>
            \E d \in Conn \ {c} :
              /\ Becomes(d, "PLAYING") /\ Paired(c, d)
              /\ ustate[c] = "CHALLENGED" /\ ustate[d] = "CHALLENGED"]_serverVars

(* StatesMoveTogether: the same of every client there can be, patient or   *)
(* not, alone in its name or not: two users become CHALLENGED in one step  *)
(* and by each other, two become PLAYING in one step, and the states that  *)
(* were looked at under both locks are the ones that are changed, except   *)
(* that another thread may have written DISCONNECTED without any lock      *)
(* (server.cpp:111-135, 208-232, 402-405, 530-535).                        *)
StatesMoveTogether ==
  [][\A c \in Conn :
       /\ Becomes(c, "CHALLENGED") =>
            \E d \in Conn \ {c} :
              /\ ustate'[d] = "CHALLENGED" /\ Paired(c, d)'
              /\ {ustate[c], ustate[d]} \subseteq {"AVAILABLE", "DISCONNECTED"}
       /\ Becomes(c, "PLAYING") =>
            \E d \in Conn \ {c} :
              /\ ustate'[d] = "PLAYING"
              /\ {ustate[c], ustate[d]} \subseteq {"CHALLENGED", "DISCONNECTED"}]_serverVars

-----------------------------------------------------------------------------
(* What the documentation says and the code does not do.                   *)

(* MutexesReleased: "Once the message handling is completed [...] the User *)
(* mutex unlocked" (implementation.tex:164-165): a worker owns no mutex    *)
(* beyond those its current handler uses.  handleMessage returns without   *)
(* unlocking when handleMsg rejects a message (server.cpp:311-312).        *)
MutexesReleased ==
  \A c \in Conn, w \in Worker : lockOwner[c] = w => c \in Holding(w)

(* DisconnectedIsFinal: a disconnected "User instance is waiting to be     *)
(* destroyed" (implementation.tex:149-150): nothing brings it back.        *)
DisconnectedIsFinal ==
  [][\A c \in Conn : ustate[c] = "DISCONNECTED" => ustate'[c] = "DISCONNECTED"]_ustate

(* NamedAreFound: the list "keeps track of connected users through two     *)
(* hash maps (one by username) and one by file descriptor" (user_list.h:26 *)
(* and 27): whoever is past its registration is found under its name.      *)
NamedAreFound ==
  \A c \in Conn :
    /\ heap[c] = "live" /\ ustate[c] \in {"AVAILABLE", "CHALLENGED", "PLAYING"}
    /\ \A w \in Worker : At(w, "reg_add") => U(w) # c
    => byName[uname[c]] = c
=============================================================================
