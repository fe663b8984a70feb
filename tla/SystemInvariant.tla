--------------------------- MODULE SystemInvariant ---------------------------
(***************************************************************************)
(* The inductive invariant of System.  No part of it is about one thread:  *)
(* what a worker may rely on (that it has the mutex, that the user it      *)
(* points to has a name, that nobody registers this user a second time)    *)
(* is what the other workers, the main thread and the clients leave alone. *)
(***************************************************************************)
EXTENDS System

(* Where a worker is past the registration of its user, and where it is in *)
(* the registration.                                                       *)
RegisteredPc == HasOpponent \cup
  {"reg_exists", "reg_add", "USERS_LIST_REQ", "CHALLENGE", "ACCEPT", "REJECT",
   "GAME_END", "rsp_none"}
Registering == {"REGISTER", "reg_exists", "reg_add"}

(* Phases in which the client has not yet accepted the server's hello.     *)
Unverified == {"off", "cert", "hello"}

-----------------------------------------------------------------------------
(* Types, as far as SystemTypeOK leaves them open.                         *)
ClientMessage == [type : Plain \cup Secure, arg : Name \cup {NoName}, seq : Nat]
QueueItem == [fd : Fd, type : Plain \cup Secure, from : Conn,
              seq : Nat, arg : Name \cup {NoName}]

(* The null pointer is not a message either.                               *)
ASSUME NoMessageAssumption == NULL \notin QueueItem

Types ==
  /\ SystemTypeOK
  /\ scenario \in Scenarios
  /\ MQ!QueueTypeOK /\ MQ!NoLostWakeup
  /\ session \in [Conn -> [hello : Conn \cup {NULL}, auth : BOOLEAN, recvSeq : Nat]]
  /\ wmsg \in [Worker -> QueueItem \cup {NULL}]
  /\ inbox \in [Conn -> Seq(ClientMessage)]
  /\ backlog \in Seq(Conn)
  /\ ops \in [Conn -> Nat]
  /\ mpc \in {"check", "drop", "read", "yield", "exists"} => cursor \in Fd
  /\ ListenFd \in ready /\ cursor < ListenFd => backlog # <<>>

(* A worker owns the mutexes that it uses, so two workers never use one.   *)
LocksHeld == \A w \in Worker : \A c \in Holding(w) : lockOwner[c] = w

(* MutualExclusion: no two workers use the mutex of one user, although     *)
(* doubleLock and doubleUnlock give up mutexes in between                  *)
(* (server.cpp:55-75, 302-304).                                            *)
MutualExclusion ==
  \A v, w \in Worker : v # w => Holding(v) \cap Holding(w) = {}

(* What the client c has sent says what c may say.                         *)
Genuine(c, m) ==
  /\ m.type = "CLIENT_VERIFY" => phase[c] \notin Unverified
  /\ m.type = "REGISTER" => m.arg = NameOf[c]
  /\ m.type = "CHALLENGE" => m.arg \in Name

MessagesGenuine ==
  /\ \A c \in Conn : \A i \in DOMAIN inbox[c] : Genuine(c, inbox[c][i])
  /\ \A i \in DOMAIN msgQueue : Genuine(msgQueue[i].from, msgQueue[i])
  /\ \A w \in Worker : wmsg[w] # NULL => Genuine(wmsg[w].from, wmsg[w])

(* A worker handles the message that it took from the queue.               *)
HandlersMatch ==
  \A w \in Worker :
    /\ wpc[w] \in Handler => wmsg[w].type = wpc[w]
    /\ wpc[w] \in {"dl", "dl_opponent", "dl_own"} => wmsg[w].type \in DOMAIN AfterDoubleLock

(* The handshake is over once and for all, and registration follows it.    *)
StagesInOrder ==
  /\ \A w \in Worker :
       /\ wpc[w] \in {"CLIENT_HELLO", "CLIENT_VERIFY"} => ~session[U(w)].auth
       /\ wpc[w] = "REGISTER" => session[U(w)].auth /\ wmsg[w].from = U(w)
       /\ wpc[w] \in RegisteredPc => uname[U(w)] # NoName
       /\ wpc[w] \in HasOpponent => uname[O(w)] # NoName
       /\ wpc[w] \in {"ACCEPT", "REJECT"} => opponent[U(w)] # NoName
  /\ \A c \in Conn :
       /\ ustate[c] \in {"AVAILABLE", "CHALLENGED", "PLAYING"} => uname[c] # NoName
       /\ ustate[c] = "CHALLENGED" => opponent[c] # NoName
       /\ ustate[c] = "SECURELY_CONNECTED" =>
            /\ session[c].auth
            /\ uname[c] # NoName => \E w \in Worker : U(w) = c /\ wpc[w] = "reg_exists"

(* While a worker registers a user no other one handles that user as one   *)
(* who has registered.                                                     *)
RegisteredOnce ==
  \A v, w \in Worker :
    v # w /\ U(v) = U(w) /\ wpc[w] \in Registering => wpc[v] \notin RegisteredPc

SystemInv ==
  /\ Types
  /\ UL!UserListInv
  /\ PointersKept
  /\ LocksHeld
  /\ MessagesGenuine
  /\ HandlersMatch
  /\ AuthenticSession
  /\ StagesInOrder
  /\ RegisteredOnce

-----------------------------------------------------------------------------
(* What a handler has seen of two users under both locks is still so when  *)
(* it changes them, but for a disconnection.                               *)
SeenStates(w, s) == {ustate[U(w)], ustate[O(w)]} \subseteq {s, "DISCONNECTED"}
StatesStillAsSeen ==
  \A w \in Worker :
    /\ wpc[w] = "chl_forward" => SeenStates(w, "AVAILABLE")
    /\ wpc[w] = "rsp_start" => SeenStates(w, "CHALLENGED")

-----------------------------------------------------------------------------
(* Why doubleLock excludes deadlock even between users of one name.        *)

(* Two workers take mutexes against the order of the names only while they *)
(* hold none, or the smaller one.                                          *)
OrderKept ==
  \A w \in Worker : wpc[w] \in {"dl_opponent", "dl_own"} => OtherFirst(U(w), O(w))

(* The worker w works on two different users of the same name.             *)
Namesake(w) ==
  wpc[w] \in HasOpponent /\ O(w) # U(w) /\ uname[O(w)] = uname[U(w)]

(* The user that is found under a name does not look for a namesake.       *)
ListedNeverAsks == \A w \in Worker : Namesake(w) => byName[uname[U(w)]] # U(w)

(* Namesakes do not look for each other in a circle.                       *)
NoCircle ==
  \A W \in (SUBSET Worker) \ {{}} :
    \E w \in W : Namesake(w) => \A v \in W : U(v) # O(w)

LockOrderInv == OrderKept /\ ListedNeverAsks /\ NoCircle
=============================================================================
