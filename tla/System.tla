------------------------------- MODULE System -------------------------------
(***************************************************************************)
(* The server together with its clients, as far as a client's behaviour    *)
(* shows on its connection to the server: src/client/server.cpp (the       *)
(* requests), src/client/server_lobby.cpp (the lobby) and the main loop of *)
(* src/client/client.cpp.  A client is one thread that sends a request and *)
(* waits for certain types of message; any other, and it gives up.  What   *)
(* the person at the keyboard does is a free choice.                       *)
(***************************************************************************)
EXTENDS Server

CONSTANTS
  Scenarios,  \* what the runs start from and how far they go
  NeedsCert,  \* the clients that do not know the server's certificate
  MayQuit,    \* the clients that may exit, or crash, at any moment
  MayList,    \* the clients that may ask for the list of users
  MayFail,    \* the clients that may fail to play a game that was started
  OneLogin    \* a person does not log in again before logging out

ASSUME SystemAssumption ==
  /\ NeedsCert \subseteq Conn /\ MayQuit \subseteq Conn /\ MayList \subseteq Conn
  /\ MayFail \subseteq Conn
  /\ OneLogin \in BOOLEAN
  /\ \A s \in Scenarios :
       /\ s.before \in Seq(Conn) /\ s.paced \in BOOLEAN /\ s.maxOps \in [Conn -> Nat]
       /\ \A i, j \in DOMAIN s.before : s.before[i] = s.before[j] => i = j

VARIABLES
  scenario,  \* the scenario of this behaviour
  phase,     \* where each client is
  sseq,      \* send_seq_num of the client's SecureSocketWrapper
  ops        \* how many lists and challenges it has requested

clientVars == <<phase, sseq, ops>>
vars       == <<serverVars, clientVars, scenario>>

Before == scenario.before  \* the connections that have logged in at the start, in order
Paced  == scenario.paced   \* a client sends nothing while a message of its is in flight
MaxOps == scenario.maxOps  \* bound: how many lists and challenges each client requests

(* What a client in each phase waits for.  "asked" waits for the person,   *)
(* "game" for the game with the peer; neither reads from the server.       *)
Awaited ==
  [off |-> {}, cert |-> {"CERTIFICATE"}, hello |-> {"SERVER_HELLO"},
   lobby |-> {"CHALLENGE_FWD"}, list |-> {"USERS_LIST"},
   challenge |-> {"GAME_START", "GAME_CANCEL"}, asked |-> {},
   replied |-> {"GAME_START", "GAME_CANCEL"}, game |-> {}, gone |-> {}]
Reading == {p \in DOMAIN Awaited : Awaited[p] # {}}

Init ==
  /\ scenario \in Scenarios
  /\ LoggedIn(Before)
  /\ phase = [c \in Conn |-> IF \E i \in DOMAIN Before : Before[i] = c
                             THEN "lobby" ELSE "off"]
  /\ sseq = [c \in Conn |-> session[c].recvSeq]
  /\ ops = [c \in Conn |-> 0]

-----------------------------------------------------------------------------
(* Steps that change only the client c and its end of the connection.      *)
Become(c, p) == phase' = [phase EXCEPT ![c] = p]

ServerRest == <<listVars, queueVars, lockOwner, peerVars, mainVars, workerVars>>

(* Sending: messages that reach a server whose User object is gone vanish. *)
(* Secure messages are numbered by the sender.                             *)
Msg(type, arg, seq) == [type |-> type, arg |-> arg, seq |-> seq]

SendAll(c, msgs) ==
  /\ inbox' = IF heap[c] = "deleted" THEN inbox ELSE [inbox EXCEPT ![c] = @ \o msgs]
  /\ sseq' = [sseq EXCEPT ![c] =
                @ + Cardinality({i \in DOMAIN msgs : msgs[i].type \in Secure})]

Request(c, type, arg) == SendAll(c, <<Msg(type, arg, sseq[c])>>)

(* Nothing c sent is still on its way to a handler.                        *)
Quiet(c) ==
  /\ inbox[c] = <<>>
  /\ \A i \in DOMAIN msgQueue : msgQueue[i].from # c
  /\ \A w \in Worker : wmsg[w] # NULL => wmsg[w].from # c
MaySend(c) == Paced => Quiet(c)

Received(c, type) ==
  /\ phase[c] \in Reading
  /\ outbox[c] # <<>>
  /\ Head(outbox[c]).type = type
  /\ type \in Awaited[phase[c]]
  /\ outbox' = [outbox EXCEPT ![c] = Tail(@)]

-----------------------------------------------------------------------------
(* registerToServer: the first message may be sent before the server has   *)
(* accepted the connection.                                                *)
Connect(c) ==
  /\ phase[c] = "off"
  /\ OneLogin => \A d \in Conn \ {c} :
                   NameOf[d] = NameOf[c] => phase[d] \in {"off", "gone"}
  /\ backlog' = Append(backlog, c)
  /\ IF c \in NeedsCert
       THEN Become(c, "cert") /\ Request(c, "CERT_REQ", NoName)
       ELSE Become(c, "hello") /\ Request(c, "CLIENT_HELLO", NoName)
  /\ UNCHANGED <<ServerRest, outbox, closed, ops>>

RecvCertificate(c) ==
  /\ Received(c, "CERTIFICATE")
  /\ Become(c, "hello")
  /\ Request(c, "CLIENT_HELLO", NoName)
  /\ UNCHANGED <<ServerRest, backlog, closed, ops>>

(* A server hello made for this client's hello has a valid signature;      *)
(* CLIENT_VERIFY and REGISTER follow without waiting for anything.         *)
RecvServerHello(c) ==
  /\ Received(c, "SERVER_HELLO")
  /\ Head(outbox[c]).arg = c
  /\ Become(c, "lobby")
  /\ SendAll(c, <<Msg("CLIENT_VERIFY", NoName, 0), Msg("REGISTER", NameOf[c], sseq[c])>>)
  /\ UNCHANGED <<ServerRest, backlog, closed, ops>>

(* What the person can do in the lobby.                                    *)
RequestList(c) ==
  /\ c \in MayList
  /\ phase[c] = "lobby" /\ MaySend(c)
  /\ ops[c] < MaxOps[c]
  /\ ops' = [ops EXCEPT ![c] = @ + 1]
  /\ Request(c, "USERS_LIST_REQ", NoName)
  /\ Become(c, "list")
  /\ UNCHANGED <<ServerRest, backlog, outbox, closed>>

ChallengePeer(c, n) ==
  /\ phase[c] = "lobby" /\ MaySend(c)
  /\ ops[c] < MaxOps[c]
  /\ ops' = [ops EXCEPT ![c] = @ + 1]
  /\ Request(c, "CHALLENGE", n)
  /\ Become(c, "challenge")
  /\ UNCHANGED <<ServerRest, backlog, outbox, closed>>

RecvChallenge(c) ==
  /\ Received(c, "CHALLENGE_FWD")
  /\ Become(c, "asked")
  /\ UNCHANGED <<ServerRest, backlog, inbox, closed, sseq, ops>>

ReplyChallenge(c) ==
  /\ phase[c] = "asked" /\ MaySend(c)
  /\ \/ Request(c, "ACCEPT", NoName) /\ Become(c, "replied")
     \/ Request(c, "REJECT", NoName) /\ Become(c, "lobby")
  /\ UNCHANGED <<ServerRest, backlog, outbox, closed, ops>>

RecvAnswer(c) ==
  /\ \/ Received(c, "USERS_LIST") /\ Become(c, "lobby")
     \/ Received(c, "GAME_CANCEL") /\ Become(c, "lobby")
     \/ Received(c, "GAME_START") /\ Become(c, "game")
  /\ UNCHANGED <<ServerRest, backlog, inbox, closed, sseq, ops>>

(* The next message is of a type the client does not wait for.             *)
Stray(c) ==
  /\ phase[c] \in Reading
  /\ outbox[c] # <<>>
  /\ Head(outbox[c]).type \notin Awaited[phase[c]]

(* The lobby throws it away, and so does handleMsg if it is encrypted and  *)
(* the server has not been authenticated.                                  *)
Ignored(c) ==
  \/ phase[c] = "lobby"
  \/ phase[c] \in {"cert", "hello"} /\ Head(outbox[c]).type \notin {"CERTIFICATE", "SERVER_HELLO"}

Discard(c) ==
  /\ Stray(c) /\ Ignored(c)
  /\ outbox' = [outbox EXCEPT ![c] = Tail(@)]
  /\ UNCHANGED <<ServerRest, backlog, inbox, closed, clientVars>>

(* The game with the peer ends, or it could not be played, and then the    *)
(* server is not told.                                                     *)
EndGame(c) ==
  /\ phase[c] = "game" /\ MaySend(c)
  /\ Request(c, "GAME_END", NoName)
  /\ Become(c, "lobby")
  /\ UNCHANGED <<ServerRest, backlog, outbox, closed, ops>>

FailGame(c) ==
  /\ c \in MayFail /\ phase[c] = "game"
  /\ Become(c, "lobby")
  /\ UNCHANGED <<ServerRest, networkVars, sseq, ops>>

-----------------------------------------------------------------------------
(* The connection is closed.  What the server sent is lost; closing with   *)
(* something unread resets the connection, and that may lose what the      *)
(* server has not read.                                                    *)
Close(c) ==
  /\ Become(c, "gone")
  /\ closed' = closed \cup {c}
  /\ outbox' = [outbox EXCEPT ![c] = <<>>]
  /\ \/ UNCHANGED inbox
     \/ outbox[c] # <<>> /\ inbox' = [inbox EXCEPT ![c] = <<>>]
  /\ UNCHANGED <<ServerRest, backlog, sseq, ops>>

Quit(c) ==
  /\ c \in MayQuit
  /\ phase[c] \notin {"off", "gone"}
  /\ Close(c)

(* A server hello that was made for another client's hello.                *)
BadServerHello(c) ==
  /\ phase[c] = "hello" /\ outbox[c] # <<>>
  /\ Head(outbox[c]).type = "SERVER_HELLO" /\ Head(outbox[c]).arg # c
  /\ Close(c)

(* receiveMsg does not wait any longer after a message of another type: it *)
(* returns NULL, which its callers take for an error, and the main loop    *)
(* deletes the connection to the server.                                   *)
GiveUp(c) ==
  /\ Stray(c) /\ ~Ignored(c)
  /\ Close(c)

(* The server has closed the connection.                                   *)
ServerClosed(c) ==
  /\ phase[c] \in Reading
  /\ heap[c] = "deleted" /\ outbox[c] = <<>>
  /\ Close(c)

ClientStep(c) ==
  \/ Connect(c) \/ RecvCertificate(c) \/ RecvServerHello(c)
  \/ RequestList(c) \/ \E n \in Name : ChallengePeer(c, n)
  \/ RecvChallenge(c) \/ ReplyChallenge(c)
  \/ RecvAnswer(c) \/ Discard(c) \/ EndGame(c) \/ FailGame(c)
  \/ Quit(c) \/ BadServerHello(c) \/ GiveUp(c) \/ ServerClosed(c)

Next ==
  \/ ServerStep /\ UNCHANGED <<clientVars, scenario>>
  \/ \E c \in Conn : ClientStep(c) /\ UNCHANGED scenario

Spec == Init /\ [][Next]_vars

(* Threads of the server that can take a step take one in the end.         *)
ServerFairness ==
  /\ WF_vars(MainStep /\ UNCHANGED <<clientVars, scenario>>)
  /\ \A w \in Worker : WF_vars(WorkerStep(w) /\ UNCHANGED <<clientVars, scenario>>)

FairSpec == Spec /\ ServerFairness

(* A client reads what has arrived, and the person answers a challenge and *)
(* finishes the game.                                                      *)
ClientGoesOn(c) ==
  \/ RecvChallenge(c) \/ ReplyChallenge(c) \/ RecvAnswer(c) \/ EndGame(c) \/ FailGame(c)
  \/ Discard(c) \/ GiveUp(c) \/ ServerClosed(c)

LiveSpec ==
  /\ FairSpec
  /\ \A c \in Conn : WF_vars(ClientGoesOn(c) /\ UNCHANGED scenario)

-----------------------------------------------------------------------------
SystemTypeOK ==
  /\ ServerTypeOK
  /\ phase \in [Conn -> DOMAIN Awaited]
  /\ sseq \in [Conn -> Nat]
  /\ \A c \in Conn : ops[c] \in 0 .. MaxOps[c]

(* AuthenticSession: the server takes a connection for authenticated only  *)
(* after this connection's own client has accepted the server's hello and  *)
(* answered it, lists a user by name only on an authenticated connection,  *)
(* and under the name of the client at the other end; although messages    *)
(* are queued under descriptors that may be reused, and handled by any     *)
(* worker in any order (secure_socket_wrapper.cpp:187-271).                *)
AuthenticSession ==
  \A c \in Conn :
    /\ session[c].auth => session[c].hello = c /\ phase[c] \notin {"off", "cert", "hello"}
    /\ uname[c] # NoName => session[c].auth /\ uname[c] = NameOf[c]
    /\ ustate[c] \notin {"JUST_CONNECTED", "DISCONNECTED"} => session[c].auth

(* WorkersReturn: a worker that has taken a message comes back for the     *)
(* next one, unless the main thread has crashed: with clients that wait    *)
(* for their messages to be handled (Paced), so that none is rejected with *)
(* a mutex locked, no handler waits for a mutex for ever, in whatever      *)
(* order doubleLock and doubleUnlock give mutexes up and take them again   *)
(* (server.cpp:55-75, 395-408).                                            *)
WorkersReturn ==
  \A w \in Worker : wpc[w] # "pull" ~> wpc[w] = "pull" \/ mpc = "crashed"

(* ChallengeAnswered: a challenger's program, which can do nothing else in *)
(* the meantime, hears from the server in the end: that the game starts,   *)
(* or that it does not (client/server.cpp:100-126).                        *)
ChallengeAnswered ==
  \A c \in Conn : phase[c] = "challenge" ~> phase[c] # "challenge" \/ mpc = "crashed"

(* OthersIgnored: a client that waits for the answer to a request is not   *)
(* disturbed by messages of other types: as long as the server keeps the   *)
(* connection, it leaves the wait for the lobby or for a game              *)
(* (secure_socket_wrapper.cpp:529-550, client/server.cpp:79, 112, 158).    *)
OthersIgnored ==
  [][\A c \in Conn \ MayQuit :
       /\ phase[c] \in {"list", "challenge", "replied"} /\ heap[c] # "deleted"
       => phase'[c] # "gone"]_vars
=============================================================================
