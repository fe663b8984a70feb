----------------------------- MODULE PeerSession ------------------------------
(***************************************************************************)
(* How two clients set up their connection for a game: waitForPeer and     *)
(* connectToPeer in src/client/multi_player.cpp, over SecureSocket.  The   *)
(* host listens, accepts one connection, and leaves the listening socket   *)
(* open; the guest calls.  Another user, who has the host's address from a *)
(* game of theirs or was told it, may call as well.  Once connected, host  *)
(* and guest send each other moves in turn; the game itself is in Match.   *)
(*                                                                         *)
(* A lane is a pair of users, <<from, to>>.  What is on its way are whole  *)
(* messages: how they are put together from pieces is in Intake.           *)
(***************************************************************************)
EXTENDS SecureSocket

CONSTANTS
  Host, Guest, Stranger,  \* the users, named by their usernames
  Stores,                 \* what the users' programs may trust: sets of certificates
  Nonce,                  \* the nonce each user's program draws
  Column,                 \* the columns that are played
  MaxTries,               \* how often connectToPeer tries to connect
  MaxMoves,               \* bound: the moves each player makes
  MayLeave                \* users whose program may end at any moment

Caller == {Guest, Stranger}
User   == {Host} \cup Caller
Lane   == {<<c, Host>> : c \in Caller} \cup {<<Host, c>> : c \in Caller}

ASSUME SessionAssumption ==
  /\ Host # Guest /\ Host # Stranger /\ Guest # Stranger
  /\ \A s \in Stores : s \subseteq {Certificate(u) : u \in User}
  /\ Nonce \in [User -> Nat \ {0}] /\ \A u, v \in User : Nonce[u] = Nonce[v] => u = v
  /\ MaxTries \in Nat \ {0} /\ MaxMoves \in Nat /\ MayLeave \subseteq User

VARIABLES
  store,      \* the certificates that verify
  pc,         \* where each program is
  sw,         \* the SecureSocketWrapper of each
  listening,  \* the host's port is open
  backlog,    \* callers whose connections nobody has accepted yet
  accepted,   \* the caller whose connection the host has accepted, or NULL
  tries,      \* how often each caller has tried in vain
  wire,       \* the messages on each lane that have not been read
  closed,     \* lanes whose sender has closed the connection
  lost,       \* lanes of which messages were lost with the connection
  sent,       \* history: the encrypted messages sent on each lane
  got,        \* history: those that were received
  sealed      \* history: the tags of all messages encrypted

programVars == <<pc, sw, tries>>
socketVars  == <<listening, backlog, accepted>>
netVars     == <<wire, closed, lost>>
history     == <<sent, got, sealed>>
sessionVars == <<store, programVars, socketVars, netVars, history>>

SessionInit ==
  /\ store \in Stores
  /\ pc = [u \in User |-> IF u = Host THEN "bind" ELSE "connect"]
  /\ sw = [u \in User |-> Wrapper(Certificate(u))]
  /\ listening = FALSE /\ backlog = <<>> /\ accepted = NULL
  /\ tries = [c \in Caller |-> 0]
  /\ wire = [l \in Lane |-> <<>>] /\ closed = {} /\ lost = {}
  /\ sent = [l \in Lane |-> <<>>] /\ got = [l \in Lane |-> <<>>]
  /\ sealed = {}

-----------------------------------------------------------------------------
(* Steps of the program of u.                                              *)
Goto(u, p) == pc' = [pc EXCEPT ![u] = p]
Stopped    == {"failed", "crashed", "ended"}

(* The program or a destructor closes connections; whoever reads what is   *)
(* on its way to them is gone.                                             *)
Back(l)          == <<l[2], l[1]>>
Shut(lanes)      == closed' = closed \cup lanes
Drained(w, lanes) == [l \in Lane |-> IF Back(l) \in lanes THEN <<>> ELSE w[l]]

(* Whether a send succeeds is open once the receiver has closed; nothing   *)
(* arrives then.                                                           *)
SendOutcome(l)   == IF Back(l) \in closed THEN BOOLEAN ELSE {TRUE}
Sends(w, l, ms)  ==
  IF Back(l) \in closed THEN w
  ELSE [w EXCEPT ![l] = @ \o [i \in DOMAIN ms |-> Write(ms[i])]]

(* receiveMsg for the next message on l, if there is one.                  *)
Arrived(l) == IF wire[l] = <<>> THEN {} ELSE {ReadMessage(Head(wire[l]))}
Receiving(u, l, type) ==
  {ReceiveMsg(r, type) : r \in {HandleMsg(sw[u], m) : m \in Arrived(l)}}
Taken(w, l) == [w EXCEPT ![l] = Tail(@)]
AtEnd(l)    == wire[l] = <<>> /\ l \in closed

(* Where u is when that message is not what it waits for.                  *)
NotGot(u, r) == IF r.outcome = "again" THEN pc[u] ELSE "failed"

(* u, with wrapper v and the messages w on the lanes, sends m encrypted on *)
(* l and goes to p, or fails.                                              *)
SendSecure(u, v, w, l, m, p) ==
  \E sm \in {EncryptMsg(v, m)}, ok \in SendOutcome(l) :
    /\ sw' = [sw EXCEPT ![u] = IF ok THEN SentOne(v) ELSE v]
    /\ wire' = Sends(w, l, <<sm>>)
    /\ sent' = IF ok THEN [sent EXCEPT ![l] = Append(@, m)] ELSE sent
    /\ sealed' = sealed \cup {sm.tag}
    /\ Goto(u, IF ok THEN p ELSE "failed")

-----------------------------------------------------------------------------
(* waitForPeer.  The port was drawn at random or typed in, and may be in   *)
(* use.                                                                    *)
BindPort ==
  /\ pc[Host] = "bind"
  /\ \E bound \in BOOLEAN : /\ listening' = bound
                            /\ Goto(Host, IF bound THEN "accept" ELSE "failed")
  /\ UNCHANGED <<store, sw, tries, backlog, accepted, netVars, history>>

(* What acceptClient closes when the certificate it was given does not     *)
(* verify; the first definition is the bug of forgetting to.               *)
LeftOpen(c)    == {}
DeletedConn(c) == {<<Host, c>>}

AcceptClient ==
  /\ pc[Host] = "accept" /\ backlog # <<>>
  /\ accepted' = Head(backlog) /\ backlog' = Tail(backlog)
  /\ \E r \in {SetOtherCert(sw[Host], store, Certificate(Guest))} :
       /\ sw' = [sw EXCEPT ![Host] = r.w]
       /\ Goto(Host, IF r.ok THEN "hello" ELSE "failed")
       /\ Shut(IF r.ok THEN {} ELSE DeletedConn(Head(backlog)))
       /\ wire' = Drained(wire, IF r.ok THEN {} ELSE DeletedConn(Head(backlog)))
  /\ UNCHANGED <<store, tries, listening, lost, history>>

FromCaller == <<accepted, Host>>
ToCaller   == <<Host, accepted>>

HostHello ==
  /\ pc[Host] = "hello"
  /\ \E r \in Receiving(Host, FromCaller, "CLIENT_HELLO") :
       IF r.outcome # "got"
         THEN /\ Goto(Host, NotGot(Host, r)) /\ wire' = Taken(wire, FromCaller)
              /\ sw' = [sw EXCEPT ![Host] = r.w]
         ELSE \E h \in {HandleClientHello(r.w, r.msg, Nonce[Host], Host)},
                 ok \in SendOutcome(ToCaller) :
                /\ sw' = [sw EXCEPT ![Host] = h.w]
                /\ wire' = Sends(Taken(wire, FromCaller), ToCaller, <<h.out>>)
                /\ Goto(Host, IF ok THEN "verify" ELSE "failed")
  /\ UNCHANGED <<store, tries, socketVars, closed, lost, history>>

(* handshakeServer passes what receiveMsg returns to handleClientVerify,   *)
(* NULL included, which is read all the same: the program crashes.         *)
Crash(u, w) ==
  /\ Goto(u, "crashed")
  /\ Shut({l \in Lane : l[1] = u})
  /\ wire' = Drained(w, {l \in Lane : l[1] = u})
  /\ listening' = (listening /\ u # Host)

HostVerify ==
  /\ pc[Host] = "verify"
  /\ \/ \E r \in Receiving(Host, FromCaller, "CLIENT_VERIFY") :
          IF r.outcome = "other" THEN Crash(Host, Taken(wire, FromCaller)) /\ UNCHANGED sw
          ELSE \E h \in {IF r.outcome = "got" THEN HandleClientVerify(r.w, r.msg)
                                              ELSE [ok |-> TRUE, w |-> r.w]} :
                 /\ sw' = [sw EXCEPT ![Host] = h.w]
                 /\ wire' = Taken(wire, FromCaller)
                 /\ Goto(Host, IF r.outcome = "again" THEN "verify"
                               ELSE IF h.ok THEN "start" ELSE "failed")
                 /\ UNCHANGED <<closed, listening>>
     \/ AtEnd(FromCaller) /\ Crash(Host, wire) /\ UNCHANGED sw
  /\ UNCHANGED <<store, tries, backlog, accepted, lost, history>>

(* A message that came encrypted.                                          *)
ReceiveSecure(u, l, type, p) ==
  \E r \in Receiving(u, l, type) :
    /\ sw' = [sw EXCEPT ![u] = r.w]
    /\ wire' = Taken(wire, l)
    /\ got' = IF r.msg = NULL THEN got ELSE [got EXCEPT ![l] = Append(@, r.msg)]
    /\ Goto(u, IF r.outcome = "got" THEN p ELSE NotGot(u, r))
    /\ UNCHANGED <<store, tries, socketVars, closed, lost, sent, sealed>>

HostStart ==
  /\ pc[Host] = "start"
  /\ ReceiveSecure(Host, FromCaller, "START_GAME_PEER", "mine")

(* Another wait of the host ends with the connection.                      *)
HostEof ==
  /\ pc[Host] \in {"hello", "start"} /\ AtEnd(FromCaller)
  /\ Goto(Host, "failed")
  /\ UNCHANGED <<store, sw, tries, socketVars, netVars, history>>

-----------------------------------------------------------------------------
(* connectToPeer.  A certificate that does not verify, or a host that does *)
(* not listen, is tried again; the hello follows at once.  The first       *)
(* definition is the bug of trying once more than that.                    *)
TriedOnceMore(c) == tries[c] < MaxTries
TriesLeft(c)     == tries[c] + 1 < MaxTries

ConnectServer(c) ==
  /\ pc[c] = "connect"
  /\ \E r \in {SetOtherCert(sw[c], store, Certificate(Host))} :
       IF r.ok /\ listening
         THEN \E h \in {SendClientHello(r.w, Nonce[c], c)} :
                /\ sw' = [sw EXCEPT ![c] = h.w]
                /\ backlog' = Append(backlog, c)
                /\ wire' = Sends(wire, <<c, Host>>, <<h.out>>)
                /\ Goto(c, "await") /\ UNCHANGED tries
         ELSE /\ sw' = [sw EXCEPT ![c] = r.w]
              /\ tries' = [tries EXCEPT ![c] = @ + 1]
              /\ Goto(c, IF TriesLeft(c) THEN "connect" ELSE "failed")
              /\ UNCHANGED <<backlog, wire>>
  /\ UNCHANGED <<store, listening, accepted, closed, lost, history>>

(* handleServerHello, and if all is well, the sending of CLIENT_VERIFY     *)
(* included, the first encrypted message.                                  *)
RecvServerHello(c) ==
  /\ pc[c] = "await"
  /\ \E r \in Receiving(c, <<Host, c>>, "SERVER_HELLO") :
     \E h \in {IF r.outcome = "got" THEN HandleServerHello(r.w, r.msg)
                                    ELSE [ok |-> FALSE, w |-> r.w]} :
       \/ /\ h.ok
          /\ SendSecure(c, h.w, Sends(Taken(wire, <<Host, c>>), <<c, Host>>, <<h.out>>),
                        <<c, Host>>, [type |-> "START_GAME_PEER"], "theirs")
       \/ /\ ~h.ok \/ FALSE \in SendOutcome(<<c, Host>>)
          /\ sw' = [sw EXCEPT ![c] = h.w]
          /\ wire' = Taken(wire, <<Host, c>>)
          /\ Goto(c, IF r.outcome = "got" THEN "failed" ELSE NotGot(c, r))
          /\ UNCHANGED <<sent, sealed>>
  /\ UNCHANGED <<store, tries, socketVars, closed, lost, got>>

CallerEof(c) ==
  /\ pc[c] = "await" /\ AtEnd(<<Host, c>>)
  /\ Goto(c, "failed")
  /\ UNCHANGED <<store, sw, tries, socketVars, netVars, history>>

-----------------------------------------------------------------------------
(* playWithPlayer, as far as the connection is concerned.                  *)
Partner(u) == IF u = Host THEN accepted ELSE Host
Moves(l)   == Cardinality({i \in DOMAIN sent[l] : sent[l][i].type = "MOVE"})

SendMove(u) ==
  LET l == <<u, Partner(u)>> IN
  /\ pc[u] = "mine" /\ Moves(l) < MaxMoves
  /\ \E k \in Column : SendSecure(u, sw[u], wire, l, [type |-> "MOVE", col |-> k], "theirs")
  /\ UNCHANGED <<store, tries, socketVars, closed, lost, got>>

RecvMove(u) ==
  /\ pc[u] = "theirs"
  /\ ReceiveSecure(u, <<Partner(u), u>>, "MOVE", "mine")

PlayEof(u) ==
  /\ pc[u] = "theirs" /\ AtEnd(<<Partner(u), u>>)
  /\ Goto(u, "failed")
  /\ UNCHANGED <<store, sw, tries, socketVars, netVars, history>>

-----------------------------------------------------------------------------
(* The program ends, which closes everything it has open.  What it sent    *)
(* arrives, unless the connection is reset: then a part of it does.        *)
OpenLanes(u) == {l \in Lane : l[1] = u} \ closed

Leave(u) ==
  /\ u \in MayLeave /\ pc[u] \notin {"crashed", "ended"}
  /\ Goto(u, "ended")
  /\ Shut({l \in Lane : l[1] = u})
  /\ listening' = (listening /\ u # Host)
  /\ \E keep \in [OpenLanes(u) -> 0 .. Max({Len(wire[l]) : l \in Lane})] :
       /\ \A l \in OpenLanes(u) : keep[l] <= Len(wire[l])
       /\ wire' = Drained([l \in Lane |-> IF l \in OpenLanes(u) THEN SubSeq(wire[l], 1, keep[l])
                                                                ELSE wire[l]],
                          {l \in Lane : l[1] = u})
       /\ lost' = lost \cup {l \in OpenLanes(u) : keep[l] < Len(wire[l])}
  /\ UNCHANGED <<store, sw, tries, backlog, accepted, history>>

HostStep == BindPort \/ AcceptClient \/ HostHello \/ HostVerify \/ HostStart \/ HostEof
CallerStep(c) == ConnectServer(c) \/ RecvServerHello(c) \/ CallerEof(c)
PlayStep(u) == RecvMove(u) \/ PlayEof(u)

SessionNext ==
  \/ HostStep
  \/ \E c \in Caller : CallerStep(c)
  \/ \E u \in User : SendMove(u) \/ PlayStep(u) \/ Leave(u)

(* A program that can go on does, but nobody has to call, make a move or   *)
(* leave.                                                                  *)
SessionSpec ==
  /\ SessionInit /\ [][SessionNext]_sessionVars
  /\ WF_sessionVars(HostStep)
  /\ WF_sessionVars(CallerStep(Guest))
  /\ WF_sessionVars(RecvServerHello(Stranger) \/ CallerEof(Stranger))
  /\ \A u \in User : WF_sessionVars(PlayStep(u))

-----------------------------------------------------------------------------
SessionTypeOK ==
  /\ pc[Host] \in {"bind", "accept", "hello", "verify", "start", "mine", "theirs"} \cup Stopped
  /\ \A c \in Caller : /\ pc[c] \in {"connect", "await", "mine", "theirs"} \cup Stopped
                       /\ tries[c] \in 0 .. MaxTries
                       /\ pc[c] = "connect" => tries[c] < MaxTries
  /\ accepted \in Caller \cup {NULL} /\ lost \subseteq closed
  /\ \A l \in Lane : \A i \in DOMAIN got[l] : IsMessage(got[l][i])

(* Agreement: an end that takes its peer for authenticated is connected to *)
(* the very user whose certificate it was given, and the two ends have the *)
(* same nonces, and keys that fit crosswise and differ by direction; the   *)
(* host does not believe so before the caller does                         *)
(* (secure_socket_wrapper.cpp:232-271, 340-471).                           *)
SameSession(a, b) ==
  /\ OtherId(a) = MyId(b) /\ OtherId(b) = MyId(a)
  /\ a.cl_nonce = b.cl_nonce /\ a.sv_nonce = b.sv_nonce
  /\ a.send = b.recv /\ a.recv = b.send
  /\ a.send.key # a.recv.key

Agreement ==
  /\ \A c \in Caller : sw[c].peer_authenticated => accepted = c /\ SameSession(sw[Host], sw[c])
  /\ sw[Host].peer_authenticated => accepted # NULL /\ sw[accepted].peer_authenticated

(* FreshIVs: no two different messages are ever encrypted with the same    *)
(* key and initialization vector, in either direction, with sends that     *)
(* fail in between (secure_socket_wrapper.cpp:136-148, 282-297, 471-488).  *)
FreshIVs ==
  \A s, t \in sealed : s[2] = t[2] /\ s[3] = t[3] => s = t

(* RecordsInOrder: the encrypted messages that reach the program of a user *)
(* are those that the peer's program sent, once each and in their order,   *)
(* and none fails to be decrypted; as long as the receiver's program goes  *)
(* on and nothing is lost with the connection, all of them arrive          *)
(* (secure_socket_wrapper.cpp:50-168, 187-230, 282-297).                   *)
CH == INSTANCE Channel WITH
        Message <- {[type |-> "START_GAME_PEER"]} \cup [type : {"MOVE"}, col : Column],
        cut <- lost \cup {l \in Lane : pc[l[2]] \in Stopped}

RecordsInOrder == CH!FairSpec

(* Settles: unless the stranger's call is the one that the host accepts,   *)
(* the guest ends up in the game or with an error, and so does the host    *)
(* once it has accepted the guest; whoever leaves, and whenever            *)
(* (multi_player.cpp:109-196).                                             *)
Settled == Stopped \cup {"mine", "theirs"}

Settles ==
  \/ <>(accepted = Stranger)
  \/ /\ <>(pc[Guest] \in Settled)
     /\ accepted = Guest ~> pc[Host] \in Settled
=============================================================================
