------------------------- MODULE PeerSessionInvariant -------------------------
(***************************************************************************)
(* Why the two ends of a game's connection agree, and why no message       *)
(* number is used twice: the inductive invariant of PeerSession.  It rests *)
(* on the signatures and the tags, not on the connection.  Whatever a      *)
(* program reads as a signature was made by the program at the other end,  *)
(* over everything that the keys are derived from; whatever it can decrypt *)
(* carries the number that it waits for.                                   *)
(***************************************************************************)
EXTENDS PeerSession

(* What is signed tells the callers apart (that is, their usernames differ *)
(* in the part that is transmitted); a column fits a signed byte; and the  *)
(* messages of a game, of at most two bytes, can be encrypted.             *)
ASSUME SignedAssumption ==
  /\ NULL \notin Caller
  /\ \A c, d \in Caller : Cut(c) \o Cut(Host) = Cut(d) \o Cut(Host) => c = d
  /\ Column \subseteq -128 .. 127 /\ Garbage \notin Column
  /\ 2 <= MaxSecMsgSize

GameMessage == {[type |-> "START_GAME_PEER"]} \cup [type : {"MOVE"}, col : Column]

Authentic(u) == sw[u].peer_authenticated
Called(c)    == sw[c].cl_nonce # 0
Answered     == sw[Host].sv_nonce # 0

Keyed(w, role) == /\ w.send = GenerateKeys(w, role).send
                  /\ w.recv = GenerateKeys(w, role).recv

-----------------------------------------------------------------------------
(* What a program may have written on a lane: its hello, its proof of who  *)
(* it is, and the encrypted form of the messages that the history has.     *)
CallersHello(w) == [type |-> "CLIENT_HELLO", eph_key |-> Public(w.my_eph_key),
                    nonce |-> w.cl_nonce, my_id |-> MyId(w), other_id |-> OtherId(w)]
CallersProof(w) == [type |-> "CLIENT_VERIFY", ds |-> MakeSignature(w, "client")]
HostsHello(w)   == [type |-> "SERVER_HELLO", eph_key |-> Public(w.my_eph_key),
                    nonce |-> w.sv_nonce, my_id |-> MyId(w), other_id |-> OtherId(w),
                    ds |-> MakeSignature(w, "server")]
Numbered(w, k)  == [w EXCEPT !.send_seq_num = k]
Record(l, n)    == EncryptMsg(Numbered(sw[l[1]], n - 1), sent[l][n])

MayBeOn(l, b) ==
  \/ l[1] \in Caller /\ Called(l[1]) /\ b = Write(CallersHello(sw[l[1]]))
  \/ l[1] \in Caller /\ Authentic(l[1]) /\ b = Write(CallersProof(sw[l[1]]))
  \/ l[1] = Host /\ Answered /\ accepted = l[2] /\ b = Write(HostsHello(sw[Host]))
  \/ \E n \in 1 .. Len(sent[l]) : b = Write(Record(l, n))

SomeSeq(s) == s \in Seq({s[i] : i \in DOMAIN s})

WiresGenuine ==
  /\ DOMAIN wire = Lane
  /\ \A l \in Lane : SomeSeq(wire[l]) /\ \A i \in 1 .. Len(wire[l]) : MayBeOn(l, wire[l][i])

-----------------------------------------------------------------------------
(* The wrappers.                                                           *)
WrappersOK ==
  /\ DOMAIN pc = User /\ sw = [u \in User |-> sw[u]]
  /\ \A u \in User : DOMAIN sw[u] = DOMAIN Wrapper(NULL) /\ sw[u].my_cert = Certificate(u)
  /\ \A u \in User : sw[u].peer_authenticated \in BOOLEAN
  /\ backlog \in Seq(Caller) /\ accepted \in Caller \cup {NULL}

(* A caller who takes the host for authenticated: the host has answered    *)
(* that very call, and has signed the same.                                *)
CallerOK(c) ==
  /\ pc[c] = "connect" => ~Called(c)
  /\ pc[c] = "await" => Called(c)
  /\ pc[c] \in {"connect", "await"} => ~Authentic(c)
  /\ pc[c] \in {"mine", "theirs"} => Authentic(c)
  /\ Called(c) => sw[c].other_cert = Certificate(Host) /\ sw[c].my_eph_key = EcdhKey(c)
  /\ Authentic(c) =>
       /\ Called(c) /\ Keyed(sw[c], "client")
       /\ accepted = c /\ Answered
       /\ MsgToSign(sw[Host], "server") = MsgToSign(sw[c], "client")

HostOK ==
  /\ pc[Host] \in {"bind", "accept"} => accepted = NULL
  /\ pc[Host] = "hello" => accepted # NULL /\ sw[Host].other_cert = Certificate(Guest)
  /\ pc[Host] \in {"bind", "accept", "hello"} => ~Answered
  /\ pc[Host] \in {"bind", "accept", "hello", "verify"} => ~Authentic(Host)
  /\ pc[Host] = "verify" => Answered
  /\ pc[Host] \in {"start", "mine", "theirs"} => Authentic(Host)
  /\ Answered => /\ accepted # NULL /\ sw[Host].other_cert = Certificate(Guest)
                 /\ Keyed(sw[Host], "server")
  /\ Authentic(Host) => Answered /\ Authentic(accepted)

(* The numbers of the next messages count what the history has, and there  *)
(* is none before the peer is authenticated.                               *)
NumbersOK ==
  /\ \A c \in Caller :
       /\ sw[c].send_seq_num = Len(sent[<<c, Host>>])
       /\ sw[c].recv_seq_num = Len(got[<<Host, c>>])
       /\ accepted = c => /\ sw[Host].send_seq_num = Len(sent[<<Host, c>>])
                          /\ sw[Host].recv_seq_num = Len(got[<<c, Host>>])
       /\ accepted # c => sent[<<Host, c>>] = <<>> /\ got[<<c, Host>>] = <<>>
  /\ accepted = NULL => sw[Host].send_seq_num = 0 /\ sw[Host].recv_seq_num = 0
  /\ \A l \in Lane : /\ sent[l] # <<>> => Authentic(l[1])
                     /\ got[l] # <<>> => Authentic(l[2])

-----------------------------------------------------------------------------
(* The encrypted messages: those received are the first of those sent; the *)
(* caller's first opens the game, and all others are moves.                *)
HistoryOK ==
  /\ DOMAIN sent = Lane /\ DOMAIN got = Lane
  /\ \A l \in Lane : /\ sent[l] \in Seq(GameMessage) /\ got[l] \in Seq(GameMessage)
                     /\ Len(got[l]) <= Len(sent[l])
                     /\ \A i \in 1 .. Len(got[l]) : got[l][i] = sent[l][i]
                     /\ \A i \in 1 .. Len(sent[l]) :
                          sent[l][i].type = "START_GAME_PEER" <=> l[2] = Host /\ i = 1
  /\ \A c \in Caller : /\ pc[c] \in {"mine", "theirs"} => sent[<<c, Host>>] # <<>>
                       /\ pc[Host] = "start" => got[<<c, Host>>] = <<>>
                       /\ pc[Host] \in {"mine", "theirs"} /\ accepted = c =>
                            got[<<c, Host>>] # <<>>

(* Every tag has a number of the program that made it: one that has been   *)
(* counted, or, if the send failed, one that is never used again.          *)
MadeBy(s, u) ==
  /\ Authentic(u) /\ s[2] = sw[u].send.key
  /\ \E n \in 0 .. sw[u].send_seq_num :
       /\ s[3] = UpdateIV(n, sw[u].send.iv)
       /\ n = sw[u].send_seq_num => pc[u] \in Stopped

SealedOK == FreshIVs /\ \A s \in sealed : \E u \in User : MadeBy(s, u)

CountsOK == DOMAIN tries = Caller /\ lost \subseteq Lane

SessionInv ==
  /\ WrappersOK /\ HostOK /\ (\A c \in Caller : CallerOK(c))
  /\ NumbersOK /\ HistoryOK /\ WiresGenuine /\ SealedOK
  /\ SessionTypeOK /\ CountsOK
=============================================================================
