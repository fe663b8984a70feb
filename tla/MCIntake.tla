------------------------------- MODULE MCIntake -------------------------------
(***************************************************************************)
(* Two connections to the server and one from it.  A script is what each   *)
(* lane has to send; between them the scripts hold every type of message   *)
(* that clients and server send, usernames that are shorter than the       *)
(* limit, fill it and exceed it, lists of one and of several names, and    *)
(* numbers at the ends of their ranges.  One script has three messages of  *)
(* two connections, which is more than the queue holds.                    *)
(***************************************************************************)
EXTENDS Intake

A   == <<"a">>
AB  == <<"a", "b">>
ABC == <<"a", "b", "c">>

MCItem == ToServer \X MessageType

Named(type, name) == [type |-> type, username |-> name]
Answer(yes, port, name) ==
  [type |-> "CHALLENGE_RESP", response |-> yes, listen_port |-> port, username |-> name]
List(names) == [type |-> "USERS_LIST", usernames |-> names]
ListReq == [type |-> "USERS_LIST_REQ", offset |-> 0]
Bare(type) == [type |-> type]
Start(name) == [type |-> "GAME_START", username |-> name, addr |-> "addr", cert |-> "cert"]
Hello == [type |-> "CLIENT_HELLO", eph_key |-> "k1", nonce |-> 2^30,
          my_id |-> A, other_id |-> ABC]
HelloBack == [type |-> "SERVER_HELLO", eph_key |-> "k2", nonce |-> 7,
              my_id |-> ABC, other_id |-> A, ds |-> "ds2"]
Verify == [type |-> "CLIENT_VERIFY", ds |-> "ds1"]
Certificate == [type |-> "CERTIFICATE", cert |-> "cert"]

Script(u1, u2, d1) == ("u1" :> u1) @@ ("u2" :> u2) @@ ("d1" :> d1)

ToTheServer(u1, u2) == Script(u1, u2, <<>>)
ToTheClient(d1)     == Script(<<>>, <<>>, d1)

MCScripts ==
  {ToTheServer(<<Hello, Verify>>, <<>>),
   ToTheServer(<<Bare("CERT_REQ"), Bare("GAME_END")>>, <<Bare("CERT_REQ")>>),
   ToTheServer(<<Answer(TRUE, 65535, ABC), ListReq>>, <<>>),
   ToTheServer(<<Named("REGISTER", ABC), Named("CHALLENGE", A)>>, <<>>),
   ToTheClient(<<List(AB \o <<",">> \o A \o <<NUL>>), Named("CHALLENGE_FWD", AB)>>),
   ToTheClient(<<Certificate, HelloBack, Start(ABC)>>),
   ToTheClient(<<Named("GAME_CANCEL", A), List(A \o <<NUL>>)>>)}

MCToServer == {"u1", "u2"}
MCToClient == {"d1"}
=============================================================================
