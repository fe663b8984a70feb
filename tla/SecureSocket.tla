----------------------------- MODULE SecureSocket -----------------------------
(***************************************************************************)
(* SecureSocketWrapper (src/security/secure_socket_wrapper.cpp): the       *)
(* handshake and the encryption of messages.  A wrapper is a record, and   *)
(* a method a function of the wrapper and its arguments; one that also     *)
(* sends gives the message to send, or FAIL, in the field "out", and one   *)
(* that can fail says so in the field "ok".                                *)
(***************************************************************************)
EXTENDS Messages, Crypto

Wrapper(cert) ==
  [my_cert |-> cert, other_cert |-> NULL, peer_authenticated |-> FALSE,
   cl_nonce |-> 0, sv_nonce |-> 0, my_eph_key |-> NULL, other_eph_key |-> NULL,
   send |-> NULL, recv |-> NULL, send_seq_num |-> 0, recv_seq_num |-> 0]

MyId(w)    == UsernameFromCert(w.my_cert)
OtherId(w) == UsernameFromCert(w.other_cert)

(* setOtherCert.                                                           *)
SetOtherCert(w, store, cert) ==
  [ok |-> VerifyPeerCert(store, cert),
   w  |-> IF VerifyPeerCert(store, cert) THEN [w EXCEPT !.other_cert = cert] ELSE w]

-----------------------------------------------------------------------------
(* generateKeys: a key and a static IV for each direction.                 *)
OtherRole(role) == IF role = "client" THEN "server" ELSE "client"

GenerateKeys(w, role) ==
  LET secret == Dhke(w.my_eph_key, w.other_eph_key)
      Derived(what, who) == Hkdf(secret, w.sv_nonce, w.cl_nonce, <<what, who>>)
  IN [w EXCEPT !.send = [key |-> Derived("key_", role), iv |-> Derived("iv__", role)],
               !.recv = [key |-> Derived("key_", OtherRole(role)),
                         iv  |-> Derived("iv__", OtherRole(role))]]

(* buildMsgToSign: A is the client of the handshake, B the server.         *)
Cut(name) == Part(name, 1, MAX_USERNAME_LENGTH)

MsgToSign(w, role) ==
  LET mine   == [id |-> MyId(w), key |-> Public(w.my_eph_key)]
      theirs == [id |-> OtherId(w), key |-> w.other_eph_key]
      A == IF role = "server" THEN theirs ELSE mine
      B == IF role = "server" THEN mine ELSE theirs
  IN <<Cut(A.id) \o Cut(B.id), w.cl_nonce, w.sv_nonce, A.key, B.key>>

MakeSignature(w, role)      == DsaSign(MsgToSign(w, role), MyId(w))
CheckSignature(w, ds, role) == DsaVerify(MsgToSign(w, role), ds, PublicKey(w.other_cert))

-----------------------------------------------------------------------------
(* The handshake.  Nonces and keys that get_rand and get_ecdh_key produce  *)
(* are arguments.                                                          *)
SendClientHello(w, nonce, fresh) ==
  LET v == [w EXCEPT !.cl_nonce = nonce, !.my_eph_key = EcdhKey(fresh)]
  IN [w |-> v,
      out |-> [type |-> "CLIENT_HELLO", eph_key |-> Public(v.my_eph_key), nonce |-> nonce,
               my_id |-> MyId(v), other_id |-> OtherId(v)]]

(* handleClientHello, with sendServerHello.                                *)
HandleClientHello(w, chm, nonce, fresh) ==
  LET v == GenerateKeys([w EXCEPT !.cl_nonce = chm.nonce, !.other_eph_key = chm.eph_key,
                                  !.sv_nonce = nonce, !.my_eph_key = EcdhKey(fresh)],
                        "server")
  IN [w |-> v,
      out |-> [type |-> "SERVER_HELLO", eph_key |-> Public(v.my_eph_key), nonce |-> nonce,
               my_id |-> MyId(v), other_id |-> OtherId(v),
               ds |-> MakeSignature(v, "server")]]

(* handleServerHello, with sendClientVerify.  The first definition is the  *)
(* bug of going on whatever the check of the signature says.               *)
HelloUnchecked(w, shm) == TRUE
HelloChecked(w, shm) == CheckSignature(w, shm.ds, "client")

HandleServerHello(w, shm) ==
  LET v == GenerateKeys([w EXCEPT !.sv_nonce = shm.nonce, !.other_eph_key = shm.eph_key],
                        "client")
  IN IF HelloChecked(v, shm)
       THEN [ok |-> TRUE, w |-> [v EXCEPT !.peer_authenticated = TRUE],
             out |-> [type |-> "CLIENT_VERIFY", ds |-> MakeSignature(v, "client")]]
       ELSE [ok |-> FALSE, w |-> v]

(* handleClientVerify.                                                     *)
Verified(w, cvm) == CheckSignature(w, cvm.ds, "server")

HandleClientVerify(w, cvm) ==
  IF Verified(w, cvm) THEN [ok |-> TRUE, w |-> [w EXCEPT !.peer_authenticated = TRUE]]
                      ELSE [ok |-> FALSE, w |-> w]

-----------------------------------------------------------------------------
(* updateIV: the number of the message is mixed into the first eight bytes *)
(* of the static IV.  (Sixty-four bits do not overflow.)                   *)
UpdateIV(seq, static) == <<static, seq>>

(* makeAAD, with the length that encryptMsg and decryptMsg give it.        *)
AadSize == Width["len"] + 1
Aad(n)  == <<n + Width["tag"] + AadSize, "SECURE_MESSAGE">>

MaxSecMsgSize == MAX_MSG_SIZE - Width["tag"] - Width["len"] - 1

EncryptMsg(w, m) ==
  LET pt  == Write(m)
      enc == AesGcmEncrypt(pt, Aad(Len(pt)), w.send.key, UpdateIV(w.send_seq_num, w.send.iv))
  IN IF ~w.peer_authenticated \/ Len(pt) > MaxSecMsgSize THEN FAIL
     ELSE [type |-> "SECURE_MESSAGE", ct |-> enc.ct, tag |-> enc.tag]

DecryptMsg(w, sm) ==
  LET n  == Len(sm.ct)
      pt == AesGcmDecrypt(sm.ct, Aad(n), w.recv.key, UpdateIV(w.recv_seq_num, w.recv.iv), sm.tag)
  IN IF ~w.peer_authenticated \/ n > MaxSecMsgSize \/ pt = FAIL THEN NULL ELSE ReadMessage(pt)

(* sendMsg counts the messages that have gone out; the first definition is *)
(* the bug of not counting them.                                           *)
SentUncounted(w) == w
SentOne(w) == [w EXCEPT !.send_seq_num = @ + 1]

(* What handleMsg does to the number of the next message when one has been *)
(* decrypted; the first definition is the bug of leaving it.               *)
ReceivedUncounted(w) == w
ReceivedOne(w) == [w EXCEPT !.recv_seq_num = @ + 1]

(* handleMsg: what a message that came over the connection gives, NULL if  *)
(* it is to be ignored.                                                    *)
HandleMsg(w, m) ==
  LET dm == DecryptMsg(w, m)
      InHandshake(yes) == [w |-> w, msg |-> IF yes /\ ~w.peer_authenticated THEN m ELSE NULL]
  IN
  IF m = NULL THEN [w |-> w, msg |-> NULL] ELSE
  CASE m.type = "SECURE_MESSAGE"    ->
         [w |-> IF dm = NULL THEN w ELSE ReceivedOne(w), msg |-> dm]
    [] m.type = "CLIENT_HELLO"      -> InHandshake(w.cl_nonce = 0)
    [] m.type \in {"SERVER_HELLO", "CLIENT_VERIFY"} -> InHandshake(TRUE)
    [] m.type \in {"CERTIFICATE", "CERT_REQ"}       -> [w |-> w, msg |-> m]
    [] OTHER                        -> [w |-> w, msg |-> NULL]

(* One round of receiveMsg, for what handleMsg gave: it goes on waiting     *)
(* after a message that is ignored, and returns NULL after one of another  *)
(* type.                                                                   *)
ReceiveMsg(r, type) ==
  [w |-> r.w, msg |-> r.msg,
   outcome |-> IF r.msg = NULL THEN "again" ELSE IF r.msg.type = type THEN "got" ELSE "other"]
=============================================================================
