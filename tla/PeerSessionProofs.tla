-------------------------- MODULE PeerSessionProofs ---------------------------
(***************************************************************************)
(* The proofs about PeerSession: types, Agreement, FreshIVs, and that the  *)
(* encrypted messages implement a Channel, from SessionInv.                *)
(***************************************************************************)
EXTENDS PeerSessionInvariant, MessagesProofs

(* What can be decrypted is what was encrypted, for whoever has the key    *)
(* and waits for that number (encryptMsg, decryptMsg).                     *)
LEMMA DecryptedIsEncrypted ==
  ASSUME NEW w, NEW sm, NEW key, NEW iv, NEW aad, NEW pt,
         sm.tag = <<"gcm", key, iv, aad, pt>>, DecryptMsg(w, sm) # NULL
  PROVE  /\ w.peer_authenticated
         /\ w.recv.key = key /\ <<w.recv.iv, w.recv_seq_num>> = iv
         /\ DecryptMsg(w, sm) = ReadMessage(pt)
  <1> DEFINE p == Plaintext(sm.ct)
             a == Aad(Len(sm.ct))
             k == w.recv.key
             v == UpdateIV(w.recv_seq_num, w.recv.iv)
  <1>1. TagFits(sm.ct, sm.tag, a, k, v)
    <2>1. ASSUME ~TagFits(sm.ct, sm.tag, a, k, v) PROVE DecryptMsg(w, sm) = NULL
      BY <2>1 DEF DecryptMsg, AesGcmDecrypt
    <2>2. QED
      BY <2>1
  <1>2. sm.tag = <<"gcm", k, v, a, p>>
    BY <1>1 DEF TagFits, AesGcmEncrypt
  <1>3. p = pt /\ k = key /\ v = iv
    BY <1>2
  <1>4. w.peer_authenticated /\ DecryptMsg(w, sm) = ReadMessage(p)
    BY <1>1 DEF DecryptMsg, AesGcmDecrypt
  <1>5. QED
    BY <1>3, <1>4 DEF UpdateIV

LEMMA Users ==
  /\ Host \in User /\ Host \notin Caller /\ Caller \subseteq User /\ Guest \in Caller
  /\ \A u \in User : u = Host \/ u \in Caller
  /\ NULL \notin Caller
  BY SessionAssumption, SignedAssumption DEF User, Caller

LEMMA Lanes ==
  /\ \A c \in Caller : <<c, Host>> \in Lane /\ <<Host, c>> \in Lane
  /\ \A l \in Lane : /\ l = <<l[1], l[2]>> /\ l[1] \in User /\ l[2] \in User
                     /\ \/ l[1] \in Caller /\ l[2] = Host
                        \/ l[1] = Host /\ l[2] \in Caller
  <1>1. \A c \in Caller : <<c, Host>> \in Lane /\ <<Host, c>> \in Lane
    BY DEF Lane
  <1>2. ASSUME NEW l \in Lane
        PROVE  \E c \in Caller : l = <<c, Host>> \/ l = <<Host, c>>
    BY DEF Lane
  <1>3. QED
    BY <1>1, <1>2, Users

-----------------------------------------------------------------------------
(* Sequences on the lanes.                                                 *)
LEMMA InSomeSeq ==
  ASSUME NEW X, NEW s \in Seq(X)
  PROVE  /\ SomeSeq(s) /\ Len(s) \in Nat /\ DOMAIN s = 1 .. Len(s)
         /\ \A i \in 1 .. Len(s) : s[i] \in X
  <1>1. /\ Len(s) \in Nat /\ DOMAIN s = 1 .. Len(s) /\ s \in [1 .. Len(s) -> X]
    BY LenProperties
  <1>2. s \in [1 .. Len(s) -> {s[i] : i \in DOMAIN s}]
    BY <1>1
  <1>3. s \in Seq({s[i] : i \in DOMAIN s})
    BY <1>1, <1>2, SMTT(30)
  <1>4. QED
    BY <1>1, <1>3 DEF SomeSeq

LEMMA SomeTail ==
  ASSUME NEW s, SomeSeq(s), s # <<>>
  PROVE  /\ SomeSeq(Tail(s)) /\ Len(s) \in Nat /\ Len(Tail(s)) = Len(s) - 1
         /\ \A i \in 1 .. Len(Tail(s)) : i + 1 \in 1 .. Len(s) /\ Tail(s)[i] = s[i + 1]
         /\ Head(s) = s[1] /\ 1 \in 1 .. Len(s)
  <1> DEFINE X == {s[i] : i \in DOMAIN s}
  <1>1. s \in Seq(X)
    BY DEF SomeSeq
  <1> HIDE DEF X
  <1>2. /\ Tail(s) \in Seq(X) /\ Len(Tail(s)) = Len(s) - 1
        /\ \A i \in 1 .. Len(Tail(s)) : Tail(s)[i] = s[i + 1]
    BY <1>1, HeadTailProperties
  <1>3. Len(s) \in Nat \ {0}
    BY <1>1, EmptySeq
  <1>4. Head(s) = s[1]
    BY <1>1
  <1>5. SomeSeq(Tail(s))
    BY <1>2, InSomeSeq
  <1>6. QED
    BY <1>2, <1>3, <1>4, <1>5

LEMMA SomeStart ==
  ASSUME NEW s, SomeSeq(s), NEW k \in Nat, k <= Len(s)
  PROVE  /\ SomeSeq(SubSeq(s, 1, k)) /\ Len(SubSeq(s, 1, k)) = k
         /\ \A i \in 1 .. k : i \in 1 .. Len(s) /\ SubSeq(s, 1, k)[i] = s[i]
  <1> DEFINE X == {s[i] : i \in DOMAIN s}
  <1>1. s \in Seq(X)
    BY DEF SomeSeq
  <1> HIDE DEF X
  <1>2. Len(s) \in Nat /\ \A i \in 1 .. k : s[i] \in X
    BY <1>1, InSomeSeq
  <1>3. /\ SubSeq(s, 1, k) \in Seq(X) /\ Len(SubSeq(s, 1, k)) = k
        /\ \A i \in 1 .. k : SubSeq(s, 1, k)[i] = s[i]
    <2>1. SubSeq(s, 1, k) = [i \in 1 .. (k - 1 + 1) |-> s[1 + i - 1]]
      OBVIOUS
    <2>2. k - 1 + 1 = k /\ \A i \in 1 .. k : 1 + i - 1 = i
      OBVIOUS
    <2>3. SubSeq(s, 1, k) = [i \in 1 .. k |-> s[i]]
      BY <2>1, <2>2
    <2> DEFINE t == [i \in 1 .. k |-> s[i]]
    <2>4. t \in Seq(X) /\ Len(t) = k /\ \A i \in 1 .. k : t[i] = s[i]
      BY <1>2
    <2>5. SubSeq(s, 1, k) = t
      BY <2>3
    <2> HIDE DEF t
    <2>6. QED
      BY <2>4, <2>5, Zenon
  <1> DEFINE q == SubSeq(s, 1, k)
  <1>4. q \in Seq(X) /\ Len(q) = k /\ \A i \in 1 .. k : q[i] = s[i]
    BY <1>3
  <1> HIDE DEF q
  <1>5. SomeSeq(q)
    BY <1>4, InSomeSeq
  <1>6. \A i \in 1 .. k : i \in 1 .. Len(s)
    BY <1>2
  <1>7. QED
    BY <1>4, <1>5, <1>6 DEF q

LEMMA SomeAppend ==
  ASSUME NEW s, SomeSeq(s), NEW m
  PROVE  LET t == s \o [i \in DOMAIN <<m>> |-> Write(<<m>>[i])] IN
         /\ SomeSeq(t) /\ Len(s) \in Nat /\ Len(t) = Len(s) + 1
         /\ \A i \in 1 .. Len(s) : t[i] = s[i]
         /\ t[Len(s) + 1] = Write(m)
  <1> DEFINE X == {s[i] : i \in DOMAIN s} \cup {Write(m)}
             w == [i \in DOMAIN <<m>> |-> Write(<<m>>[i])]
  <1>1. s \in Seq(X)
    BY DEF SomeSeq
  <1>2. w = <<Write(m)>>
    OBVIOUS
  <1>3. <<Write(m)>> \in Seq(X) /\ Len(<<Write(m)>>) = 1 /\ <<Write(m)>>[1] = Write(m)
    OBVIOUS
  <1> HIDE DEF X, w
  <1> DEFINE t == s \o w
  <1>4. /\ t \in Seq(X) /\ Len(t) = Len(s) + 1
        /\ \A i \in 1 .. Len(s) + 1 : t[i] = IF i <= Len(s) THEN s[i] ELSE w[i - Len(s)]
    BY <1>1, <1>2, <1>3, ConcatProperties
  <1> HIDE DEF t
  <1>5. Len(s) \in Nat
    BY <1>1, InSomeSeq
  <1>6. SomeSeq(t)
    BY <1>4, InSomeSeq
  <1>7. t[Len(s) + 1] = w[1]
    BY <1>4, <1>5
  <1>8. \A i \in 1 .. Len(s) : t[i] = s[i]
    BY <1>4, <1>5
  <1>9. QED
    BY <1>2, <1>3, <1>4, <1>5, <1>6, <1>7, <1>8 DEF t, w

-----------------------------------------------------------------------------
(* What is encrypted, and what is read on a lane.                          *)
LEMMA GameFields ==
  /\ "START_GAME_PEER" \in MessageType /\ Fields("START_GAME_PEER") = {}
  /\ "MOVE" \in MessageType /\ Fields("MOVE") = {"col"}
  <1>1. PlayFields["START_GAME_PEER"] = {} /\ PlayFields["MOVE"] = {"col"}
    BY DEF PlayFields
  <1>2. "START_GAME_PEER" \in DOMAIN PlayFields /\ "MOVE" \in DOMAIN PlayFields
    BY DEF PlayFields
  <1>3. /\ "START_GAME_PEER" \notin DOMAIN LobbyFields /\ "MOVE" \notin DOMAIN LobbyFields
        /\ "START_GAME_PEER" \notin DOMAIN ChannelFields /\ "MOVE" \notin DOMAIN ChannelFields
    BY DEF LobbyFields, ChannelFields
  <1>4. QED
    BY <1>1, <1>2, <1>3 DEF MessageType, Fields

LEMMA GameReadBack ==
  ASSUME NEW m \in GameMessage
  PROVE  /\ ReadMessage(Write(m)) \in {NULL, m}
         /\ IsSeq(Write(m)) /\ Len(Write(m)) \in 1 .. 2
         /\ m.type \in {"START_GAME_PEER", "MOVE"} /\ IsMessage(m)
  <1>1. CASE m = [type |-> "START_GAME_PEER"]
    <2>1. IsMessage(m) /\ m.type = "START_GAME_PEER"
      BY <1>1, GameFields DEF IsMessage
    <2>2. QED
      BY <1>1, <2>1, StartReadBack
  <1>2. CASE m \in [type : {"MOVE"}, col : Column]
    <2>1. PICK k \in Column : m = [type |-> "MOVE", col |-> k]
      BY <1>2
    <2>2. k \in -128 .. 127 /\ k # Garbage
      BY SignedAssumption
    <2>3. IsMessage(m) /\ m.type = "MOVE"
      BY <2>1, <2>2, GameFields DEF IsMessage
    <2>4. ReadMessage(Write(m)) \in {NULL, m} /\ IsSeq(Write(m)) /\ Len(Write(m)) = 2
      BY <2>1, <2>2, MoveReadBack, Zenon
    <2>5. QED
      BY <2>3, <2>4
  <1>3. QED
    BY <1>1, <1>2 DEF GameMessage

GcmTag(w, n, m) ==
  <<"gcm", w.send.key, UpdateIV(n, w.send.iv), Aad(Len(Write(m))), Write(m)>>

LEMMA EncryptedForm ==
  ASSUME NEW w, w.peer_authenticated, NEW m \in GameMessage
  PROVE  \E ct : /\ IsSeq(ct)
                 /\ EncryptMsg(w, m) = [type |-> "SECURE_MESSAGE", ct |-> ct,
                                        tag |-> GcmTag(w, w.send_seq_num, m)]
  <1> DEFINE pt == Write(m)
             iv == UpdateIV(w.send_seq_num, w.send.iv)
             ct == [i \in DOMAIN pt |-> <<"ct", i, <<w.send.key, iv, pt[i]>>>>]
  <1>1. IsSeq(pt) /\ Len(pt) \in 1 .. 2
    BY GameReadBack
  <1>2. DOMAIN pt = 1 .. Len(pt)
    BY <1>1 DEF IsSeq
  <1>3. ~(Len(pt) > MaxSecMsgSize)
    <2>1. MaxSecMsgSize \in Int
      BY WidthsPositive, MessagesAssumption DEF MaxSecMsgSize
    <2>2. 2 <= MaxSecMsgSize
      BY SignedAssumption
    <2>3. \A k \in 1 .. 2 : ~(k > MaxSecMsgSize)
      BY <2>1, <2>2
    <2>4. QED
      BY <1>1, <2>3
  <1>4. EncryptMsg(w, m) = [type |-> "SECURE_MESSAGE", ct |-> ct,
                            tag |-> GcmTag(w, w.send_seq_num, m)]
    BY <1>3 DEF EncryptMsg, AesGcmEncrypt, GcmTag
  <1>5. IsSeq(ct)
    <2> DEFINE c == ct
    <2>1. c = [i \in 1 .. Len(pt) |-> c[i]]
      BY <1>2
    <2> HIDE DEF c
    <2>2. IsSeq(c)
      BY <1>1, <2>1, FunctionIsSeq
    <2>3. QED
      BY <2>2 DEF c
  <1> HIDE DEF ct
  <1>6. QED
    BY <1>4, <1>5

(* Records of the wrapper.                                                 *)
Fields0 == DOMAIN Wrapper(NULL)

LEMMA WrapperFields ==
  Fields0 = {"my_cert", "other_cert", "peer_authenticated", "cl_nonce", "sv_nonce",
             "my_eph_key", "other_eph_key", "send", "recv", "send_seq_num", "recv_seq_num"}
  BY DEF Fields0, Wrapper

(* What is read on a lane, if anything: a hello of a caller, or what the   *)
(* program at the other end signed or encrypted.                           *)
Genuine(l, m) ==
  \/ m.type = "CLIENT_HELLO" /\ l[1] \in Caller
  \/ /\ m.type = "CLIENT_VERIFY" /\ l[1] \in Caller /\ Authentic(l[1])
     /\ m.ds = MakeSignature(sw[l[1]], "client")
  \/ /\ m.type = "SERVER_HELLO" /\ l[1] = Host /\ Answered /\ accepted = l[2]
     /\ m.ds = MakeSignature(sw[Host], "server")
  \/ /\ m.type = "SECURE_MESSAGE"
     /\ \E n \in 1 .. Len(sent[l]) : m.tag = GcmTag(sw[l[1]], n - 1, sent[l][n])

LEMMA ReadOnLane ==
  ASSUME WrappersOK, NumbersOK, HistoryOK, NEW l \in Lane, NEW b, MayBeOn(l, b),
         ReadMessage(b) # NULL
  PROVE  Genuine(l, ReadMessage(b))
  <1>1. CASE l[1] \in Caller /\ Called(l[1]) /\ b = Write(CallersHello(sw[l[1]]))
    <2>1. CallersHello(sw[l[1]]).type = "CLIENT_HELLO"
      BY DEF CallersHello
    <2>2. ReadMessage(b).type = "CLIENT_HELLO"
      BY <1>1, <2>1, ClientHelloReadBack
    <2>3. QED
      BY <1>1, <2>2 DEF Genuine
  <1>2. CASE l[1] \in Caller /\ Authentic(l[1]) /\ b = Write(CallersProof(sw[l[1]]))
    <2>1. ReadMessage(b) = CallersProof(sw[l[1]])
      BY <1>2, VerifyReadBack DEF CallersProof
    <2>2. QED
      BY <1>2, <2>1 DEF Genuine, CallersProof
  <1>3. CASE l[1] = Host /\ Answered /\ accepted = l[2] /\ b = Write(HostsHello(sw[Host]))
    <2>1. /\ HostsHello(sw[Host]).type = "SERVER_HELLO"
          /\ HostsHello(sw[Host]).ds = MakeSignature(sw[Host], "server")
      BY DEF HostsHello
    <2>2. /\ ReadMessage(b).type = "SERVER_HELLO"
          /\ ReadMessage(b).ds = MakeSignature(sw[Host], "server")
      BY <1>3, <2>1, ServerHelloReadBack
    <2>3. QED
      BY <1>3, <2>2 DEF Genuine
  <1>4. CASE \E n \in 1 .. Len(sent[l]) : b = Write(Record(l, n))
    <2>1. PICK n \in 1 .. Len(sent[l]) : b = Write(Record(l, n))
      BY <1>4
    <2> DEFINE w == sw[l[1]]
               v == Numbered(w, n - 1)
               x == sent[l][n]
    <2>2. x \in GameMessage /\ sent[l] # <<>>
      BY <2>1 DEF HistoryOK
    <2>3. w.peer_authenticated /\ DOMAIN w = Fields0
      BY <2>2, Lanes DEF NumbersOK, WrappersOK, Authentic, Fields0
    <2>4. v.peer_authenticated /\ v.send = w.send /\ v.send_seq_num = n - 1
      BY <2>3, WrapperFields DEF Numbered
    <2>5. Record(l, n) = EncryptMsg(v, x)
      BY DEF Record
    <2> HIDE DEF v, x, w
    <2>6. PICK ct : /\ IsSeq(ct)
                    /\ EncryptMsg(v, x) = [type |-> "SECURE_MESSAGE", ct |-> ct,
                                           tag |-> GcmTag(v, v.send_seq_num, x)]
      BY <2>2, <2>4, EncryptedForm
    <2>7. ReadMessage(b) = [type |-> "SECURE_MESSAGE", ct |-> ct,
                            tag |-> GcmTag(v, v.send_seq_num, x)]
      BY <2>1, <2>5, <2>6, SecureReadBack
    <2>8. GcmTag(v, v.send_seq_num, x) = GcmTag(w, n - 1, x)
      BY <2>4 DEF GcmTag
    <2>9. QED
      BY <2>1, <2>7, <2>8 DEF Genuine, w, x
  <1>5. QED
    BY <1>1, <1>2, <1>3, <1>4 DEF MayBeOn

-----------------------------------------------------------------------------
(* Receiving, before and after the peer is authenticated.                  *)
LEMMA Receipt ==
  ASSUME NEW u, NEW l \in Lane, NEW type, NEW r \in Receiving(u, l, type), WiresGenuine
  PROVE  /\ wire[l] # <<>> /\ MayBeOn(l, Head(wire[l]))
         /\ \E h : /\ h = HandleMsg(sw[u], ReadMessage(Head(wire[l])))
                   /\ r = ReceiveMsg(h, type)
  <1>1. wire[l] # <<>>
    BY DEF Receiving, Arrived
  <1>2. \E h : h = HandleMsg(sw[u], ReadMessage(Head(wire[l]))) /\ r = ReceiveMsg(h, type)
    BY <1>1 DEF Receiving, Arrived
  <1>3. MayBeOn(l, Head(wire[l]))
    <2>1. SomeSeq(wire[l]) /\ \A i \in 1 .. Len(wire[l]) : MayBeOn(l, wire[l][i])
      BY DEF WiresGenuine
    <2>2. QED
      BY <1>1, <2>1, SomeTail
  <1>4. QED
    BY <1>1, <1>2, <1>3

LEMMA ReceiptBefore ==
  ASSUME WrappersOK, NumbersOK, HistoryOK, WiresGenuine, NEW u \in User, ~Authentic(u),
         NEW l \in Lane, NEW type, NEW r \in Receiving(u, l, type)
  PROVE  /\ wire[l] # <<>> /\ r.w = sw[u]
         /\ r.outcome \in {"got", "again", "other"}
         /\ r.outcome = "got" => r.msg # NULL /\ r.msg.type = type /\ Genuine(l, r.msg)
         /\ r.outcome = "again" => r.msg = NULL
  <1>1. PICK h : h = HandleMsg(sw[u], ReadMessage(Head(wire[l]))) /\ r = ReceiveMsg(h, type)
    BY Receipt
  <1> DEFINE m == ReadMessage(Head(wire[l]))
  <1>2. DecryptMsg(sw[u], m) = NULL
    BY DEF DecryptMsg, Authentic
  <1>3. h.w = sw[u] /\ h.msg \in {NULL, m}
    <2> HIDE DEF m
    <2>1. h = HandleMsg(sw[u], m)
      BY <1>1 DEF m
    <2>2. QED
      BY <1>2, <2>1 DEF HandleMsg
  <1>4. /\ r.w = h.w /\ r.msg = h.msg
        /\ r.outcome = IF h.msg = NULL THEN "again" ELSE IF h.msg.type = type THEN "got" ELSE "other"
    BY <1>1 DEF ReceiveMsg
  <1>5. m # NULL => Genuine(l, m)
    BY Receipt, ReadOnLane
  <1> HIDE DEF m
  <1>6. QED
    BY <1>3, <1>4, <1>5, Receipt

LEMMA ReceiptAfter ==
  ASSUME WrappersOK, NumbersOK, HistoryOK, WiresGenuine, NEW u \in User, Authentic(u),
         NEW l \in Lane, NEW type, NEW r \in Receiving(u, l, type)
  PROVE  /\ wire[l] # <<>>
         /\ \/ r.msg = NULL /\ r.w = sw[u] /\ r.outcome = "again"
            \/ /\ r.msg # NULL /\ r.w = ReceivedOne(sw[u])
               /\ r.outcome = IF r.msg.type = type THEN "got" ELSE "other"
               /\ \E n \in 1 .. Len(sent[l]) :
                    /\ r.msg = sent[l][n] /\ sw[u].recv.key = sw[l[1]].send.key
                    /\ sw[u].recv_seq_num = n - 1
  <1>1. PICK h : h = HandleMsg(sw[u], ReadMessage(Head(wire[l]))) /\ r = ReceiveMsg(h, type)
    BY Receipt
  <1> DEFINE m == ReadMessage(Head(wire[l]))
             w == sw[u]
  <1>2. /\ r.w = h.w /\ r.msg = h.msg
        /\ r.outcome = IF h.msg = NULL THEN "again" ELSE IF h.msg.type = type THEN "got" ELSE "other"
    BY <1>1 DEF ReceiveMsg
  <1>3. w.peer_authenticated
    BY DEF Authentic
  <1>4. h = HandleMsg(w, m)
    BY <1>1
  <1>5. CASE m = NULL
    <2>1. h.msg = NULL /\ h.w = w
      <3> HIDE DEF m, w
      <3>1. QED
        BY <1>4, <1>5 DEF HandleMsg
    <2>2. QED
      BY <1>2, <2>1, Receipt
  <1>6. CASE m # NULL
    <2>1. Genuine(l, m)
      BY <1>6, Receipt, ReadOnLane
    <2>2. CASE m.type # "SECURE_MESSAGE"
      <3>1. m.type \in {"CLIENT_HELLO", "CLIENT_VERIFY", "SERVER_HELLO"}
        BY <2>1, <2>2 DEF Genuine
      <3>2. h.msg = NULL /\ h.w = w
        <4> HIDE DEF m, w
        <4>1. QED
          BY <1>3, <1>4, <1>6, <3>1 DEF HandleMsg
      <3>3. QED
        BY <1>2, <3>2, Receipt
    <2>3. CASE m.type = "SECURE_MESSAGE"
      <3>1. PICK n \in 1 .. Len(sent[l]) : m.tag = GcmTag(sw[l[1]], n - 1, sent[l][n])
        BY <2>1, <2>3 DEF Genuine
      <3>2. /\ h.w = IF DecryptMsg(w, m) = NULL THEN w ELSE ReceivedOne(w)
            /\ h.msg = DecryptMsg(w, m)
        <4> HIDE DEF m, w
        <4>1. QED
          BY <1>4, <1>6, <2>3 DEF HandleMsg
      <3>3. CASE DecryptMsg(w, m) = NULL
        BY <1>2, <3>2, <3>3, Receipt
      <3>4. CASE DecryptMsg(w, m) # NULL
        <4> DEFINE x == sent[l][n]
                   v == sw[l[1]]
        <4>1. /\ w.recv.key = v.send.key /\ <<w.recv.iv, w.recv_seq_num>> = UpdateIV(n - 1, v.send.iv)
              /\ DecryptMsg(w, m) = ReadMessage(Write(x))
          <5> HIDE DEF m, w
          <5>1. m.tag = <<"gcm", v.send.key, UpdateIV(n - 1, v.send.iv), Aad(Len(Write(x))), Write(x)>>
            BY <3>1 DEF GcmTag
          <5> HIDE DEF v, x
          <5>2. QED
            BY <3>4, <5>1, DecryptedIsEncrypted
        <4>2. x \in GameMessage
          BY DEF HistoryOK
        <4>3. DecryptMsg(w, m) = x
          BY <3>4, <4>1, <4>2, GameReadBack
        <4>4. w.recv_seq_num = n - 1
          BY <4>1 DEF UpdateIV
        <4>5. r.msg = x /\ r.msg # NULL /\ r.w = ReceivedOne(w)
              /\ r.outcome = IF r.msg.type = type THEN "got" ELSE "other"
          BY <1>2, <3>2, <3>4, <4>3
        <4>6. wire[l] # <<>>
          BY Receipt
        <4> HIDE DEF m
        <4>7. QED
          BY <4>1, <4>4, <4>5, <4>6
      <3>5. QED
        BY <3>3, <3>4
    <2>4. QED
      BY <2>2, <2>3
  <1>7. QED
    BY <1>5, <1>6

-----------------------------------------------------------------------------
(* What the steps do to the lanes: take the first message, add a message,  *)
(* lose some.                                                              *)
Has(s, b) == \E i \in 1 .. Len(s) : b = s[i]
Wires(w)  == DOMAIN w = Lane /\ \A l \in Lane : SomeSeq(w[l])

LEMMA EmptyWire == SomeSeq(<<>>) /\ \A b : ~Has(<<>>, b)
  <1>1. SomeSeq(<<>>)
    BY EmptySeq, InSomeSeq
  <1>2. QED
    BY <1>1, EmptySeq DEF Has

LEMMA TakenWires ==
  ASSUME NEW w, Wires(w), NEW k \in Lane, w[k] # <<>>
  PROVE  /\ Wires(Taken(w, k))
         /\ \A l \in Lane : \A b : Has(Taken(w, k)[l], b) => Has(w[l], b)
  <1>1. DOMAIN Taken(w, k) = Lane /\ Taken(w, k)[k] = Tail(w[k])
        /\ \A l \in Lane : l # k => Taken(w, k)[l] = w[l]
    BY DEF Taken, Wires
  <1>2. SomeSeq(Tail(w[k])) /\ \A b : Has(Tail(w[k]), b) => Has(w[k], b)
    BY SomeTail DEF Wires, Has
  <1>3. QED
    BY <1>1, <1>2 DEF Wires

LEMMA SendsWires ==
  ASSUME NEW w, Wires(w), NEW k \in Lane, NEW m
  PROVE  /\ Wires(Sends(w, k, <<m>>))
         /\ \A l \in Lane : \A b : Has(Sends(w, k, <<m>>)[l], b) =>
                                 Has(w[l], b) \/ (l = k /\ b = Write(m))
  <1>1. ASSUME NEW v, v = Sends(w, k, <<m>>)
        PROVE  Wires(v) /\ \A l \in Lane : \A b : Has(v[l], b) => Has(w[l], b) \/ (l = k /\ b = Write(m))
    <2>1. CASE Back(k) \in closed
      <3>1. v = w
        BY <1>1, <2>1 DEF Sends
      <3>2. QED
        BY <3>1 DEF Wires, Has
    <2>2. CASE Back(k) \notin closed
      <3>1. ASSUME NEW t, t = w[k] \o [i \in DOMAIN <<m>> |-> Write(<<m>>[i])]
            PROVE  SomeSeq(t) /\ \A b : Has(t, b) => Has(w[k], b) \/ b = Write(m)
        <4>1. /\ SomeSeq(t) /\ Len(w[k]) \in Nat /\ Len(t) = Len(w[k]) + 1
              /\ \A i \in 1 .. Len(w[k]) : t[i] = w[k][i]
              /\ t[Len(w[k]) + 1] = Write(m)
          BY <3>1, SomeAppend DEF Wires
        <4>2. \A i \in 1 .. Len(t) : i \in 1 .. Len(w[k]) \/ i = Len(w[k]) + 1
          BY <4>1
        <4>3. QED
          BY <4>1, <4>2 DEF Has
      <3>2. /\ DOMAIN v = Lane /\ v[k] = w[k] \o [i \in DOMAIN <<m>> |-> Write(<<m>>[i])]
            /\ \A l \in Lane : l # k => v[l] = w[l]
        BY <1>1, <2>2 DEF Sends, Wires
      <3>3. SomeSeq(v[k]) /\ \A b : Has(v[k], b) => Has(w[k], b) \/ b = Write(m)
        BY <3>1, <3>2
      <3>4. QED
        BY <3>2, <3>3 DEF Wires, Has
    <2>3. QED
      BY <2>1, <2>2
  <1>2. QED
    BY <1>1

LEMMA DrainedWires ==
  ASSUME NEW w, Wires(w), NEW lanes
  PROVE  /\ Wires(Drained(w, lanes))
         /\ \A l \in Lane : \A b : Has(Drained(w, lanes)[l], b) => Has(w[l], b)
  BY EmptyWire DEF Drained, Wires

LEMMA WiresStayGenuine ==
  ASSUME WiresGenuine, Wires(wire'),
         \A l \in Lane : \A b : MayBeOn(l, b) => MayBeOn(l, b)',
         \A l \in Lane : \A b : Has(wire'[l], b) => Has(wire[l], b) \/ MayBeOn(l, b)'
  PROVE  WiresGenuine'
  <1>1. ASSUME NEW l \in Lane, NEW b, Has(wire'[l], b) PROVE MayBeOn(l, b)'
    <2>1. Has(wire[l], b) => MayBeOn(l, b)
      BY DEF WiresGenuine, Has
    <2>2. QED
      BY <1>1, <2>1
  <1>2. ASSUME NEW l \in Lane, NEW i \in 1 .. Len(wire'[l]) PROVE Has(wire'[l], wire'[l][i])
    BY DEF Has
  <1>3. ASSUME NEW l \in Lane PROVE (\A i \in 1 .. Len(wire[l]) : MayBeOn(l, wire[l][i]))'
    BY <1>1, <1>2
  <1>4. QED
    BY <1>3 DEF WiresGenuine, Wires

LEMMA GenuineWires == ASSUME WiresGenuine PROVE Wires(wire)
  BY DEF WiresGenuine, Wires
-----------------------------------------------------------------------------
(* What of a wrapper its hellos, signatures, keys and tags are made of: the *)
(* rest may change.                                                        *)
KeptFields == {"my_cert", "other_cert", "cl_nonce", "sv_nonce", "my_eph_key",
               "other_eph_key", "send", "recv"}
Kept(w, v) == DOMAIN v = DOMAIN w /\ \A f \in KeptFields : v[f] = w[f]

DerivedKeys(w, who) ==
  [key |-> Hkdf(Dhke(w.my_eph_key, w.other_eph_key), w.sv_nonce, w.cl_nonce, <<"key_", who>>),
   iv  |-> Hkdf(Dhke(w.my_eph_key, w.other_eph_key), w.sv_nonce, w.cl_nonce, <<"iv__", who>>)]

LEMMA KeysGenerated ==
  ASSUME NEW w, DOMAIN w = Fields0, NEW role
  PROVE  /\ DOMAIN GenerateKeys(w, role) = Fields0
         /\ GenerateKeys(w, role).send = DerivedKeys(w, role)
         /\ GenerateKeys(w, role).recv = DerivedKeys(w, OtherRole(role))
         /\ \A f \in Fields0 \ {"send", "recv"} : GenerateKeys(w, role)[f] = w[f]
         /\ Keyed(GenerateKeys(w, role), role)
         /\ Keyed(w, role) <=> /\ w.send = DerivedKeys(w, role)
                               /\ w.recv = DerivedKeys(w, OtherRole(role))
  <1> DEFINE S == DerivedKeys(w, role)
             R == DerivedKeys(w, OtherRole(role))
             v == [w EXCEPT !.send = S, !.recv = R]
  <1>1. GenerateKeys(w, role) = v
    BY DEF GenerateKeys, DerivedKeys
  <1> HIDE DEF S, R
  <1>2. /\ DOMAIN v = Fields0 /\ v.send = S /\ v.recv = R
        /\ \A f \in Fields0 \ {"send", "recv"} : v[f] = w[f]
    BY WrapperFields
  <1> HIDE DEF v
  <1>3. DerivedKeys(v, role) = S /\ DerivedKeys(v, OtherRole(role)) = R
    BY <1>2, WrapperFields DEF DerivedKeys, S, R
  <1>4. GenerateKeys(v, role) = [v EXCEPT !.send = S, !.recv = R]
    BY <1>3 DEF GenerateKeys, DerivedKeys
  <1>5. Keyed(v, role)
    BY <1>2, <1>4, WrapperFields DEF Keyed
  <1>6. Keyed(w, role) <=> w.send = S /\ w.recv = R
    BY <1>1, <1>2 DEF Keyed
  <1>7. QED
    BY <1>1, <1>2, <1>5, <1>6 DEF S, R

LEMMA KeptSame ==
  ASSUME NEW w, NEW v, DOMAIN w = Fields0, Kept(w, v)
  PROVE  /\ CallersHello(v) = CallersHello(w) /\ HostsHello(v) = HostsHello(w)
         /\ CallersProof(v) = CallersProof(w)
         /\ \A role : MsgToSign(v, role) = MsgToSign(w, role)
         /\ \A role : Keyed(v, role) <=> Keyed(w, role)
         /\ \A n, m : GcmTag(v, n, m) = GcmTag(w, n, m)
  <1>1. /\ v.my_cert = w.my_cert /\ v.other_cert = w.other_cert
        /\ v.cl_nonce = w.cl_nonce /\ v.sv_nonce = w.sv_nonce
        /\ v.my_eph_key = w.my_eph_key /\ v.other_eph_key = w.other_eph_key
        /\ v.send = w.send /\ v.recv = w.recv /\ DOMAIN v = Fields0
    BY DEF Kept, KeptFields
  <1>2. MyId(v) = MyId(w) /\ OtherId(v) = OtherId(w)
    BY <1>1 DEF MyId, OtherId
  <1>3. \A role : MsgToSign(v, role) = MsgToSign(w, role)
    BY <1>1, <1>2 DEF MsgToSign
  <1>4. \A role : MakeSignature(v, role) = MakeSignature(w, role)
    BY <1>2, <1>3 DEF MakeSignature
  <1>5. \A n, m : GcmTag(v, n, m) = GcmTag(w, n, m)
    BY <1>1 DEF GcmTag
  <1>6. \A who : DerivedKeys(v, who) = DerivedKeys(w, who)
    BY <1>1 DEF DerivedKeys
  <1>7. \A role : Keyed(v, role) <=> Keyed(w, role)
    BY <1>1, <1>6, KeysGenerated
  <1>8. /\ CallersHello(v) = CallersHello(w) /\ HostsHello(v) = HostsHello(w)
        /\ CallersProof(v) = CallersProof(w)
    BY <1>1, <1>2, <1>4 DEF CallersHello, HostsHello, CallersProof
  <1>9. QED
    BY <1>3, <1>5, <1>7, <1>8

(* The encrypted form of the n-th message stays what it is.                *)
LEMMA RecordsSame ==
  ASSUME NEW w, NEW v, DOMAIN w = Fields0, Kept(w, v), w.peer_authenticated,
         v.peer_authenticated, NEW n, NEW m
  PROVE  EncryptMsg(Numbered(v, n), m) = EncryptMsg(Numbered(w, n), m)
  <1> DEFINE a == Numbered(v, n)
             b == Numbered(w, n)
  <1>1. v.send = w.send /\ DOMAIN v = Fields0
    BY DEF Kept, KeptFields
  <1>2. a.send = b.send /\ a.send_seq_num = b.send_seq_num
        /\ a.peer_authenticated /\ b.peer_authenticated
    BY <1>1, WrapperFields DEF Numbered
  <1> HIDE DEF a, b
  <1>3. EncryptMsg(a, m) = EncryptMsg(b, m)
    BY <1>2 DEF EncryptMsg
  <1>4. QED
    BY <1>3 DEF a, b

(* The two directions have different keys.                                 *)
LEMMA KeysDiffer ==
  ASSUME NEW w, NEW v, DOMAIN w = Fields0, DOMAIN v = Fields0,
         Keyed(w, "client"), Keyed(v, "server")
  PROVE  w.send.key # v.send.key
  <1>1. w.send = DerivedKeys(w, "client") /\ v.send = DerivedKeys(v, "server")
    BY KeysGenerated
  <1>2. QED
    BY <1>1 DEF DerivedKeys, Hkdf

-----------------------------------------------------------------------------
(* The parts of the invariant that a step leaves as they are.              *)
PlacesKept ==
  /\ DOMAIN pc' = User
  /\ \A u \in User : /\ pc[u] \in Stopped => pc'[u] \in Stopped
                     /\ pc'[u] \in {"start", "mine", "theirs"} => pc'[u] = pc[u]

LEMMA GameMessages ==
  ASSUME NEW s \in Seq(GameMessage) PROVE \A i \in DOMAIN s : IsMessage(s[i])
  <1>1. ASSUME NEW i \in DOMAIN s PROVE IsMessage(s[i])
    <2>1. s[i] \in GameMessage
      OBVIOUS
    <2>2. QED
      BY <2>1, GameReadBack
  <1>2. QED
    BY <1>1

LEMMA HistoryStays ==
  ASSUME HistoryOK, PlacesKept, UNCHANGED <<sent, got>>,
         pc'[Host] \in {"mine", "theirs"} => accepted' = accepted
  PROVE  HistoryOK'
  <1>1. /\ DOMAIN sent' = Lane /\ DOMAIN got' = Lane
        /\ \A l \in Lane : /\ sent'[l] \in Seq(GameMessage) /\ got'[l] \in Seq(GameMessage)
                           /\ Len(got'[l]) <= Len(sent'[l])
                           /\ \A i \in 1 .. Len(got'[l]) : got'[l][i] = sent'[l][i]
                           /\ \A i \in 1 .. Len(sent'[l]) :
                                sent'[l][i].type = "START_GAME_PEER" <=> l[2] = Host /\ i = 1
    BY DEF HistoryOK
  <1>2. ASSUME NEW c \in Caller
        PROVE  /\ pc'[c] \in {"mine", "theirs"} => sent'[<<c, Host>>] # <<>>
               /\ pc'[Host] = "start" => got'[<<c, Host>>] = <<>>
               /\ pc'[Host] \in {"mine", "theirs"} /\ accepted' = c => got'[<<c, Host>>] # <<>>
    BY Users DEF HistoryOK, PlacesKept
  <1>3. QED
    BY <1>1, <1>2 DEF HistoryOK

LEMMA SealedStays ==
  ASSUME SealedOK, sealed' = sealed,
         \A u \in User : pc[u] \in Stopped => pc'[u] \in Stopped,
         \A u \in User : Authentic(u) =>
           /\ Authentic(u)' /\ sw'[u].send = sw[u].send
           /\ sw'[u].send_seq_num = sw[u].send_seq_num
  PROVE  SealedOK'
  <1>1. FreshIVs'
    BY DEF SealedOK, FreshIVs
  <1>2. ASSUME NEW s \in sealed PROVE \E u \in User : MadeBy(s, u)'
    <2>1. PICK u \in User : MadeBy(s, u)
      BY DEF SealedOK
    <2>2. MadeBy(s, u)'
      BY <2>1 DEF MadeBy
    <2>3. QED
      BY <2>2
  <1>3. QED
    BY <1>1, <1>2 DEF SealedOK

(* What may have been written on the lanes.                                *)
CallersSame == \A c \in Caller : Called(c) =>
  /\ Called(c)' /\ CallersHello(sw'[c]) = CallersHello(sw[c])
  /\ Authentic(c) => Authentic(c)' /\ CallersProof(sw'[c]) = CallersProof(sw[c])
HostSame == Answered =>
  /\ Answered' /\ accepted' = accepted /\ HostsHello(sw'[Host]) = HostsHello(sw[Host])
RecordsKept == \A l \in Lane :
  /\ Len(sent[l]) \in Nat /\ Len(sent'[l]) \in Nat /\ Len(sent[l]) <= Len(sent'[l])
  /\ \A n \in 1 .. Len(sent[l]) : Record(l, n)' = Record(l, n)

LEMMA MayBeOnStays ==
  ASSUME CallersSame, HostSame, RecordsKept, \A c \in Caller : CallerOK(c),
         NEW l \in Lane, NEW b, MayBeOn(l, b)
  PROVE  MayBeOn(l, b)'
  <1>1. CASE l[1] \in Caller /\ Called(l[1]) /\ b = Write(CallersHello(sw[l[1]]))
    BY <1>1 DEF MayBeOn, CallersSame
  <1>2. CASE l[1] \in Caller /\ Authentic(l[1]) /\ b = Write(CallersProof(sw[l[1]]))
    BY <1>2 DEF MayBeOn, CallersSame, CallerOK
  <1>3. CASE l[1] = Host /\ Answered /\ accepted = l[2] /\ b = Write(HostsHello(sw[Host]))
    BY <1>3 DEF MayBeOn, HostSame
  <1>4. CASE \E n \in 1 .. Len(sent[l]) : b = Write(Record(l, n))
    <2>1. PICK n \in 1 .. Len(sent[l]) : b = Write(Record(l, n))
      BY <1>4
    <2>2. n \in 1 .. Len(sent'[l])
      BY DEF RecordsKept
    <2>3. b = Write(Record(l, n)')
      BY <2>1 DEF RecordsKept
    <2>4. QED
      BY <2>2, <2>3 DEF MayBeOn
  <1>5. QED
    BY <1>1, <1>2, <1>3, <1>4 DEF MayBeOn

(* The records stay when those who have sent any change nothing of what    *)
(* they are made of, and messages are only added.                          *)
LEMMA RecordsGrow ==
  ASSUME WrappersOK, NumbersOK, HistoryOK,
         \A l \in Lane : /\ Len(sent'[l]) \in Nat /\ Len(sent[l]) <= Len(sent'[l])
                         /\ \A n \in 1 .. Len(sent[l]) : sent'[l][n] = sent[l][n],
         \A u \in User : Authentic(u) => Kept(sw[u], sw'[u]) /\ Authentic(u)'
  PROVE  RecordsKept
  <1>1. ASSUME NEW l \in Lane PROVE Len(sent[l]) \in Nat
    BY DEF HistoryOK
  <1>2. ASSUME NEW l \in Lane, NEW n \in 1 .. Len(sent[l]) PROVE Record(l, n)' = Record(l, n)
    <2>1. sent[l] # <<>>
      BY <1>1, <1>2
    <2>2. Authentic(l[1]) /\ l[1] \in User
      BY <2>1, Lanes DEF NumbersOK
    <2> DEFINE w == sw[l[1]]
               v == sw'[l[1]]
               k == n - 1
               m == sent[l][n]
    <2>3. /\ DOMAIN w = Fields0 /\ Kept(w, v)
          /\ w.peer_authenticated /\ v.peer_authenticated
      BY <2>2 DEF WrappersOK, Fields0, Authentic
    <2>4. Record(l, n) = EncryptMsg(Numbered(w, k), m)
      BY DEF Record
    <2>5. Record(l, n)' = EncryptMsg(Numbered(v, k), m)
      <3>1. sent'[l][n] = m
        OBVIOUS
      <3> HIDE DEF m
      <3>2. QED
        BY <3>1 DEF Record
    <2> HIDE DEF w, v, k, m
    <2>6. EncryptMsg(Numbered(v, k), m) = EncryptMsg(Numbered(w, k), m)
      BY <2>3, RecordsSame
    <2>7. QED
      BY <2>4, <2>5, <2>6
  <1>3. QED
    BY <1>1, <1>2 DEF RecordsKept

LEMMA RecordsStay ==
  ASSUME WrappersOK, NumbersOK, HistoryOK, sent' = sent,
         \A u \in User : Authentic(u) => Kept(sw[u], sw'[u]) /\ Authentic(u)'
  PROVE  RecordsKept
  <1>1. ASSUME NEW l \in Lane PROVE Len(sent[l]) \in Nat
    BY DEF HistoryOK
  <1>2. QED
    BY <1>1, RecordsGrow

-----------------------------------------------------------------------------
(* A step in which nobody's wrapper changes and nothing is sent: programs  *)
(* stay or stop, or the host's begins to listen.                           *)
Places == {"bind", "accept", "hello", "verify", "start", "mine", "theirs"} \cup Stopped
CallerPlaces == {"connect", "await", "mine", "theirs"} \cup Stopped

CountsStep ==
  /\ lost \subseteq lost' /\ lost' \subseteq closed' /\ lost' \subseteq Lane
  /\ DOMAIN tries' = Caller
  /\ \A c \in Caller : /\ tries'[c] \in 0 .. MaxTries
                       /\ pc'[c] = "connect" => tries'[c] < MaxTries

LEMMA TypesStay ==
  ASSUME HistoryOK', CountsStep, pc'[Host] \in Places, accepted' \in Caller \cup {NULL},
         \A c \in Caller : pc'[c] \in CallerPlaces
  PROVE  SessionTypeOK' /\ CountsOK'
  <1>1. \A l \in Lane : got'[l] \in Seq(GameMessage)
    BY DEF HistoryOK
  <1>2. \A l \in Lane : \A i \in DOMAIN got'[l] : IsMessage(got'[l][i])
    BY <1>1, GameMessages
  <1>3. QED
    BY <1>2 DEF SessionTypeOK, CountsOK, CountsStep, Places, CallerPlaces

StillStep ==
  /\ UNCHANGED <<sw, accepted, sent, got, sealed>>
  /\ DOMAIN pc' = User
  /\ \A u \in User : \/ pc'[u] = pc[u]
                     \/ pc'[u] \in Stopped
                     \/ u = Host /\ pc[u] = "bind" /\ pc'[u] = "accept"
  /\ \A u \in User : pc[u] \in Stopped => pc'[u] \in Stopped
  /\ backlog' \in Seq(Caller) /\ CountsStep
  /\ Wires(wire') /\ \A l \in Lane : \A b : Has(wire'[l], b) => Has(wire[l], b)

LEMMA StillKeeps == ASSUME SessionInv, StillStep PROVE SessionInv'
  <1>0. /\ WrappersOK /\ HostOK /\ (\A c \in Caller : CallerOK(c))
        /\ NumbersOK /\ HistoryOK /\ WiresGenuine /\ SealedOK
        /\ SessionTypeOK /\ CountsOK
    BY DEF SessionInv
  <1>1. /\ sw' = sw /\ accepted' = accepted /\ sent' = sent /\ got' = got /\ sealed' = sealed
    BY DEF StillStep
  <1>2. PlacesKept
    BY Users DEF PlacesKept, StillStep, Stopped
  <1>3. WrappersOK'
    BY <1>0, <1>1 DEF WrappersOK, StillStep
  <1>4. HostOK'
    BY <1>0, <1>1, Users DEF HostOK, StillStep, Stopped, Authentic, Answered
  <1>5. ASSUME NEW c \in Caller PROVE CallerOK(c)'
    <2>1. CallerOK(c)
      BY <1>0
    <2>2. \/ pc'[c] = pc[c]
          \/ pc'[c] \notin {"connect", "await", "mine", "theirs"}
      BY Users DEF StillStep, Stopped
    <2>3. QED
      BY <1>1, <2>1, <2>2 DEF CallerOK, Called, Authentic, Answered
  <1>6. NumbersOK'
    BY <1>0, <1>1 DEF NumbersOK, Authentic
  <1>7. HistoryOK'
    BY <1>0, <1>1, <1>2, HistoryStays
  <1>8. SealedOK'
    BY <1>0, <1>1, <1>2, SealedStays DEF Authentic, PlacesKept
  <1>9. WiresGenuine'
    <2>1. CallersSame /\ HostSame
      BY <1>1 DEF CallersSame, HostSame, Called, Authentic, Answered
    <2>2. RecordsKept
      BY <1>0, <1>1, RecordsStay DEF Kept, Authentic
    <2>3. \A l \in Lane : \A b : MayBeOn(l, b) => MayBeOn(l, b)'
      BY <1>0, <2>1, <2>2, MayBeOnStays
    <2>4. QED
      BY <1>0, <2>3, WiresStayGenuine DEF StillStep
  <1>10. SessionTypeOK' /\ CountsOK'
    <2>1. pc'[Host] \in Places
      BY <1>0, Users DEF SessionTypeOK, StillStep, Places
    <2>2. \A c \in Caller : pc'[c] \in CallerPlaces
      BY <1>0, Users DEF SessionTypeOK, StillStep, CallerPlaces
    <2>3. QED
      BY <1>0, <1>1, <1>7, <2>1, <2>2, TypesStay DEF StillStep, SessionTypeOK
  <1>11. QED
    BY <1>3, <1>4, <1>5, <1>6, <1>7, <1>8, <1>9, <1>10 DEF SessionInv

-----------------------------------------------------------------------------
(* The steps of that kind.                                                 *)
LEMMA GoneTo ==
  ASSUME WrappersOK, NEW u \in User, NEW p, Goto(u, p)
  PROVE  /\ DOMAIN pc' = User /\ pc'[u] = p
         /\ \A v \in User : v # u => pc'[v] = pc[v]
  BY DEF WrappersOK, Goto

LEMMA CountsStay ==
  ASSUME SessionTypeOK, CountsOK, UNCHANGED <<tries, lost>>, closed \subseteq closed',
         \A c \in Caller : pc'[c] = "connect" => pc[c] = "connect"
  PROVE  CountsStep
  BY DEF SessionTypeOK, CountsOK, CountsStep

(* A program that stops, or goes on waiting.                               *)
LEMMA StopIsStill ==
  ASSUME SessionInv, NEW u \in User, NEW p \in Stopped \cup {pc[u]},
         pc[u] \in Stopped => p \in Stopped, Goto(u, p),
         UNCHANGED <<sw, accepted, sent, got, sealed, backlog>>, CountsStep,
         Wires(wire'), \A l \in Lane : \A b : Has(wire'[l], b) => Has(wire[l], b)
  PROVE  StillStep
  <1>1. WrappersOK
    BY DEF SessionInv
  <1>2. DOMAIN pc' = User /\ pc'[u] = p /\ \A v \in User : v # u => pc'[v] = pc[v]
    BY <1>1, GoneTo
  <1>3. backlog' \in Seq(Caller)
    BY <1>1 DEF WrappersOK
  <1>4. QED
    BY <1>2, <1>3 DEF StillStep

LEMMA BindPortStill == ASSUME SessionInv, BindPort PROVE StillStep
  <1>1. PICK p \in {"accept", "failed"} : Goto(Host, p)
    BY DEF BindPort
  <1>2. /\ WrappersOK /\ SessionTypeOK /\ CountsOK /\ WiresGenuine
    BY DEF SessionInv
  <1>3. DOMAIN pc' = User /\ pc'[Host] = p /\ \A v \in User : v # Host => pc'[v] = pc[v]
    BY <1>1, <1>2, GoneTo, Users
  <1>4. /\ pc[Host] = "bind" /\ tries' = tries /\ lost' = lost /\ closed' = closed
        /\ wire' = wire /\ backlog' = backlog
        /\ UNCHANGED <<sw, accepted, sent, got, sealed>>
    BY DEF BindPort, netVars, history
  <1>5. CountsStep
    BY <1>2, <1>3, <1>4, Users, CountsStay
  <1>6. Wires(wire') /\ backlog' \in Seq(Caller)
    BY <1>2, <1>4, GenuineWires DEF WrappersOK, Wires
  <1>7. QED
    BY <1>3, <1>4, <1>5, <1>6, Users DEF StillStep, Stopped

(* The ends of waits.                                                      *)
LEMMA EofStill ==
  ASSUME SessionInv, NEW u \in User, pc[u] \notin Stopped, Goto(u, "failed"),
         UNCHANGED <<sw, tries, socketVars, netVars, history>>
  PROVE  StillStep
  <1>1. /\ WrappersOK /\ SessionTypeOK /\ CountsOK /\ WiresGenuine
    BY DEF SessionInv
  <1>2. DOMAIN pc' = User /\ pc'[u] = "failed" /\ \A v \in User : v # u => pc'[v] = pc[v]
    BY <1>1, GoneTo
  <1>3. /\ tries' = tries /\ lost' = lost /\ closed' = closed
        /\ wire' = wire /\ UNCHANGED <<sw, accepted, sent, got, sealed, backlog>>
    BY DEF socketVars, netVars, history
  <1>4. CountsStep
    BY <1>1, <1>2, <1>3, Users, CountsStay
  <1>5. Wires(wire')
    BY <1>1, <1>3, GenuineWires DEF Wires
  <1>6. "failed" \in Stopped
    BY DEF Stopped
  <1>7. QED
    BY <1>3, <1>4, <1>5, <1>6, StopIsStill

LEMMA HostEofStill == ASSUME SessionInv, HostEof PROVE StillStep
  BY Users, EofStill DEF HostEof, Stopped

LEMMA CallerEofStill == ASSUME SessionInv, NEW c \in Caller, CallerEof(c) PROVE StillStep
  BY Users, EofStill DEF CallerEof, Stopped

LEMMA PlayEofStill == ASSUME SessionInv, NEW u \in User, PlayEof(u) PROVE StillStep
  BY EofStill DEF PlayEof, Stopped

(* Programs that end: what they sent may be lost with the connection.      *)
LEMMA Longest ==
  ASSUME WiresGenuine PROVE Max({Len(wire[l]) : l \in Lane}) \in Nat
  <1> DEFINE S == {Len(wire[l]) : l \in Lane}
  <1>1. \A l \in Lane : Len(wire[l]) \in Nat
    <2>1. ASSUME NEW l \in Lane PROVE Len(wire[l]) \in Nat
      <3>1. wire[l] \in Seq({wire[l][i] : i \in DOMAIN wire[l]})
        BY DEF WiresGenuine, SomeSeq
      <3>2. QED
        BY <3>1, InSomeSeq
    <2>2. QED
      BY <2>1
  <1> DEFINE a == Len(wire[<<Guest, Host>>])
             b == Len(wire[<<Stranger, Host>>])
             c == Len(wire[<<Host, Guest>>])
             d == Len(wire[<<Host, Stranger>>])
  <1>2. Lane = {<<Guest, Host>>, <<Stranger, Host>>, <<Host, Guest>>, <<Host, Stranger>>}
    BY DEF Lane, Caller
  <1>3. S = {a, b, c, d}
    BY <1>2
  <1>4. a \in Nat /\ b \in Nat /\ c \in Nat /\ d \in Nat
    BY <1>1, <1>2
  <1> HIDE DEF S, a, b, c, d
  <1>5. \E x \in S : \A y \in S : x >= y
    BY <1>3, <1>4
  <1>6. Max(S) \in S
    BY <1>5 DEF Max
  <1>7. Max(S) \in Nat
    BY <1>3, <1>4, <1>6
  <1>8. QED
    BY <1>7 DEF S

LEMMA DrainedFewer ==
  ASSUME NEW w, Wires(w), NEW lanes, \A l \in Lane : \A b : Has(w[l], b) => Has(wire[l], b)
  PROVE  /\ Wires(Drained(w, lanes))
         /\ \A l \in Lane : \A b : Has(Drained(w, lanes)[l], b) => Has(wire[l], b)
  BY DrainedWires

LEMMA LeaveStill == ASSUME SessionInv, NEW u \in User, Leave(u) PROVE StillStep
  <1>1. /\ WrappersOK /\ SessionTypeOK /\ CountsOK /\ WiresGenuine
    BY DEF SessionInv
  <1>2. PICK keep \in [OpenLanes(u) -> 0 .. Max({Len(wire[l]) : l \in Lane})] :
          /\ \A l \in OpenLanes(u) : keep[l] <= Len(wire[l])
          /\ wire' = Drained([l \in Lane |-> IF l \in OpenLanes(u) THEN SubSeq(wire[l], 1, keep[l])
                                                                   ELSE wire[l]],
                             {l \in Lane : l[1] = u})
          /\ lost' = lost \cup {l \in OpenLanes(u) : keep[l] < Len(wire[l])}
    BY DEF Leave
  <1> DEFINE w == [l \in Lane |-> IF l \in OpenLanes(u) THEN SubSeq(wire[l], 1, keep[l])
                                                        ELSE wire[l]]
  <1>3. ASSUME NEW l \in Lane PROVE SomeSeq(w[l]) /\ \A b : Has(w[l], b) => Has(wire[l], b)
    <2>1. SomeSeq(wire[l])
      BY <1>1 DEF WiresGenuine
    <2>2. CASE l \in OpenLanes(u)
      <3> DEFINE k == keep[l]
      <3>1. k \in Nat /\ k <= Len(wire[l])
        BY <1>1, <1>2, <2>2, Longest
      <3>2. w[l] = SubSeq(wire[l], 1, k)
        BY <2>2
      <3> HIDE DEF k, w
      <3>3. /\ SomeSeq(SubSeq(wire[l], 1, k)) /\ Len(SubSeq(wire[l], 1, k)) = k
            /\ \A i \in 1 .. k : i \in 1 .. Len(wire[l]) /\ SubSeq(wire[l], 1, k)[i] = wire[l][i]
        BY <2>1, <3>1, SomeStart
      <3> DEFINE q == SubSeq(wire[l], 1, k)
      <3>4. /\ SomeSeq(q) /\ Len(q) = k
            /\ \A i \in 1 .. k : i \in 1 .. Len(wire[l]) /\ q[i] = wire[l][i]
        BY <3>3
      <3>5. w[l] = q
        BY <3>2
      <3> HIDE DEF q
      <3>6. QED
        BY <3>4, <3>5 DEF Has
    <2>3. CASE l \notin OpenLanes(u)
      BY <2>1, <2>3
    <2>4. QED
      BY <2>2, <2>3
  <1>4. DOMAIN w = Lane
    OBVIOUS
  <1>5. wire' = Drained(w, {l \in Lane : l[1] = u})
    BY <1>2
  <1> HIDE DEF w
  <1>6. Wires(w)
    BY <1>3, <1>4 DEF Wires
  <1>7. Wires(wire') /\ \A l \in Lane : \A b : Has(wire'[l], b) => Has(wire[l], b)
    BY <1>3, <1>5, <1>6, DrainedFewer
  <1>8. /\ tries' = tries /\ closed' = closed \cup {l \in Lane : l[1] = u}
        /\ UNCHANGED <<sw, accepted, sent, got, sealed, backlog>>
        /\ Goto(u, "ended")
    BY DEF Leave, history, Shut
  <1>9. pc'[u] = "ended" /\ \A v \in User : v # u => pc'[v] = pc[v]
    BY <1>1, <1>8, GoneTo
  <1>10. CountsStep
    BY <1>1, <1>2, <1>8, <1>9, Users DEF CountsStep, SessionTypeOK, CountsOK, OpenLanes
  <1>11. "ended" \in Stopped
    BY DEF Stopped
  <1>12. QED
    BY <1>7, <1>8, <1>10, <1>11, StopIsStill

(* Nothing that the host waits for has come, or what has is refused.       *)
LEMMA SwSame ==
  ASSUME WrappersOK, NEW u \in User, sw' = [sw EXCEPT ![u] = sw[u]] PROVE sw' = sw
  <1>1. sw = [x \in User |-> sw[x]]
    BY DEF WrappersOK
  <1>2. QED
    BY <1>1

LEMMA TakenFewer ==
  ASSUME WiresGenuine, NEW l \in Lane, wire[l] # <<>>
  PROVE  /\ Wires(Taken(wire, l))
         /\ \A k \in Lane : \A b : Has(Taken(wire, l)[k], b) => Has(wire[k], b)
  BY GenuineWires, TakenWires

LEMMA TakenStill ==
  ASSUME SessionInv, NEW u \in User, NEW l \in Lane, wire[l] # <<>>,
         NEW p \in {pc[u], "failed"}, pc[u] \notin Stopped, Goto(u, p),
         wire' = Taken(wire, l), sw' = [sw EXCEPT ![u] = sw[u]],
         UNCHANGED <<tries, accepted, backlog, closed, lost, sent, got, sealed>>
  PROVE  StillStep
  <1>1. /\ WrappersOK /\ SessionTypeOK /\ CountsOK /\ WiresGenuine
    BY DEF SessionInv
  <1>2. sw' = sw
    BY <1>1, SwSame
  <1>3. Wires(wire') /\ \A k \in Lane : \A b : Has(wire'[k], b) => Has(wire[k], b)
    BY <1>1, TakenFewer
  <1>4. pc'[u] = p /\ \A v \in User : v # u => pc'[v] = pc[v]
    BY <1>1, GoneTo
  <1>5. CountsStep
    BY <1>1, <1>4, Users, CountsStay
  <1>6. p \in Stopped \cup {pc[u]}
    BY DEF Stopped
  <1>7. QED
    BY <1>2, <1>3, <1>5, <1>6, StopIsStill

LEMMA CrashStill ==
  ASSUME SessionInv, NEW u \in User, pc[u] \notin Stopped, NEW w, Wires(w),
         \A l \in Lane : \A b : Has(w[l], b) => Has(wire[l], b), Crash(u, w),
         UNCHANGED <<sw, tries, accepted, backlog, lost, sent, got, sealed>>
  PROVE  StillStep
  <1>1. /\ WrappersOK /\ SessionTypeOK /\ CountsOK /\ WiresGenuine
    BY DEF SessionInv
  <1>2. /\ Goto(u, "crashed") /\ closed \subseteq closed'
        /\ wire' = Drained(w, {l \in Lane : l[1] = u})
    BY DEF Crash, Shut
  <1>3. Wires(wire') /\ \A l \in Lane : \A b : Has(wire'[l], b) => Has(wire[l], b)
    BY <1>2, DrainedFewer
  <1>4. pc'[u] = "crashed" /\ \A v \in User : v # u => pc'[v] = pc[v]
    BY <1>1, <1>2, GoneTo
  <1>5. CountsStep
    BY <1>1, <1>2, <1>4, Users, CountsStay
  <1>6. "crashed" \in Stopped
    BY DEF Stopped
  <1>7. QED
    BY <1>2, <1>3, <1>5, <1>6, StopIsStill

LEMMA CallersLane ==
  ASSUME WrappersOK, accepted # NULL
  PROVE  /\ accepted \in Caller
         /\ FromCaller \in Lane /\ FromCaller[1] = accepted /\ FromCaller[2] = Host
         /\ ToCaller \in Lane /\ ToCaller[1] = Host /\ ToCaller[2] = accepted
  <1>1. accepted \in Caller
    BY DEF WrappersOK
  <1>2. QED
    BY <1>1, Lanes DEF FromCaller, ToCaller

ProofTaken ==
  /\ pc[Host] = "verify" /\ Goto(Host, "start")
  /\ accepted # NULL /\ Authentic(accepted) /\ wire[FromCaller] # <<>>
  /\ wire' = Taken(wire, FromCaller)
  /\ sw' = [sw EXCEPT ![Host] = [sw[Host] EXCEPT !.peer_authenticated = TRUE]]
  /\ UNCHANGED <<tries, accepted, backlog, closed, lost, sent, got, sealed>>

LEMMA HostVerifyCases == ASSUME SessionInv, HostVerify PROVE StillStep \/ ProofTaken
  <1>1. /\ WrappersOK /\ NumbersOK /\ HistoryOK /\ WiresGenuine /\ HostOK
    BY DEF SessionInv
  <1>2. /\ pc[Host] = "verify" /\ pc[Host] \notin Stopped /\ ~Authentic(Host)
        /\ accepted # NULL /\ Host \in User
    BY <1>1, Users DEF HostVerify, HostOK, Stopped
  <1>3. FromCaller \in Lane /\ FromCaller[1] = accepted /\ accepted \in Caller
    BY <1>1, <1>2, CallersLane
  <1>4. UNCHANGED <<tries, accepted, backlog, lost, sent, got, sealed>>
    BY DEF HostVerify, history
  <1>5. CASE AtEnd(FromCaller) /\ Crash(Host, wire) /\ UNCHANGED sw
    BY <1>1, <1>2, <1>4, <1>5, GenuineWires, CrashStill
  <1>6. ASSUME NEW r \in Receiving(Host, FromCaller, "CLIENT_VERIFY"),
               IF r.outcome = "other" THEN Crash(Host, Taken(wire, FromCaller)) /\ UNCHANGED sw
               ELSE \E h \in {IF r.outcome = "got" THEN HandleClientVerify(r.w, r.msg)
                                                   ELSE [ok |-> TRUE, w |-> r.w]} :
                 /\ sw' = [sw EXCEPT ![Host] = h.w]
                 /\ wire' = Taken(wire, FromCaller)
                 /\ Goto(Host, IF r.outcome = "again" THEN "verify"
                               ELSE IF h.ok THEN "start" ELSE "failed")
                 /\ UNCHANGED <<closed, listening>>
        PROVE  StillStep \/ ProofTaken
    <2>1. /\ wire[FromCaller] # <<>> /\ r.w = sw[Host]
          /\ r.outcome \in {"got", "again", "other"}
          /\ r.outcome = "got" => r.msg # NULL /\ r.msg.type = "CLIENT_VERIFY" /\ Genuine(FromCaller, r.msg)
      BY <1>1, <1>2, <1>3, <1>6, ReceiptBefore
    <2>2. CASE r.outcome = "other"
      <3>1. Crash(Host, Taken(wire, FromCaller)) /\ sw' = sw
        BY <1>6, <2>2
      <3>2. /\ Wires(Taken(wire, FromCaller))
            /\ \A k \in Lane : \A b : Has(Taken(wire, FromCaller)[k], b) => Has(wire[k], b)
        BY <1>1, <1>3, <2>1, TakenFewer
      <3>3. QED
        BY <1>2, <1>4, <3>1, <3>2, CrashStill
    <2>3. CASE r.outcome = "again"
      <3>1. /\ sw' = [sw EXCEPT ![Host] = sw[Host]] /\ wire' = Taken(wire, FromCaller)
            /\ Goto(Host, pc[Host]) /\ closed' = closed
        BY <1>2, <1>6, <2>1, <2>3
      <3>2. QED
        BY <1>2, <1>3, <1>4, <2>1, <3>1, TakenStill
    <2>4. CASE r.outcome = "got"
      <3>1. PICK h : /\ h = HandleClientVerify(sw[Host], r.msg)
                     /\ sw' = [sw EXCEPT ![Host] = h.w] /\ wire' = Taken(wire, FromCaller)
                     /\ Goto(Host, IF h.ok THEN "start" ELSE "failed") /\ closed' = closed
        BY <1>6, <2>1, <2>4
      <3>2. CASE Verified(sw[Host], r.msg)
        <4>1. h.ok /\ h.w = [sw[Host] EXCEPT !.peer_authenticated = TRUE]
          BY <3>1, <3>2 DEF HandleClientVerify
        <4>2. Authentic(accepted)
          BY <1>3, <2>1, <2>4 DEF Genuine
        <4>3. QED
          BY <1>2, <1>4, <2>1, <3>1, <4>1, <4>2 DEF ProofTaken
      <3>3. CASE ~Verified(sw[Host], r.msg)
        <4>1. ~h.ok /\ h.w = sw[Host]
          BY <3>1, <3>3 DEF HandleClientVerify
        <4>2. Goto(Host, "failed") /\ sw' = [sw EXCEPT ![Host] = sw[Host]]
          BY <3>1, <4>1
        <4>3. QED
          BY <1>2, <1>3, <1>4, <2>1, <3>1, <4>2, TakenStill
      <3>4. QED
        BY <3>2, <3>3
    <2>5. QED
      BY <2>1, <2>2, <2>3, <2>4
  <1>7. QED
    BY <1>5, <1>6 DEF HostVerify

-----------------------------------------------------------------------------
(* The wrapper of one user changes.                                        *)
LEMMA Rewrapped ==
  ASSUME WrappersOK, NEW u \in User, NEW v, sw' = [sw EXCEPT ![u] = v]
  PROVE  /\ sw'[u] = v /\ \A x \in User : x # u => sw'[x] = sw[x]
         /\ sw' = [x \in User |-> sw'[x]] /\ DOMAIN sw[u] = Fields0
  <1>1. sw = [x \in User |-> sw[x]] /\ DOMAIN sw[u] = Fields0
    BY DEF WrappersOK, Fields0
  <1>2. QED
    BY <1>1

LEMMA WrappersStay ==
  ASSUME WrappersOK, NEW u \in User, NEW v, sw' = [sw EXCEPT ![u] = v],
         DOMAIN v = Fields0, v.my_cert = sw[u].my_cert, v.peer_authenticated \in BOOLEAN,
         DOMAIN pc' = User, backlog' \in Seq(Caller), accepted' \in Caller \cup {NULL}
  PROVE  WrappersOK'
  <1>1. /\ sw'[u] = v /\ \A x \in User : x # u => sw'[x] = sw[x]
        /\ sw' = [x \in User |-> sw'[x]]
    BY Rewrapped
  <1>2. QED
    BY <1>1 DEF WrappersOK, Fields0

(* The host takes the caller for authenticated.                            *)
LEMMA ProofTakenKeeps == ASSUME SessionInv, ProofTaken PROVE SessionInv'
  <1>0. /\ WrappersOK /\ HostOK /\ (\A c \in Caller : CallerOK(c))
        /\ NumbersOK /\ HistoryOK /\ WiresGenuine /\ SealedOK
        /\ SessionTypeOK /\ CountsOK
    BY DEF SessionInv
  <1>1. /\ pc[Host] = "verify" /\ accepted # NULL /\ Authentic(accepted)
        /\ wire' = Taken(wire, FromCaller) /\ wire[FromCaller] # <<>>
        /\ UNCHANGED <<tries, accepted, backlog, closed, lost, sent, got, sealed>>
    BY DEF ProofTaken
  <1>2. DOMAIN pc' = User /\ pc'[Host] = "start" /\ \A x \in User : x # Host => pc'[x] = pc[x]
    BY <1>0, Users, GoneTo DEF ProofTaken
  <1>3. accepted \in Caller /\ FromCaller \in Lane
    BY <1>0, <1>1, CallersLane
  <1> DEFINE v == [sw[Host] EXCEPT !.peer_authenticated = TRUE]
  <1>4. sw' = [sw EXCEPT ![Host] = v]
    BY DEF ProofTaken
  <1>5. DOMAIN sw[Host] = Fields0
    BY <1>0, Users DEF WrappersOK, Fields0
  <1>6. /\ DOMAIN v = Fields0 /\ v.peer_authenticated = TRUE /\ Kept(sw[Host], v)
        /\ v.send_seq_num = sw[Host].send_seq_num /\ v.recv_seq_num = sw[Host].recv_seq_num
        /\ v.my_cert = sw[Host].my_cert /\ v.send = sw[Host].send
        /\ v.other_cert = sw[Host].other_cert /\ v.sv_nonce = sw[Host].sv_nonce
    BY <1>5, WrapperFields DEF Kept, KeptFields
  <1> HIDE DEF v
  <1>7. sw'[Host] = v /\ \A x \in User : x # Host => sw'[x] = sw[x]
    BY <1>0, <1>4, Users, Rewrapped
  <1>8. WrappersOK'
    BY <1>0, <1>1, <1>2, <1>4, <1>6, Users, WrappersStay DEF WrappersOK
  <1>9. Authentic(Host)' /\ ~Authentic(Host) /\ \A c \in Caller : Authentic(c)' <=> Authentic(c)
    BY <1>0, <1>1, <1>6, <1>7, Users DEF Authentic, HostOK
  <1>10. Answered' /\ Answered
    BY <1>0, <1>1, <1>6, <1>7 DEF Answered, HostOK
  <1>11. HostOK'
    <2>1. Keyed(v, "server")
      BY <1>0, <1>5, <1>6, <1>10, KeptSame DEF HostOK
    <2>2. sw'[Host].other_cert = Certificate(Guest) /\ Keyed(sw'[Host], "server")
      BY <1>0, <1>6, <1>7, <1>10, <2>1 DEF HostOK
    <2>3. QED
      BY <1>1, <1>2, <1>3, <1>9, <1>10, <2>2 DEF HostOK
  <1>12. ASSUME NEW c \in Caller PROVE CallerOK(c)'
    <2>1. CallerOK(c) /\ sw'[c] = sw[c] /\ pc'[c] = pc[c]
      BY <1>0, <1>2, <1>7, Users
    <2>2. MsgToSign(sw'[Host], "server") = MsgToSign(sw[Host], "server")
      BY <1>5, <1>6, <1>7, KeptSame
    <2>3. QED
      BY <1>1, <1>9, <1>10, <2>1, <2>2 DEF CallerOK, Called
  <1>13. NumbersOK'
    <2>1. \A l \in Lane : l[1] \in User /\ l[2] \in User
      BY Lanes
    <2>2. \A x \in User : /\ Authentic(x) => Authentic(x)'
                          /\ sw'[x].send_seq_num = sw[x].send_seq_num
                          /\ sw'[x].recv_seq_num = sw[x].recv_seq_num
      BY <1>6, <1>7, <1>9, Users
    <2>3. QED
      BY <1>0, <1>1, <2>1, <2>2, Users DEF NumbersOK
  <1>14. HistoryOK'
    <2>1. \A c \in Caller : got[<<c, Host>>] = <<>>
      BY <1>0, <1>9, Lanes DEF NumbersOK
    <2>2. QED
      BY <1>0, <1>1, <1>2, <2>1, Users DEF HistoryOK
  <1>15. SealedOK'
    <2>1. \A u \in User : Authentic(u) => /\ Authentic(u)' /\ sw'[u].send = sw[u].send
                                          /\ sw'[u].send_seq_num = sw[u].send_seq_num
      BY <1>6, <1>7, <1>9, Users
    <2>2. \A u \in User : pc[u] \in Stopped => pc'[u] \in Stopped
      BY <1>1, <1>2 DEF Stopped
    <2>3. QED
      BY <1>0, <1>1, <2>1, <2>2, SealedStays
  <1>16. WiresGenuine'
    <2>1. \A u \in User : Kept(sw[u], sw'[u])
      BY <1>6, <1>7 DEF Kept
    <2>2. CallersSame
      BY <1>7, <1>9, Users DEF CallersSame, Called
    <2>3. HostSame
      BY <1>1, <1>5, <1>6, <1>7, <1>10, KeptSame DEF HostSame
    <2>4. RecordsKept
      BY <1>0, <1>1, <1>9, <2>1, Users, RecordsStay
    <2>5. \A l \in Lane : \A b : MayBeOn(l, b) => MayBeOn(l, b)'
      BY <1>0, <2>2, <2>3, <2>4, MayBeOnStays
    <2>6. Wires(wire') /\ \A l \in Lane : \A b : Has(wire'[l], b) => Has(wire[l], b)
      BY <1>0, <1>1, <1>3, TakenFewer
    <2>7. QED
      BY <1>0, <2>5, <2>6, WiresStayGenuine
  <1>17. SessionTypeOK' /\ CountsOK'
    <2>1. CountsStep
      BY <1>0, <1>1, <1>2, Users, CountsStay
    <2>2. \A c \in Caller : pc'[c] \in CallerPlaces
      BY <1>0, <1>2, Users DEF SessionTypeOK, CallerPlaces
    <2>3. pc'[Host] \in Places
      BY <1>2 DEF Places
    <2>4. QED
      BY <1>1, <1>3, <1>14, <2>1, <2>2, <2>3, TypesStay
  <1>18. QED
    BY <1>8, <1>11, <1>12, <1>13, <1>14, <1>15, <1>16, <1>17 DEF SessionInv

-----------------------------------------------------------------------------
(* A program prepares its wrapper: nobody is authenticated by that, and    *)
(* nothing encrypted is sent.                                              *)
Prepares(u, v) ==
  /\ sw' = [sw EXCEPT ![u] = v]
  /\ DOMAIN v = Fields0 /\ v.my_cert = sw[u].my_cert /\ v.peer_authenticated = FALSE
  /\ v.send_seq_num = sw[u].send_seq_num /\ v.recv_seq_num = sw[u].recv_seq_num
  /\ UNCHANGED <<sent, got, sealed>> /\ PlacesKept
  /\ backlog' \in Seq(Caller)
  /\ accepted' = accepted \/ (accepted = NULL /\ accepted' \in Caller)
  /\ pc'[Host] \in {"mine", "theirs"} => accepted' = accepted

LEMMA PreparesKeeps ==
  ASSUME WrappersOK, NumbersOK, HistoryOK, SealedOK,
         NEW u \in User, ~Authentic(u), NEW v, Prepares(u, v)
  PROVE  /\ WrappersOK' /\ NumbersOK' /\ HistoryOK' /\ SealedOK' /\ RecordsKept
         /\ sw'[u] = v /\ \A x \in User : x # u => sw'[x] = sw[x]
         /\ \A x \in User : Authentic(x)' <=> Authentic(x)
  <1>1. /\ sw' = [sw EXCEPT ![u] = v]
        /\ DOMAIN v = Fields0 /\ v.my_cert = sw[u].my_cert /\ v.peer_authenticated = FALSE
        /\ v.send_seq_num = sw[u].send_seq_num /\ v.recv_seq_num = sw[u].recv_seq_num
        /\ UNCHANGED <<sent, got, sealed>> /\ PlacesKept
        /\ backlog' \in Seq(Caller)
        /\ accepted' = accepted \/ (accepted = NULL /\ accepted' \in Caller)
        /\ pc'[Host] \in {"mine", "theirs"} => accepted' = accepted
    BY DEF Prepares
  <1>2. sw'[u] = v /\ \A x \in User : x # u => sw'[x] = sw[x]
    BY <1>1, Rewrapped
  <1>3. \A x \in User : Authentic(x)' <=> Authentic(x)
    BY <1>1, <1>2 DEF Authentic
  <1>4. accepted \in Caller \cup {NULL} /\ accepted' \in Caller \cup {NULL}
    BY <1>1 DEF WrappersOK
  <1>5. WrappersOK'
    <2>1. DOMAIN pc' = User
      BY <1>1 DEF PlacesKept
    <2>2. QED
      BY <1>1, <1>4, <2>1, WrappersStay
  <1>6. NumbersOK'
    <2>1. \A x \in User : /\ sw'[x].send_seq_num = sw[x].send_seq_num
                          /\ sw'[x].recv_seq_num = sw[x].recv_seq_num
      BY <1>1, <1>2
    <2>2. \A l \in Lane : l[1] \in User /\ l[2] \in User
      BY Lanes
    <2>3. \A l \in Lane : /\ sent'[l] # <<>> => Authentic(l[1])'
                          /\ got'[l] # <<>> => Authentic(l[2])'
      BY <1>1, <1>3, <2>2 DEF NumbersOK
    <2>4. ASSUME NEW c \in Caller
          PROVE  /\ sw'[c].send_seq_num = Len(sent'[<<c, Host>>])
                 /\ sw'[c].recv_seq_num = Len(got'[<<Host, c>>])
      BY <1>1, <2>1, Users DEF NumbersOK
    <2>5. ASSUME NEW c \in Caller
          PROVE  /\ accepted' = c => /\ sw'[Host].send_seq_num = Len(sent'[<<Host, c>>])
                                     /\ sw'[Host].recv_seq_num = Len(got'[<<c, Host>>])
                 /\ accepted' # c => sent'[<<Host, c>>] = <<>> /\ got'[<<c, Host>>] = <<>>
      <3>1. CASE accepted' = accepted
        BY <1>1, <2>1, <3>1, Users DEF NumbersOK
      <3>2. CASE accepted = NULL
        <4>1. sent[<<Host, c>>] = <<>> /\ got[<<c, Host>>] = <<>>
          BY <3>2, Users DEF NumbersOK
        <4>2. sw'[Host].send_seq_num = 0 /\ sw'[Host].recv_seq_num = 0
          BY <2>1, <3>2, Users DEF NumbersOK
        <4>3. sent'[<<Host, c>>] = <<>> /\ got'[<<c, Host>>] = <<>>
          BY <1>1, <4>1
        <4>4. Len(sent'[<<Host, c>>]) = 0 /\ Len(got'[<<c, Host>>]) = 0
          BY <4>3, EmptySeq
        <4>5. QED
          BY <4>2, <4>3, <4>4
      <3>3. QED
        BY <1>1, <3>1, <3>2
    <2>6. accepted' = NULL => sw'[Host].send_seq_num = 0 /\ sw'[Host].recv_seq_num = 0
      BY <1>1, <2>1, Users DEF NumbersOK
    <2>7. QED
      BY <2>3, <2>4, <2>5, <2>6 DEF NumbersOK
  <1>7. HistoryOK'
    BY <1>1, HistoryStays
  <1>8. \A x \in User : Authentic(x) => sw'[x] = sw[x]
    BY <1>2
  <1>9. SealedOK'
    BY <1>1, <1>3, <1>8, SealedStays DEF PlacesKept
  <1>10. RecordsKept
    <2>1. \A x \in User : Authentic(x) => Kept(sw[x], sw'[x]) /\ Authentic(x)'
      BY <1>3, <1>8 DEF Kept
    <2>2. QED
      BY <1>1, <2>1, RecordsStay
  <1>11. QED
    BY <1>2, <1>3, <1>5, <1>6, <1>7, <1>9, <1>10

(* A caller prepares.                                                      *)
LEMMA CallerPrepares ==
  ASSUME SessionInv, NEW c \in Caller, NEW v, Prepares(c, v), ~Authentic(c),
         accepted' = accepted, CountsStep, pc'[c] \in CallerPlaces,
         \A x \in User : x # c => pc'[x] = pc[x],
         CallerOK(c)',
         Called(c) => Called(c)' /\ CallersHello(v) = CallersHello(sw[c]),
         Wires(wire'),
         \A l \in Lane : \A b : Has(wire'[l], b) => Has(wire[l], b) \/ MayBeOn(l, b)'
  PROVE  SessionInv'
  <1>0. /\ WrappersOK /\ HostOK /\ (\A d \in Caller : CallerOK(d))
        /\ NumbersOK /\ HistoryOK /\ WiresGenuine /\ SealedOK
        /\ SessionTypeOK /\ CountsOK
    BY DEF SessionInv
  <1>1. /\ WrappersOK' /\ NumbersOK' /\ HistoryOK' /\ SealedOK' /\ RecordsKept
        /\ sw'[c] = v /\ \A x \in User : x # c => sw'[x] = sw[x]
        /\ \A x \in User : Authentic(x)' <=> Authentic(x)
    BY <1>0, Users, PreparesKeeps
  <1>2. sw'[Host] = sw[Host] /\ pc'[Host] = pc[Host] /\ (Answered' <=> Answered)
    BY <1>1, Users DEF Answered
  <1>3. HostOK'
    BY <1>0, <1>1, <1>2, Users DEF HostOK, WrappersOK
  <1>4. ASSUME NEW d \in Caller PROVE CallerOK(d)'
    <2>1. CASE d = c
      BY <2>1
    <2>2. CASE d # c
      <3>1. CallerOK(d) /\ sw'[d] = sw[d] /\ pc'[d] = pc[d]
        BY <1>0, <1>1, <2>2, Users
      <3>2. Authentic(d)' <=> Authentic(d)
        BY <1>1, Users
      <3>3. QED
        BY <1>2, <3>1, <3>2 DEF CallerOK, Called
    <2>3. QED
      BY <2>1, <2>2
  <1>5. WiresGenuine'
    <2>1. CallersSame
      BY <1>0, <1>1, Users DEF CallersSame, Called
    <2>2. HostSame
      BY <1>2 DEF HostSame
    <2>3. \A l \in Lane : \A b : MayBeOn(l, b) => MayBeOn(l, b)'
      BY <1>0, <1>1, <2>1, <2>2, MayBeOnStays
    <2>4. QED
      BY <1>0, <2>3, WiresStayGenuine
  <1>6. SessionTypeOK' /\ CountsOK'
    <2>1. \A d \in Caller : pc'[d] \in CallerPlaces
      BY <1>0, Users DEF SessionTypeOK, CallerPlaces
    <2>2. pc'[Host] \in Places /\ accepted' \in Caller \cup {NULL}
      BY <1>0, <1>2 DEF SessionTypeOK, Places
    <2>3. QED
      BY <1>1, <2>1, <2>2, TypesStay
  <1>7. QED
    BY <1>1, <1>3, <1>4, <1>5, <1>6 DEF SessionInv

LEMMA ConnectServerKeeps ==
  ASSUME SessionInv, NEW c \in Caller, ConnectServer(c) PROVE SessionInv'
  <1>0. /\ WrappersOK /\ HostOK /\ CallerOK(c)
        /\ NumbersOK /\ HistoryOK /\ WiresGenuine /\ SealedOK
        /\ SessionTypeOK /\ CountsOK
    BY DEF SessionInv
  <1>1. /\ c \in User /\ pc[c] = "connect" /\ ~Called(c) /\ ~Authentic(c) /\ pc[c] \notin Stopped
        /\ UNCHANGED <<accepted, closed, lost, sent, got, sealed>>
    BY <1>0, Users DEF ConnectServer, CallerOK, history, Stopped
  <1>2. <<c, Host>> \in Lane /\ c # Host
    BY Lanes, Users
  <1> DEFINE w == sw[c]
             v == [w EXCEPT !.other_cert = Certificate(Host)]
             h == SendClientHello(v, Nonce[c], c)
             yes == VerifyPeerCert(store, Certificate(Host))
             r == SetOtherCert(w, store, Certificate(Host))
  <1>3. r.ok = yes /\ r.w = IF yes THEN v ELSE w
    BY DEF SetOtherCert
  <1>4. DOMAIN w = Fields0 /\ w.peer_authenticated = FALSE /\ w.my_cert = Certificate(c)
    BY <1>0, <1>1 DEF WrappersOK, Fields0, Authentic
  <1>5. /\ DOMAIN v = Fields0 /\ v.other_cert = Certificate(Host)
        /\ \A f \in Fields0 : f # "other_cert" => v[f] = w[f]
    BY <1>4, WrapperFields
  <1>6. CASE yes /\ listening
    <2>1. /\ sw' = [sw EXCEPT ![c] = h.w] /\ backlog' = Append(backlog, c)
          /\ wire' = Sends(wire, <<c, Host>>, <<h.out>>) /\ Goto(c, "await") /\ tries' = tries
      BY <1>3, <1>6 DEF ConnectServer
    <2> DEFINE z == h.w
    <2> HIDE DEF v, w
    <2>2. z = [v EXCEPT !.cl_nonce = Nonce[c], !.my_eph_key = EcdhKey(c)]
      BY DEF SendClientHello
    <2>3. /\ DOMAIN z = Fields0 /\ z.cl_nonce = Nonce[c] /\ z.my_eph_key = EcdhKey(c)
          /\ \A f \in Fields0 \ {"cl_nonce", "my_eph_key"} : z[f] = v[f]
      BY <1>5, <2>2, WrapperFields
    <2>4. h.out = CallersHello(z)
      BY <2>2, <2>3 DEF SendClientHello, CallersHello
    <2> DEFINE out == h.out
    <2>5. /\ sw' = [sw EXCEPT ![c] = z] /\ wire' = Sends(wire, <<c, Host>>, <<out>>)
      BY <2>1
    <2> HIDE DEF z, out, h
    <2>6. pc'[c] = "await" /\ DOMAIN pc' = User /\ \A x \in User : x # c => pc'[x] = pc[x]
      BY <1>0, <1>1, <2>1, GoneTo
    <2>7. backlog' \in Seq(Caller)
      BY <1>0, <2>1 DEF WrappersOK
    <2>8. PlacesKept
      BY <1>1, <2>6 DEF PlacesKept, Stopped
    <2>9. z.my_cert = w.my_cert /\ z.peer_authenticated = FALSE /\ z.other_cert = Certificate(Host)
          /\ z.send_seq_num = w.send_seq_num /\ z.recv_seq_num = w.recv_seq_num
      BY <1>4, <1>5, <2>3, WrapperFields
    <2>10. Prepares(c, z)
      BY <1>1, <2>3, <2>5, <2>7, <2>8, <2>9 DEF Prepares, w
    <2>11. sw'[c] = z
      BY <1>0, <1>1, <2>5, Rewrapped
    <2>12. Nonce[c] # 0
      BY <1>1, SessionAssumption
    <2>13. Called(c)' /\ ~Authentic(c)'
      BY <2>3, <2>9, <2>11, <2>12 DEF Called, Authentic
    <2>14. CallerOK(c)'
      BY <2>3, <2>6, <2>9, <2>11, <2>13 DEF CallerOK
    <2>15. CountsStep
      BY <1>0, <1>1, <2>1, <2>6, Users, CountsStay
    <2>16. \A b : b = Write(out) => MayBeOn(<<c, Host>>, b)'
      BY <2>4, <2>11, <2>13 DEF MayBeOn, out
    <2>17. /\ Wires(wire')
           /\ \A l \in Lane : \A b : Has(wire'[l], b) =>
                Has(wire[l], b) \/ (l = <<c, Host>> /\ b = Write(out))
      BY <1>0, <1>2, <2>5, GenuineWires, SendsWires
    <2>18. \A l \in Lane : \A b : Has(wire'[l], b) => Has(wire[l], b) \/ MayBeOn(l, b)'
      BY <2>16, <2>17
    <2>19. pc'[c] \in CallerPlaces
      BY <2>6 DEF CallerPlaces
    <2>20. QED
      BY <1>1, <2>6, <2>10, <2>14, <2>15, <2>17, <2>18, <2>19, CallerPrepares
  <1>7. CASE ~(yes /\ listening)
    <2> DEFINE z == r.w
               p == IF TriesLeft(c) THEN "connect" ELSE "failed"
    <2>1. /\ sw' = [sw EXCEPT ![c] = z] /\ tries' = [tries EXCEPT ![c] = @ + 1]
          /\ Goto(c, p) /\ backlog' = backlog /\ wire' = wire
      BY <1>3, <1>7 DEF ConnectServer
    <2> HIDE DEF v, w, r
    <2>2. DOMAIN z = Fields0 /\ \A f \in Fields0 : f # "other_cert" => z[f] = w[f]
      BY <1>3, <1>4, <1>5
    <2> HIDE DEF z, p
    <2>3. pc'[c] = p /\ DOMAIN pc' = User /\ \A x \in User : x # c => pc'[x] = pc[x]
      BY <1>0, <1>1, <2>1, GoneTo
    <2>4. p \in {"connect", "failed"} /\ (p = "connect" => tries[c] + 1 < MaxTries)
      BY DEF p, TriesLeft
    <2>5. PlacesKept
      BY <1>1, <2>3, <2>4 DEF PlacesKept, Stopped
    <2>6. /\ z.my_cert = w.my_cert /\ z.peer_authenticated = FALSE /\ z.cl_nonce = w.cl_nonce
          /\ z.send_seq_num = w.send_seq_num /\ z.recv_seq_num = w.recv_seq_num
      BY <1>4, <2>2, WrapperFields
    <2>7. Prepares(c, z)
      BY <1>0, <1>1, <2>1, <2>2, <2>5, <2>6 DEF Prepares, w, WrappersOK
    <2>8. sw'[c] = z
      BY <1>0, <1>1, <2>1, Rewrapped
    <2>9. ~Called(c)' /\ ~Authentic(c)'
      BY <1>1, <2>6, <2>8 DEF Called, Authentic, w
    <2>10. CallerOK(c)'
      BY <2>3, <2>4, <2>9 DEF CallerOK
    <2>11. CountsStep
      <3>1. \A d \in Caller : /\ tries[d] \in 0 .. MaxTries
                              /\ pc[d] = "connect" => tries[d] < MaxTries
        BY <1>0 DEF SessionTypeOK
      <3>2. tries[c] < MaxTries /\ MaxTries \in Nat
        BY <1>1, <3>1, SessionAssumption
      <3>3. DOMAIN tries' = Caller /\ tries'[c] = tries[c] + 1 /\ \A d \in Caller : d # c => tries'[d] = tries[d]
        BY <1>0, <2>1 DEF CountsOK
      <3>4. ASSUME NEW d \in Caller
            PROVE  tries'[d] \in 0 .. MaxTries /\ (pc'[d] = "connect" => tries'[d] < MaxTries)
        BY <2>3, <2>4, <3>1, <3>2, <3>3, Users
      <3>5. lost' = lost /\ lost \subseteq closed' /\ lost \subseteq Lane
        BY <1>0, <1>1 DEF SessionTypeOK, CountsOK
      <3>6. QED
        BY <3>3, <3>4, <3>5 DEF CountsStep
    <2>12. pc'[c] \in CallerPlaces
      BY <2>3, <2>4 DEF CallerPlaces, Stopped
    <2>13. Wires(wire') /\ \A l \in Lane : \A b : Has(wire'[l], b) => Has(wire[l], b)
      BY <1>0, <2>1, GenuineWires DEF Wires
    <2>14. QED
      BY <1>1, <2>3, <2>7, <2>10, <2>11, <2>12, <2>13, CallerPrepares
  <1>8. QED
    BY <1>6, <1>7

(* The host prepares: no caller is authenticated then.                     *)
LEMMA HostPrepares ==
  ASSUME SessionInv, NEW v, Prepares(Host, v), ~Answered, CountsStep, pc'[Host] \in Places,
         \A x \in Caller : pc'[x] = pc[x],
         HostOK', Wires(wire'),
         \A l \in Lane : \A b : Has(wire'[l], b) => Has(wire[l], b) \/ MayBeOn(l, b)'
  PROVE  SessionInv'
  <1>0. /\ WrappersOK /\ HostOK /\ (\A d \in Caller : CallerOK(d))
        /\ NumbersOK /\ HistoryOK /\ WiresGenuine /\ SealedOK
        /\ SessionTypeOK /\ CountsOK
    BY DEF SessionInv
  <1>1. ~Authentic(Host) /\ \A c \in Caller : ~Authentic(c)
    BY <1>0 DEF HostOK, CallerOK
  <1>2. /\ WrappersOK' /\ NumbersOK' /\ HistoryOK' /\ SealedOK' /\ RecordsKept
        /\ sw'[Host] = v /\ \A x \in User : x # Host => sw'[x] = sw[x]
        /\ \A x \in User : Authentic(x)' <=> Authentic(x)
    BY <1>0, <1>1, Users, PreparesKeeps
  <1>3. ASSUME NEW c \in Caller PROVE CallerOK(c)'
    <2>1. CallerOK(c) /\ sw'[c] = sw[c] /\ pc'[c] = pc[c] /\ ~Authentic(c) /\ ~Authentic(c)'
      BY <1>0, <1>1, <1>2, Users
    <2>2. QED
      BY <2>1 DEF CallerOK, Called
  <1>4. WiresGenuine'
    <2>1. CallersSame
      BY <1>0, <1>1, <1>2, Users DEF CallersSame, Called
    <2>2. HostSame
      BY DEF HostSame
    <2>3. \A l \in Lane : \A b : MayBeOn(l, b) => MayBeOn(l, b)'
      BY <1>0, <1>2, <2>1, <2>2, MayBeOnStays
    <2>4. QED
      BY <1>0, <2>3, WiresStayGenuine
  <1>5. SessionTypeOK' /\ CountsOK'
    <2>1. \A d \in Caller : pc'[d] \in CallerPlaces
      BY <1>0, Users DEF SessionTypeOK, CallerPlaces
    <2>2. accepted' \in Caller \cup {NULL}
      BY <1>2 DEF WrappersOK
    <2>3. QED
      BY <1>2, <2>1, <2>2, TypesStay
  <1>6. QED
    BY <1>2, <1>3, <1>4, <1>5 DEF SessionInv

LEMMA AcceptClientKeeps == ASSUME SessionInv, AcceptClient PROVE SessionInv'
  <1>0. /\ WrappersOK /\ HostOK /\ NumbersOK /\ HistoryOK /\ WiresGenuine /\ SealedOK
        /\ SessionTypeOK /\ CountsOK
    BY DEF SessionInv
  <1>1. /\ Host \in User /\ pc[Host] = "accept" /\ backlog # <<>> /\ accepted = NULL
        /\ ~Answered /\ ~Authentic(Host) /\ pc[Host] \notin Stopped
        /\ accepted' = Head(backlog) /\ backlog' = Tail(backlog)
        /\ UNCHANGED <<tries, lost, sent, got, sealed>>
    BY <1>0, Users DEF AcceptClient, HostOK, history, Stopped
  <1>2. Head(backlog) \in Caller /\ Tail(backlog) \in Seq(Caller)
    BY <1>0, <1>1 DEF WrappersOK
  <1> DEFINE w == sw[Host]
             v == [w EXCEPT !.other_cert = Certificate(Guest)]
             yes == VerifyPeerCert(store, Certificate(Guest))
             r == SetOtherCert(w, store, Certificate(Guest))
             z == r.w
             lanes == IF yes THEN {} ELSE DeletedConn(Head(backlog))
             p == IF yes THEN "hello" ELSE "failed"
  <1>3. r.ok = yes /\ z = IF yes THEN v ELSE w
    BY DEF SetOtherCert
  <1>4. /\ sw' = [sw EXCEPT ![Host] = z] /\ Goto(Host, p)
        /\ closed' = closed \cup lanes /\ wire' = Drained(wire, lanes)
    BY <1>3 DEF AcceptClient, Shut
  <1>5. DOMAIN w = Fields0 /\ w.peer_authenticated = FALSE
    BY <1>0, <1>1 DEF WrappersOK, Fields0, Authentic
  <1>6. /\ DOMAIN v = Fields0 /\ v.other_cert = Certificate(Guest)
        /\ \A f \in Fields0 : f # "other_cert" => v[f] = w[f]
    BY <1>5, WrapperFields
  <1> HIDE DEF v, w, r, lanes
  <1>7. DOMAIN z = Fields0 /\ \A f \in Fields0 : f # "other_cert" => z[f] = w[f]
    BY <1>3, <1>5, <1>6
  <1>8. p = "hello" => z.other_cert = Certificate(Guest)
    BY <1>3, <1>6
  <1>9. p \in {"hello", "failed"}
    OBVIOUS
  <1> HIDE DEF z, p
  <1>10. /\ z.my_cert = w.my_cert /\ z.peer_authenticated = FALSE /\ z.sv_nonce = w.sv_nonce
         /\ z.send_seq_num = w.send_seq_num /\ z.recv_seq_num = w.recv_seq_num
    BY <1>5, <1>7, WrapperFields
  <1>11. pc'[Host] = p /\ DOMAIN pc' = User /\ \A x \in User : x # Host => pc'[x] = pc[x]
    BY <1>0, <1>1, <1>4, GoneTo
  <1>12. PlacesKept
    BY <1>1, <1>9, <1>11 DEF PlacesKept, Stopped
  <1>13. Prepares(Host, z)
    BY <1>1, <1>2, <1>4, <1>7, <1>9, <1>10, <1>11, <1>12 DEF Prepares, w
  <1>14. sw'[Host] = z
    BY <1>0, <1>1, <1>4, Rewrapped
  <1>15. ~Answered' /\ ~Authentic(Host)'
    BY <1>1, <1>10, <1>14 DEF Answered, Authentic, w
  <1>16. HostOK'
    BY <1>1, <1>2, <1>8, <1>9, <1>11, <1>14, <1>15, Users DEF HostOK
  <1>17. CountsStep
    BY <1>0, <1>1, <1>4, <1>11, Users, CountsStay
  <1>18. Wires(wire') /\ \A l \in Lane : \A b : Has(wire'[l], b) => Has(wire[l], b)
    BY <1>0, <1>4, GenuineWires, DrainedWires
  <1>19. pc'[Host] \in Places
    BY <1>9, <1>11 DEF Places, Stopped
  <1>20. \A x \in Caller : pc'[x] = pc[x]
    BY <1>11, Users
  <1>21. QED
    BY <1>1, <1>13, <1>16, <1>17, <1>18, <1>19, <1>20, HostPrepares

HelloTaken(r) ==
  /\ pc[Host] = "hello" /\ wire[FromCaller] # <<>>
  /\ \E h \in {HandleClientHello(sw[Host], r, Nonce[Host], Host)}, ok \in SendOutcome(ToCaller) :
       /\ sw' = [sw EXCEPT ![Host] = h.w]
       /\ wire' = Sends(Taken(wire, FromCaller), ToCaller, <<h.out>>)
       /\ Goto(Host, IF ok THEN "verify" ELSE "failed")
  /\ UNCHANGED <<tries, accepted, backlog, closed, lost, sent, got, sealed>>

LEMMA HostHelloCases == ASSUME SessionInv, HostHello PROVE StillStep \/ \E m : HelloTaken(m)
  <1>1. /\ WrappersOK /\ NumbersOK /\ HistoryOK /\ WiresGenuine /\ HostOK
    BY DEF SessionInv
  <1>2. /\ pc[Host] = "hello" /\ pc[Host] \notin Stopped /\ ~Authentic(Host)
        /\ accepted # NULL /\ Host \in User
    BY <1>1, Users DEF HostHello, HostOK, Stopped
  <1>3. FromCaller \in Lane
    BY <1>1, <1>2, CallersLane
  <1>4. UNCHANGED <<tries, accepted, backlog, closed, lost, sent, got, sealed>>
    BY DEF HostHello, history, socketVars
  <1>5. PICK r \in Receiving(Host, FromCaller, "CLIENT_HELLO") :
       IF r.outcome # "got"
         THEN /\ Goto(Host, NotGot(Host, r)) /\ wire' = Taken(wire, FromCaller)
              /\ sw' = [sw EXCEPT ![Host] = r.w]
         ELSE \E h \in {HandleClientHello(r.w, r.msg, Nonce[Host], Host)},
                 ok \in SendOutcome(ToCaller) :
                /\ sw' = [sw EXCEPT ![Host] = h.w]
                /\ wire' = Sends(Taken(wire, FromCaller), ToCaller, <<h.out>>)
                /\ Goto(Host, IF ok THEN "verify" ELSE "failed")
    BY DEF HostHello
  <1>6. wire[FromCaller] # <<>> /\ r.w = sw[Host]
    BY <1>1, <1>2, <1>3, ReceiptBefore
  <1>7. CASE r.outcome # "got"
    <2> DEFINE p == NotGot(Host, r)
    <2>1. p \in {pc[Host], "failed"}
      BY DEF NotGot
    <2>2. /\ Goto(Host, p) /\ wire' = Taken(wire, FromCaller)
          /\ sw' = [sw EXCEPT ![Host] = sw[Host]]
      BY <1>5, <1>6, <1>7
    <2> HIDE DEF p
    <2>3. QED
      BY <1>2, <1>3, <1>4, <1>6, <2>1, <2>2, TakenStill
  <1>8. CASE r.outcome = "got"
    <2>1. HelloTaken(r.msg)
      BY <1>2, <1>4, <1>5, <1>6, <1>8 DEF HelloTaken
    <2>2. QED
      BY <2>1
  <1>9. QED
    BY <1>7, <1>8

LEMMA TwoSends ==
  ASSUME WiresGenuine, NEW k \in Lane, wire[k] # <<>>, NEW j \in Lane, NEW m
  PROVE  /\ Wires(Sends(Taken(wire, k), j, <<m>>))
         /\ \A l \in Lane : \A b : Has(Sends(Taken(wire, k), j, <<m>>)[l], b) =>
              Has(wire[l], b) \/ (l = j /\ b = Write(m))
  <1>1. ASSUME NEW w, w = Taken(wire, k)
        PROVE  /\ Wires(Sends(w, j, <<m>>))
               /\ \A l \in Lane : \A b : Has(Sends(w, j, <<m>>)[l], b) =>
                    Has(wire[l], b) \/ (l = j /\ b = Write(m))
    <2>1. Wires(w) /\ \A l \in Lane : \A b : Has(w[l], b) => Has(wire[l], b)
      BY <1>1, TakenFewer
    <2>2. QED
      BY <2>1, SendsWires
  <1>2. QED
    BY <1>1

LEMMA HelloTakenKeeps == ASSUME SessionInv, NEW m, HelloTaken(m) PROVE SessionInv'
  <1>0. /\ WrappersOK /\ HostOK /\ NumbersOK /\ HistoryOK /\ WiresGenuine /\ SealedOK
        /\ SessionTypeOK /\ CountsOK
    BY DEF SessionInv
  <1>1. /\ Host \in User /\ pc[Host] = "hello" /\ accepted # NULL /\ ~Answered /\ ~Authentic(Host)
        /\ pc[Host] \notin Stopped /\ wire[FromCaller] # <<>>
        /\ UNCHANGED <<tries, accepted, backlog, closed, lost, sent, got, sealed>>
    BY <1>0, Users DEF HelloTaken, HostOK, Stopped
  <1>2. /\ FromCaller \in Lane /\ accepted \in Caller
        /\ ToCaller \in Lane /\ ToCaller[1] = Host /\ ToCaller[2] = accepted
    BY <1>0, <1>1, CallersLane
  <1> DEFINE w == sw[Host]
             h == HandleClientHello(w, m, Nonce[Host], Host)
             v == [w EXCEPT !.cl_nonce = m.nonce, !.other_eph_key = m.eph_key,
                            !.sv_nonce = Nonce[Host], !.my_eph_key = EcdhKey(Host)]
             z == GenerateKeys(v, "server")
             out == h.out
  <1>3. h.w = z /\ out = [type |-> "SERVER_HELLO", eph_key |-> Public(z.my_eph_key),
               nonce |-> Nonce[Host],
               my_id |-> MyId(z), other_id |-> OtherId(z),
               ds |-> MakeSignature(z, "server")]
    BY DEF HandleClientHello
  <1>4. PICK ok \in BOOLEAN : Goto(Host, IF ok THEN "verify" ELSE "failed")
    BY DEF HelloTaken, SendOutcome
  <1>5. /\ sw' = [sw EXCEPT ![Host] = z]
        /\ wire' = Sends(Taken(wire, FromCaller), ToCaller, <<out>>)
    BY <1>3 DEF HelloTaken
  <1>6. DOMAIN w = Fields0 /\ w.peer_authenticated = FALSE /\ w.other_cert = Certificate(Guest)
    BY <1>0, <1>1 DEF WrappersOK, Fields0, Authentic, HostOK
  <1> HIDE DEF h, w, out
  <1>7. /\ DOMAIN v = Fields0 /\ v.sv_nonce = Nonce[Host]
        /\ \A f \in Fields0 \ {"cl_nonce", "other_eph_key", "sv_nonce", "my_eph_key"} : v[f] = w[f]
    BY <1>6, WrapperFields
  <1> HIDE DEF v
  <1>8. /\ DOMAIN z = Fields0 /\ Keyed(z, "server")
        /\ \A f \in Fields0 \ {"send", "recv"} : z[f] = v[f]
    BY <1>7, KeysGenerated
  <1> HIDE DEF z
  <1>9. /\ z.my_cert = w.my_cert /\ z.peer_authenticated = FALSE /\ z.sv_nonce = Nonce[Host]
        /\ z.send_seq_num = w.send_seq_num /\ z.recv_seq_num = w.recv_seq_num
        /\ z.other_cert = Certificate(Guest)
    BY <1>6, <1>7, <1>8, WrapperFields
  <1>10. out = HostsHello(z)
    BY <1>3, <1>9 DEF HostsHello
  <1> DEFINE p == IF ok THEN "verify" ELSE "failed"
  <1>11. p \in {"verify", "failed"} /\ Goto(Host, p)
    BY <1>4
  <1> HIDE DEF p
  <1>12. pc'[Host] = p /\ DOMAIN pc' = User /\ \A x \in User : x # Host => pc'[x] = pc[x]
    BY <1>0, <1>1, <1>11, GoneTo
  <1>13. PlacesKept
    BY <1>1, <1>11, <1>12 DEF PlacesKept, Stopped
  <1>14. Prepares(Host, z)
    BY <1>0, <1>1, <1>5, <1>8, <1>9, <1>13 DEF Prepares, w, WrappersOK
  <1>15. sw'[Host] = z
    BY <1>0, <1>1, <1>5, Rewrapped
  <1>16. Nonce[Host] # 0
    BY <1>1, SessionAssumption
  <1>17. Answered' /\ ~Authentic(Host)'
    BY <1>9, <1>15, <1>16 DEF Answered, Authentic
  <1>18. HostOK'
    BY <1>1, <1>8, <1>9, <1>11, <1>12, <1>15, <1>17, Users DEF HostOK, Stopped
  <1>19. CountsStep
    BY <1>0, <1>1, <1>12, Users, CountsStay
  <1>20. ASSUME NEW l \in Lane, l[1] = Host, l[2] = accepted, NEW b, b = Write(out)
         PROVE  MayBeOn(l, b)'
    BY <1>1, <1>10, <1>15, <1>17, <1>20 DEF MayBeOn
  <1>21. /\ Wires(wire')
         /\ \A l \in Lane : \A b : Has(wire'[l], b) =>
              Has(wire[l], b) \/ (l = ToCaller /\ b = Write(out))
    BY <1>0, <1>1, <1>2, <1>5, TwoSends
  <1>22. \A l \in Lane : \A b : Has(wire'[l], b) => Has(wire[l], b) \/ MayBeOn(l, b)'
    BY <1>2, <1>20, <1>21
  <1>23. pc'[Host] \in Places
    BY <1>11, <1>12 DEF Places, Stopped
  <1>24. \A x \in Caller : pc'[x] = pc[x]
    BY <1>12, Users
  <1>25. QED
    BY <1>1, <1>14, <1>18, <1>19, <1>21, <1>22, <1>23, <1>24, HostPrepares

-----------------------------------------------------------------------------
(* A caller takes the host for authenticated.  Nobody has taken anybody    *)
(* for that before, and nothing has been encrypted.                        *)
Opening == [type |-> "START_GAME_PEER"]

LEMMA NobodyYet ==
  ASSUME SessionInv, NEW c \in Caller, ~Authentic(c), accepted = c
  PROVE  /\ \A u \in User : ~Authentic(u)
         /\ sealed = {}
         /\ \A l \in Lane : sent[l] = <<>> /\ got[l] = <<>>
         /\ \A u \in User : sw[u].send_seq_num = 0 /\ sw[u].recv_seq_num = 0
  <1>0. /\ WrappersOK /\ HostOK /\ (\A d \in Caller : CallerOK(d))
        /\ NumbersOK /\ HistoryOK /\ SealedOK
    BY DEF SessionInv
  <1>1. \A d \in Caller : ~Authentic(d)
    BY <1>0 DEF CallerOK
  <1>2. ~Authentic(Host)
    BY <1>0 DEF HostOK
  <1>3. \A u \in User : ~Authentic(u)
    BY <1>1, <1>2, Users
  <1>4. \A l \in Lane : sent[l] = <<>> /\ got[l] = <<>>
    BY <1>0, <1>3, Lanes DEF NumbersOK
  <1>5. sealed = {}
    BY <1>0, <1>3 DEF SealedOK, MadeBy
  <1>6. \A d \in Caller : sw[d].send_seq_num = 0 /\ sw[d].recv_seq_num = 0
    BY <1>0, <1>4, Lanes, EmptySeq DEF NumbersOK
  <1>7. sw[Host].send_seq_num = 0 /\ sw[Host].recv_seq_num = 0
    BY <1>0, <1>4, Lanes, EmptySeq DEF NumbersOK
  <1>8. QED
    BY <1>3, <1>4, <1>5, <1>6, <1>7, Users

Greets(c, z, s, p, t) ==
  /\ pc[c] = "await" /\ accepted = c /\ Answered
  /\ sw' = [sw EXCEPT ![c] = z]
  /\ DOMAIN z = Fields0 /\ z.peer_authenticated = TRUE /\ Keyed(z, "client")
  /\ \A f \in {"my_cert", "other_cert", "cl_nonce", "my_eph_key", "recv_seq_num"} : z[f] = sw[c][f]
  /\ MsgToSign(sw[Host], "server") = MsgToSign(z, "client")
  /\ s \in {<<>>, <<Opening>>} /\ DOMAIN sent' = Lane /\ sent'[<<c, Host>>] = s
  /\ \A l \in Lane : l # <<c, Host>> => sent'[l] = sent[l]
  /\ z.send_seq_num = Len(s)
  /\ Goto(c, p) /\ p = IF s = <<>> THEN "failed" ELSE "theirs"
  /\ sealed' \subseteq {t} /\ t[2] = z.send.key /\ t[3] = UpdateIV(0, z.send.iv)
  /\ UNCHANGED <<tries, accepted, backlog, closed, lost, got>>
  /\ Wires(wire')
  /\ \A l \in Lane : \A b : Has(wire'[l], b) => Has(wire[l], b) \/ MayBeOn(l, b)'

LEMMA GreetsKeeps ==
  ASSUME SessionInv, NEW c \in Caller, NEW z, NEW s, NEW p, NEW t, Greets(c, z, s, p, t)
  PROVE  SessionInv'
  <1>0. /\ WrappersOK /\ HostOK /\ (\A d \in Caller : CallerOK(d))
        /\ NumbersOK /\ HistoryOK /\ WiresGenuine /\ SealedOK
        /\ SessionTypeOK /\ CountsOK
    BY DEF SessionInv
  <1>1. /\ c \in User /\ c # Host /\ pc[c] = "await" /\ accepted = c /\ Answered
        /\ Called(c) /\ ~Authentic(c)
        /\ UNCHANGED <<tries, accepted, backlog, closed, lost, got>>
    BY <1>0, Users DEF Greets, CallerOK
  <1>2. /\ \A u \in User : ~Authentic(u)
        /\ sealed = {}
        /\ \A l \in Lane : sent[l] = <<>> /\ got[l] = <<>>
        /\ \A u \in User : sw[u].send_seq_num = 0 /\ sw[u].recv_seq_num = 0
    BY <1>1, NobodyYet
  <1>3. /\ sw' = [sw EXCEPT ![c] = z]
        /\ DOMAIN z = Fields0 /\ z.peer_authenticated = TRUE /\ Keyed(z, "client")
        /\ z.my_cert = sw[c].my_cert /\ z.other_cert = sw[c].other_cert
        /\ z.cl_nonce = sw[c].cl_nonce /\ z.my_eph_key = sw[c].my_eph_key
        /\ z.recv_seq_num = sw[c].recv_seq_num
        /\ MsgToSign(sw[Host], "server") = MsgToSign(z, "client")
    BY DEF Greets
  <1>4. /\ s \in {<<>>, <<Opening>>} /\ DOMAIN sent' = Lane /\ sent'[<<c, Host>>] = s
        /\ \A l \in Lane : l # <<c, Host>> => sent'[l] = sent[l]
        /\ z.send_seq_num = Len(s) /\ Goto(c, p) /\ p = IF s = <<>> THEN "failed" ELSE "theirs"
    BY DEF Greets
  <1>5. pc'[c] = p /\ DOMAIN pc' = User /\ \A x \in User : x # c => pc'[x] = pc[x]
    BY <1>0, <1>1, <1>4, GoneTo
  <1>6. sw'[c] = z /\ \A x \in User : x # c => sw'[x] = sw[x]
    BY <1>0, <1>1, <1>3, Rewrapped
  <1>7. /\ Authentic(c)' /\ Called(c)' /\ Answered' /\ sw'[Host] = sw[Host]
        /\ \A x \in User : x # c => ~Authentic(x)'
    BY <1>1, <1>2, <1>3, <1>6, Users DEF Authentic, Called, Answered
  <1>8. WrappersOK'
    BY <1>0, <1>1, <1>3, <1>5, WrappersStay DEF WrappersOK
  <1>9. HostOK'
    BY <1>0, <1>1, <1>5, <1>7, Users DEF HostOK
  <1>10. ASSUME NEW d \in Caller PROVE CallerOK(d)'
    <2>1. CASE d = c
      <3>1. CallerOK(c) /\ pc'[c] \in {"failed", "theirs"}
        BY <1>0, <1>4, <1>5
      <3>2. QED
        BY <1>1, <1>3, <1>6, <1>7, <2>1, <3>1 DEF CallerOK
    <2>2. CASE d # c
      <3>1. CallerOK(d) /\ sw'[d] = sw[d] /\ pc'[d] = pc[d] /\ ~Authentic(d) /\ ~Authentic(d)'
        BY <1>0, <1>2, <1>5, <1>6, <1>7, <2>2, Users
      <3>2. QED
        BY <3>1 DEF CallerOK, Called
    <2>3. QED
      BY <2>1, <2>2
  <1>11. DOMAIN sent = Lane /\ DOMAIN got = Lane /\ <<c, Host>> \in Lane
    BY <1>0, Lanes DEF HistoryOK
  <1>12. /\ sent'[<<c, Host>>] = s /\ DOMAIN sent' = Lane
         /\ \A l \in Lane : l # <<c, Host>> => sent'[l] = <<>>
         /\ got' = got /\ \A l \in Lane : got'[l] = <<>>
    BY <1>1, <1>2, <1>4, <1>11
  <1>13. NumbersOK'
    <2>1. \A l \in Lane : (sent'[l] # <<>> => Authentic(l[1])') /\ (got'[l] # <<>> => Authentic(l[2])')
      BY <1>7, <1>12
    <2>2. sw'[c].send_seq_num = Len(s) /\ \A x \in User : x # c => sw'[x].send_seq_num = 0
      BY <1>2, <1>4, <1>6
    <2>3. \A x \in User : sw'[x].recv_seq_num = 0
      BY <1>1, <1>2, <1>3, <1>6
    <2>4. \A d \in Caller : /\ <<d, Host>> \in Lane /\ <<Host, d>> \in Lane /\ d # Host
                            /\ d \in User /\ Host \in User /\ Host # c
                            /\ (d # c => <<d, Host>> # <<c, Host>>) /\ <<Host, d>> # <<c, Host>>
      BY Lanes, Users
    <2>5. Len(<<>>) = 0
      BY EmptySeq
    <2>6. ASSUME NEW d \in Caller
          PROVE  /\ sw'[d].send_seq_num = Len(sent'[<<d, Host>>])
                 /\ sw'[d].recv_seq_num = Len(got'[<<Host, d>>])
                 /\ accepted' = d => /\ sw'[Host].send_seq_num = Len(sent'[<<Host, d>>])
                                     /\ sw'[Host].recv_seq_num = Len(got'[<<d, Host>>])
                 /\ accepted' # d => sent'[<<Host, d>>] = <<>> /\ got'[<<d, Host>>] = <<>>
      BY <1>12, <2>2, <2>3, <2>4, <2>5
    <2>7. QED
      BY <1>1, <2>1, <2>6, Users DEF NumbersOK
  <1>14. HistoryOK'
    <2>1. Opening \in GameMessage /\ Opening.type = "START_GAME_PEER"
      BY DEF GameMessage, Opening
    <2>2. /\ s \in Seq(GameMessage) /\ Len(s) \in {0, 1} /\ Len(<<>>) = 0
          /\ <<>> \in Seq(GameMessage)
          /\ \A i \in 1 .. Len(s) : i = 1 /\ s[i] = Opening
      <3>1. <<>> \in Seq(GameMessage) /\ Len(<<>>) = 0
        BY EmptySeq
      <3>2. \A x \in GameMessage : <<x>> \in Seq(GameMessage) /\ Len(<<x>>) = 1 /\ <<x>>[1] = x
        OBVIOUS
      <3>3. CASE s = <<>>
        BY <3>1, <3>3
      <3>4. CASE s = <<Opening>>
        <4>1. s \in Seq(GameMessage) /\ Len(s) = 1 /\ s[1] = Opening
          BY <2>1, <3>2, <3>4
        <4>2. QED
          BY <3>1, <4>1
      <3>5. QED
        BY <1>4, <3>3, <3>4
    <2>3. ASSUME NEW l \in Lane
          PROVE  /\ sent'[l] \in Seq(GameMessage) /\ got'[l] \in Seq(GameMessage)
                 /\ Len(got'[l]) <= Len(sent'[l])
                 /\ \A i \in 1 .. Len(got'[l]) : got'[l][i] = sent'[l][i]
                 /\ \A i \in 1 .. Len(sent'[l]) :
                      sent'[l][i].type = "START_GAME_PEER" <=> l[2] = Host /\ i = 1
      <3>1. CASE l = <<c, Host>>
        <4>1. sent'[l] = s /\ got'[l] = <<>> /\ l[2] = Host
          BY <1>12, <3>1
        <4>2. QED
          BY <2>1, <2>2, <4>1
      <3>2. CASE l # <<c, Host>>
        <4>1. sent'[l] = <<>> /\ got'[l] = <<>>
          BY <1>12, <3>2
        <4>2. QED
          BY <2>2, <4>1
      <3>3. QED
        BY <3>1, <3>2
    <2>4. \A d \in Caller : pc'[d] \in {"mine", "theirs"} => d = c /\ s # <<>>
      BY <1>0, <1>2, <1>4, <1>5, Users DEF CallerOK
    <2>5. pc'[Host] \notin {"mine", "theirs"}
      BY <1>0, <1>1, <1>2, <1>5, Users DEF HostOK
    <2>6. ASSUME NEW d \in Caller
          PROVE  /\ pc'[d] \in {"mine", "theirs"} => sent'[<<d, Host>>] # <<>>
                 /\ pc'[Host] = "start" => got'[<<d, Host>>] = <<>>
                 /\ pc'[Host] \in {"mine", "theirs"} /\ accepted' = d => got'[<<d, Host>>] # <<>>
      BY <1>12, <2>4, <2>5, Lanes
    <2>7. QED
      BY <1>11, <1>12, <2>3, <2>6 DEF HistoryOK
  <1>15. SealedOK'
    <2>1. /\ sealed' \subseteq {t} /\ t[2] = z.send.key /\ t[3] = UpdateIV(0, z.send.iv)
      BY DEF Greets
    <2>2. FreshIVs'
      BY <2>1 DEF FreshIVs
    <2>3. z.send_seq_num \in {0, 1} /\ (z.send_seq_num = 0 => pc'[c] \in Stopped)
      BY <1>4, <1>5, EmptySeq DEF Stopped
    <2>4. MadeBy(t, c)'
      BY <1>6, <1>7, <2>1, <2>3 DEF MadeBy
    <2>5. QED
      BY <1>1, <2>1, <2>2, <2>4 DEF SealedOK
  <1>16. WiresGenuine'
    <2>1. CallersHello(z) = CallersHello(sw[c])
      BY <1>3 DEF CallersHello, MyId, OtherId
    <2>2. CallersSame
      BY <1>2, <1>6, <1>7, <2>1, Users DEF CallersSame, Called
    <2>3. HostSame
      BY <1>1, <1>7 DEF HostSame
    <2>4. RecordsKept
      BY <1>2, <1>4, <1>12, EmptySeq DEF RecordsKept
    <2>5. \A l \in Lane : \A b : MayBeOn(l, b) => MayBeOn(l, b)'
      BY <1>0, <2>2, <2>3, <2>4, MayBeOnStays
    <2>6. /\ Wires(wire')
          /\ \A l \in Lane : \A b : Has(wire'[l], b) => Has(wire[l], b) \/ MayBeOn(l, b)'
      BY DEF Greets
    <2>7. QED
      BY <1>0, <2>5, <2>6, WiresStayGenuine
  <1>17. SessionTypeOK' /\ CountsOK'
    <2>1. pc'[c] \in {"failed", "theirs"}
      BY <1>4, <1>5
    <2>2. CountsStep
      BY <1>0, <1>1, <1>5, <2>1, Users, CountsStay
    <2>3. \A d \in Caller : pc'[d] \in CallerPlaces
      BY <1>0, <1>5, <2>1, Users DEF SessionTypeOK, CallerPlaces, Stopped
    <2>4. pc'[Host] \in Places /\ accepted' \in Caller \cup {NULL}
      BY <1>0, <1>1, <1>5, Users DEF SessionTypeOK, Places
    <2>5. QED
      BY <1>14, <2>2, <2>3, <2>4, TypesStay
  <1>18. QED
    BY <1>8, <1>9, <1>10, <1>13, <1>14, <1>15, <1>16, <1>17 DEF SessionInv

(* What the caller makes of the host's answer.                             *)
Greeted(c, m) ==
  GenerateKeys([sw[c] EXCEPT !.sv_nonce = m.nonce, !.other_eph_key = m.eph_key], "client")

LEMMA GreetedWrapper ==
  ASSUME WrappersOK, NEW c \in Caller, NEW m, NEW v, v = Greeted(c, m)
  PROVE  /\ DOMAIN v = Fields0 /\ Keyed(v, "client")
         /\ \A f \in Fields0 \ {"sv_nonce", "other_eph_key", "send", "recv"} : v[f] = sw[c][f]
  <1> DEFINE w == sw[c]
             x == [w EXCEPT !.sv_nonce = m.nonce, !.other_eph_key = m.eph_key]
  <1>1. DOMAIN w = Fields0
    BY Users DEF WrappersOK, Fields0
  <1>2. v = GenerateKeys(x, "client")
    BY DEF Greeted
  <1> HIDE DEF w
  <1>3. DOMAIN x = Fields0 /\ \A f \in Fields0 \ {"sv_nonce", "other_eph_key"} : x[f] = w[f]
    BY <1>1, WrapperFields
  <1> HIDE DEF x
  <1>4. /\ DOMAIN v = Fields0 /\ Keyed(v, "client")
        /\ \A f \in Fields0 \ {"send", "recv"} : v[f] = x[f]
    BY <1>2, <1>3, KeysGenerated
  <1>5. QED
    BY <1>3, <1>4, WrapperFields DEF w

LEMMA SameRecord ==
  ASSUME NEW a, NEW b, a.send = b.send, a.send_seq_num = b.send_seq_num,
         a.peer_authenticated, b.peer_authenticated, NEW m
  PROVE  EncryptMsg(a, m) = EncryptMsg(b, m)
  BY DEF EncryptMsg

HelloRefused(c, m) ==
  /\ pc[c] = "await" /\ ~Authentic(c) /\ wire[<<Host, c>>] # <<>>
  /\ Prepares(c, Greeted(c, m)) /\ Goto(c, "failed")
  /\ wire' = Taken(wire, <<Host, c>>)
  /\ UNCHANGED <<tries, accepted, backlog, closed, lost, sent, got, sealed>>

LEMMA HelloRefusedKeeps ==
  ASSUME SessionInv, NEW c \in Caller, NEW m, HelloRefused(c, m) PROVE SessionInv'
  <1>0. /\ WrappersOK /\ CallerOK(c) /\ WiresGenuine /\ SessionTypeOK /\ CountsOK
    BY DEF SessionInv
  <1>1. /\ c \in User /\ <<Host, c>> \in Lane
        /\ pc[c] = "await" /\ ~Authentic(c) /\ wire[<<Host, c>>] # <<>> /\ Goto(c, "failed")
        /\ wire' = Taken(wire, <<Host, c>>) /\ Called(c)
        /\ UNCHANGED <<tries, accepted, backlog, closed, lost, sent, got, sealed>>
    BY <1>0, Users, Lanes DEF HelloRefused, CallerOK
  <1> DEFINE v == Greeted(c, m)
  <1>2. Prepares(c, v) /\ sw' = [sw EXCEPT ![c] = v]
    BY DEF HelloRefused, Prepares
  <1>3. /\ DOMAIN v = Fields0 /\ v.peer_authenticated = FALSE
        /\ \A f \in Fields0 \ {"sv_nonce", "other_eph_key", "send", "recv"} : v[f] = sw[c][f]
    BY <1>0, <1>2, GreetedWrapper DEF Prepares
  <1> HIDE DEF v
  <1>4. /\ v.my_cert = sw[c].my_cert /\ v.other_cert = sw[c].other_cert
        /\ v.cl_nonce = sw[c].cl_nonce /\ v.my_eph_key = sw[c].my_eph_key
    BY <1>3, WrapperFields
  <1>5. sw'[c] = v
    BY <1>0, <1>1, <1>2, Rewrapped
  <1>6. pc'[c] = "failed" /\ \A x \in User : x # c => pc'[x] = pc[x]
    BY <1>0, <1>1, GoneTo
  <1>7. CallersHello(v) = CallersHello(sw[c]) /\ Called(c)' /\ ~Authentic(c)'
    BY <1>1, <1>3, <1>4, <1>5 DEF CallersHello, MyId, OtherId, Called, Authentic
  <1>8. CallerOK(c)'
    BY <1>0, <1>1, <1>4, <1>5, <1>6, <1>7 DEF CallerOK
  <1>9. CountsStep
    BY <1>0, <1>1, <1>6, Users, CountsStay
  <1>10. Wires(wire') /\ \A l \in Lane : \A b : Has(wire'[l], b) => Has(wire[l], b)
    BY <1>0, <1>1, TakenFewer
  <1>11. pc'[c] \in CallerPlaces
    BY <1>6 DEF CallerPlaces, Stopped
  <1>12. QED
    BY <1>1, <1>2, <1>6, <1>7, <1>8, <1>9, <1>10, <1>11, CallerPrepares

(* The proof goes out, and the opening message if it can.                  *)
Proven(c, m) == [Greeted(c, m) EXCEPT !.peer_authenticated = TRUE]

HelloAccepted(c, m) ==
  /\ pc[c] = "await" /\ accepted = c /\ Answered /\ wire[<<Host, c>>] # <<>>
  /\ MsgToSign(sw[Host], "server") = MsgToSign(Greeted(c, m), "client")
  /\ \/ SendSecure(c, Proven(c, m),
                   Sends(Taken(wire, <<Host, c>>), <<c, Host>>, <<CallersProof(Proven(c, m))>>),
                   <<c, Host>>, Opening, "theirs")
     \/ /\ sw' = [sw EXCEPT ![c] = Proven(c, m)]
        /\ wire' = Taken(wire, <<Host, c>>)
        /\ Goto(c, "failed") /\ UNCHANGED <<sent, sealed>>
  /\ UNCHANGED <<tries, accepted, backlog, closed, lost, got>>

LEMMA ProvenWrapper ==
  ASSUME WrappersOK, NEW c \in Caller, NEW m, NEW z, z = Proven(c, m)
  PROVE  /\ DOMAIN z = Fields0 /\ Keyed(z, "client") /\ z.peer_authenticated = TRUE
         /\ \A f \in {"my_cert", "other_cert", "cl_nonce", "my_eph_key", "recv_seq_num",
                      "send_seq_num"} : z[f] = sw[c][f]
         /\ MsgToSign(z, "client") = MsgToSign(Greeted(c, m), "client")
         /\ CallersProof(z) = CallersProof(Greeted(c, m))
  <1> DEFINE v == Greeted(c, m)
  <1>1. /\ DOMAIN v = Fields0 /\ Keyed(v, "client")
        /\ \A f \in Fields0 \ {"sv_nonce", "other_eph_key", "send", "recv"} : v[f] = sw[c][f]
    BY GreetedWrapper
  <1>2. z = [v EXCEPT !.peer_authenticated = TRUE]
    BY DEF Proven
  <1> HIDE DEF v
  <1>3. /\ DOMAIN z = Fields0 /\ z.peer_authenticated = TRUE
        /\ \A f \in Fields0 \ {"peer_authenticated"} : z[f] = v[f]
    BY <1>1, <1>2, WrapperFields
  <1>4. Kept(v, z)
    BY <1>1, <1>3, WrapperFields DEF Kept, KeptFields
  <1>5. Keyed(z, "client") /\ MsgToSign(z, "client") = MsgToSign(v, "client")
        /\ CallersProof(z) = CallersProof(v)
    BY <1>1, <1>4, KeptSame
  <1>6. \A f \in {"my_cert", "other_cert", "cl_nonce", "my_eph_key", "recv_seq_num",
                  "send_seq_num"} : z[f] = sw[c][f]
    BY <1>1, <1>3, WrapperFields
  <1>7. QED
    BY <1>3, <1>5, <1>6 DEF v

LEMMA SentOneWrapper ==
  ASSUME NEW w, DOMAIN w = Fields0
  PROVE  /\ DOMAIN SentOne(w) = Fields0 /\ Kept(w, SentOne(w))
         /\ SentOne(w).peer_authenticated = w.peer_authenticated
         /\ SentOne(w).recv_seq_num = w.recv_seq_num
         /\ SentOne(w).send_seq_num = w.send_seq_num + 1
  BY WrapperFields DEF SentOne, Kept, KeptFields

LEMMA HelloAcceptedKeeps ==
  ASSUME SessionInv, NEW c \in Caller, NEW m, HelloAccepted(c, m) PROVE SessionInv'
  <1>0. /\ WrappersOK /\ CallerOK(c) /\ WiresGenuine /\ NumbersOK /\ HistoryOK
    BY DEF SessionInv
  <1> DEFINE k == <<Host, c>>
             l == <<c, Host>>
             z == Proven(c, m)
             proof == CallersProof(z)
  <1>1. /\ c \in User /\ k \in Lane /\ l \in Lane /\ l[1] = c
        /\ pc[c] = "await" /\ accepted = c /\ Answered /\ ~Authentic(c) /\ wire[k] # <<>>
        /\ UNCHANGED <<tries, accepted, backlog, closed, lost, got>>
    BY <1>0, Users, Lanes DEF HelloAccepted, CallerOK
  <1>2. sent[l] = <<>> /\ sw[c].send_seq_num = 0 /\ sealed = {} /\ DOMAIN sent = Lane
    BY <1>0, <1>1, NobodyYet DEF HistoryOK
  <1>3. /\ DOMAIN z = Fields0 /\ Keyed(z, "client") /\ z.peer_authenticated = TRUE
        /\ \A f \in {"my_cert", "other_cert", "cl_nonce", "my_eph_key", "recv_seq_num",
                     "send_seq_num"} : z[f] = sw[c][f]
        /\ MsgToSign(sw[Host], "server") = MsgToSign(z, "client")
    <2>1. MsgToSign(sw[Host], "server") = MsgToSign(Greeted(c, m), "client")
      BY DEF HelloAccepted
    <2>2. z = Proven(c, m)
      OBVIOUS
    <2> HIDE DEF z
    <2>3. QED
      BY <1>0, <2>1, <2>2, ProvenWrapper, ZenonT(60)
  <1>4. /\ z.my_cert = sw[c].my_cert /\ z.other_cert = sw[c].other_cert
        /\ z.cl_nonce = sw[c].cl_nonce /\ z.my_eph_key = sw[c].my_eph_key
        /\ z.recv_seq_num = sw[c].recv_seq_num /\ z.send_seq_num = 0
    BY <1>2, <1>3
  <1> DEFINE t == GcmTag(z, 0, Opening)
  <1>5. t[2] = z.send.key /\ t[3] = UpdateIV(0, z.send.iv)
    BY DEF GcmTag
  <1>6. \/ SendSecure(c, z, Sends(Taken(wire, k), l, <<proof>>), l, Opening, "theirs")
        \/ /\ sw' = [sw EXCEPT ![c] = z]
           /\ wire' = Taken(wire, k)
           /\ Goto(c, "failed") /\ UNCHANGED <<sent, sealed>>
    BY DEF HelloAccepted
  <1> HIDE DEF z, t
  <1>7. CASE /\ sw' = [sw EXCEPT ![c] = z] /\ wire' = Taken(wire, k)
             /\ Goto(c, "failed") /\ UNCHANGED <<sent, sealed>>
    <2>1. Wires(wire') /\ \A j \in Lane : \A b : Has(wire'[j], b) => Has(wire[j], b)
      BY <1>0, <1>1, <1>7, TakenFewer
    <2> DEFINE s == <<>>
    <2>2. s \in {<<>>, <<Opening>>} /\ Len(s) = 0 /\ sent'[l] = s /\ sealed' \subseteq {t} /\ s = <<>>
      BY <1>2, <1>7, EmptySeq
    <2> HIDE DEF s
    <2>3. Greets(c, z, s, "failed", t)
      BY <1>1, <1>2, <1>3, <1>4, <1>5, <1>7, <2>1, <2>2 DEF Greets
    <2>4. QED
      BY <2>3, GreetsKeeps
  <1>8. CASE SendSecure(c, z, Sends(Taken(wire, k), l, <<proof>>), l, Opening, "theirs")
    <2> DEFINE sm == EncryptMsg(z, Opening)
               W == Sends(Taken(wire, k), l, <<proof>>)
    <2>1. PICK ok \in SendOutcome(l) :
            /\ sw' = [sw EXCEPT ![c] = IF ok THEN SentOne(z) ELSE z]
            /\ wire' = Sends(W, l, <<sm>>)
            /\ sent' = IF ok THEN [sent EXCEPT ![l] = Append(@, Opening)] ELSE sent
            /\ sealed' = sealed \cup {sm.tag}
            /\ Goto(c, IF ok THEN "theirs" ELSE "failed")
      BY <1>8 DEF SendSecure
    <2>2. Opening \in GameMessage
      BY DEF GameMessage, Opening
    <2>3. sm.tag = t
      <3>1. PICK ct : EncryptMsg(z, Opening) = [type |-> "SECURE_MESSAGE", ct |-> ct,
                                                tag |-> GcmTag(z, z.send_seq_num, Opening)]
        BY <1>3, <2>2, EncryptedForm
      <3>2. QED
        BY <1>4, <3>1 DEF t
    <2> HIDE DEF sm
    <2> DEFINE y == IF ok THEN SentOne(z) ELSE z
               s == IF ok THEN <<Opening>> ELSE <<>>
               p == IF ok THEN "theirs" ELSE "failed"
    <2>4. /\ DOMAIN y = Fields0 /\ Kept(z, y) /\ y.peer_authenticated = TRUE
          /\ y.recv_seq_num = z.recv_seq_num
          /\ y.send_seq_num = IF ok THEN 1 ELSE 0
      BY <1>3, <1>4, SentOneWrapper DEF Kept
    <2>5. /\ s \in {<<>>, <<Opening>>} /\ Len(s) = IF ok THEN 1 ELSE 0
          /\ p = IF s = <<>> THEN "failed" ELSE "theirs"
      <3>1. <<Opening>> # <<>> /\ Len(<<Opening>>) = 1 /\ Len(<<>>) = 0
        OBVIOUS
      <3>2. QED
        BY <3>1
    <2>6. DOMAIN sent' = Lane /\ sent'[l] = s /\ \A j \in Lane : j # l => sent'[j] = sent[j]
      <3>1. Append(<<>>, Opening) = <<Opening>>
        OBVIOUS
      <3>2. CASE ok
        BY <1>1, <1>2, <2>1, <3>1, <3>2
      <3>3. CASE ~ok
        BY <1>1, <1>2, <2>1, <3>3
      <3>4. QED
        BY <3>2, <3>3
    <2>7. sw' = [sw EXCEPT ![c] = y] /\ Goto(c, p) /\ sealed' \subseteq {t}
      BY <1>2, <2>1, <2>3
    <2>8. ok => s = <<Opening>>
      OBVIOUS
    <2> HIDE DEF y, s, p
    <2>9. sw'[c] = y
      BY <1>0, <1>1, <2>7, Rewrapped
    <2>10. /\ Keyed(y, "client") /\ MsgToSign(y, "client") = MsgToSign(z, "client")
           /\ CallersProof(y) = proof
      BY <1>3, <2>4, KeptSame
    <2>11. /\ y.my_cert = sw[c].my_cert /\ y.other_cert = sw[c].other_cert
           /\ y.cl_nonce = sw[c].cl_nonce /\ y.my_eph_key = sw[c].my_eph_key
           /\ y.recv_seq_num = sw[c].recv_seq_num /\ y.send = z.send
      BY <1>4, <2>4 DEF Kept, KeptFields
    <2> HIDE DEF proof, W
    <2>12. /\ Wires(wire')
           /\ \A j \in Lane : \A b : Has(wire'[j], b) =>
                \/ Has(wire[j], b)
                \/ j = l /\ b = Write(proof)
                \/ j = l /\ b = Write(sm) /\ ok
      <3> HIDE DEF k, l
      <3>1. ASSUME NEW X, Wires(X), wire' = Sends(X, l, <<sm>>),
                   \A j \in Lane : \A b : Has(X[j], b) => Has(wire[j], b) \/ (j = l /\ b = Write(proof))
            PROVE  /\ Wires(wire')
                   /\ \A j \in Lane : \A b : Has(wire'[j], b) =>
                        \/ Has(wire[j], b)
                        \/ j = l /\ b = Write(proof)
                        \/ j = l /\ b = Write(sm) /\ ok
        <4>1. CASE Back(l) \in closed
          <5>1. wire' = X
            BY <3>1, <4>1 DEF Sends
          <5>2. QED
            BY <3>1, <5>1 DEF Wires
        <4>2. CASE Back(l) \notin closed
          <5>1. ok
            BY <2>1, <4>2 DEF SendOutcome
          <5>2. /\ Wires(Sends(X, l, <<sm>>))
                /\ \A j \in Lane : \A b : Has(Sends(X, l, <<sm>>)[j], b) =>
                     Has(X[j], b) \/ (j = l /\ b = Write(sm))
            BY <1>1, <3>1, SendsWires
          <5>3. QED
            BY <3>1, <5>1, <5>2
        <4>3. QED
          BY <4>1, <4>2
      <3>2. /\ Wires(W)
            /\ \A j \in Lane : \A b : Has(W[j], b) => Has(wire[j], b) \/ (j = l /\ b = Write(proof))
        BY <1>0, <1>1, TwoSends DEF W
      <3>3. QED
        BY <2>1, <3>1, <3>2
    <2>13. ASSUME NEW b, b = Write(proof) PROVE MayBeOn(l, b)'
      <3>1. Authentic(c)' /\ b = Write(CallersProof(sw'[c]))
        BY <2>4, <2>9, <2>10, <2>13 DEF Authentic
      <3>2. QED
        BY <1>1, <3>1 DEF MayBeOn
    <2>14. ASSUME NEW b, b = Write(sm), ok PROVE MayBeOn(l, b)'
      <3> DEFINE x == Numbered(y, 0)
      <3>1. Record(l, 1)' = EncryptMsg(x, Opening)
        <4>1. sent'[l][1] = Opening /\ sw'[l[1]] = y /\ 1 - 1 = 0
          BY <1>1, <2>6, <2>8, <2>9, <2>14
        <4>2. QED
          BY <4>1 DEF Record
      <3>2. x.send = z.send /\ x.send_seq_num = 0 /\ x.peer_authenticated
        BY <2>4, <2>11, WrapperFields DEF Numbered
      <3> HIDE DEF x
      <3>3. EncryptMsg(x, Opening) = sm
        <4>1. EncryptMsg(x, Opening) = EncryptMsg(z, Opening)
          BY <1>3, <1>4, <3>2, SameRecord
        <4>2. QED
          BY <4>1 DEF sm
      <3>4. 1 \in 1 .. Len(sent'[l])
        BY <2>5, <2>6, <2>14, SMTT(30)
      <3>5. b = Write(Record(l, 1)')
        BY <2>14, <3>1, <3>3
      <3>6. QED
        BY <3>4, <3>5 DEF MayBeOn
    <2>15. \A j \in Lane : \A b : Has(wire'[j], b) => Has(wire[j], b) \/ MayBeOn(j, b)'
      BY <2>12, <2>13, <2>14
    <2>16. y.send_seq_num = Len(s)
      BY <2>4, <2>5
    <2>17. Greets(c, y, s, p, t)
      BY <1>1, <1>3, <1>5, <2>4, <2>5, <2>6, <2>7, <2>10, <2>11, <2>12, <2>15, <2>16 DEF Greets
    <2>18. QED
      BY <2>17, GreetsKeeps
  <1>9. QED
    BY <1>6, <1>7, <1>8

LEMMA AnswerHandled ==
  ASSUME NEW c, NEW m
  PROVE  IF CheckSignature(Greeted(c, m), m.ds, "client")
           THEN /\ HandleServerHello(sw[c], m).ok
                /\ HandleServerHello(sw[c], m).w = Proven(c, m)
                /\ HandleServerHello(sw[c], m).out = CallersProof(Greeted(c, m))
           ELSE /\ ~HandleServerHello(sw[c], m).ok
                /\ HandleServerHello(sw[c], m).w = Greeted(c, m)
  <1> DEFINE v == Greeted(c, m)
  <1>1. HandleServerHello(sw[c], m) =
          IF CheckSignature(v, m.ds, "client")
            THEN [ok |-> TRUE, w |-> Proven(c, m),
                  out |-> [type |-> "CLIENT_VERIFY", ds |-> MakeSignature(v, "client")]]
            ELSE [ok |-> FALSE, w |-> v]
    BY DEF HandleServerHello, HelloChecked, Greeted, Proven
  <1> HIDE DEF v
  <1>2. QED
    BY <1>1 DEF CallersProof, v

LEMMA RecvServerHelloCases ==
  ASSUME SessionInv, NEW c \in Caller, RecvServerHello(c)
  PROVE  \/ StillStep
         \/ \E m : HelloRefused(c, m)
         \/ \E m : HelloAccepted(c, m)
  <1>1. /\ WrappersOK /\ NumbersOK /\ HistoryOK /\ WiresGenuine /\ CallerOK(c)
    BY DEF SessionInv
  <1>2. /\ c \in User /\ <<Host, c>> \in Lane /\ pc[c] = "await" /\ ~Authentic(c)
        /\ pc[c] \notin Stopped /\ c # Host
        /\ UNCHANGED <<tries, accepted, backlog, closed, lost, got>>
    BY <1>1, Users, Lanes DEF RecvServerHello, CallerOK, Stopped, socketVars
  <1> DEFINE k == <<Host, c>>
             l == <<c, Host>>
  <1>3. PICK r \in Receiving(c, k, "SERVER_HELLO") :
     \E h \in {IF r.outcome = "got" THEN HandleServerHello(r.w, r.msg)
                                    ELSE [ok |-> FALSE, w |-> r.w]} :
       \/ /\ h.ok
          /\ SendSecure(c, h.w, Sends(Taken(wire, k), l, <<h.out>>), l, Opening, "theirs")
       \/ /\ ~h.ok \/ FALSE \in SendOutcome(l)
          /\ sw' = [sw EXCEPT ![c] = h.w]
          /\ wire' = Taken(wire, k)
          /\ Goto(c, IF r.outcome = "got" THEN "failed" ELSE NotGot(c, r))
          /\ UNCHANGED <<sent, sealed>>
    BY DEF RecvServerHello, Opening
  <1>4. PICK h : /\ h = IF r.outcome = "got" THEN HandleServerHello(r.w, r.msg)
                                             ELSE [ok |-> FALSE, w |-> r.w]
                 /\ \/ /\ h.ok
                       /\ SendSecure(c, h.w, Sends(Taken(wire, k), l, <<h.out>>), l, Opening, "theirs")
                    \/ /\ ~h.ok \/ FALSE \in SendOutcome(l)
                       /\ sw' = [sw EXCEPT ![c] = h.w]
                       /\ wire' = Taken(wire, k)
                       /\ Goto(c, IF r.outcome = "got" THEN "failed" ELSE NotGot(c, r))
                       /\ UNCHANGED <<sent, sealed>>
    BY <1>3
  <1>5. /\ wire[k] # <<>> /\ r.w = sw[c]
        /\ r.outcome = "got" => r.msg # NULL /\ r.msg.type = "SERVER_HELLO" /\ Genuine(k, r.msg)
    BY <1>1, <1>2, <1>3, ReceiptBefore
  <1>6. CASE r.outcome # "got"
    <2> DEFINE p == NotGot(c, r)
    <2>1. p \in {pc[c], "failed"}
      BY DEF NotGot
    <2>2. ~h.ok /\ h.w = sw[c]
      BY <1>4, <1>5, <1>6
    <2>3. /\ Goto(c, p) /\ wire' = Taken(wire, k)
          /\ sw' = [sw EXCEPT ![c] = sw[c]] /\ UNCHANGED <<sent, sealed>>
      BY <1>4, <1>6, <2>2
    <2> HIDE DEF p
    <2>4. QED
      BY <1>2, <1>5, <2>1, <2>3, TakenStill
  <1>7. CASE r.outcome = "got"
    <2> DEFINE m == r.msg
               v == Greeted(c, m)
    <2>1. h = HandleServerHello(sw[c], m)
      BY <1>4, <1>5, <1>7
    <2>2. /\ k[1] = Host /\ Answered /\ accepted = c /\ m.ds = MakeSignature(sw[Host], "server")
      BY <1>5, <1>7, Users DEF Genuine
    <2> HIDE DEF m, v
    <2>3. CASE CheckSignature(v, m.ds, "client")
      <3>1. h.ok /\ h.w = Proven(c, m) /\ h.out = CallersProof(v)
        BY <2>1, <2>3, AnswerHandled DEF v
      <3>2. MsgToSign(sw[Host], "server") = MsgToSign(v, "client")
        BY <2>2, <2>3 DEF CheckSignature, DsaVerify, MakeSignature, DsaSign
      <3>3. CallersProof(Proven(c, m)) = CallersProof(v)
        BY <1>1, ProvenWrapper DEF v
      <3>4. \/ SendSecure(c, Proven(c, m), Sends(Taken(wire, k), l, <<CallersProof(Proven(c, m))>>),
                          l, Opening, "theirs")
            \/ /\ sw' = [sw EXCEPT ![c] = Proven(c, m)]
               /\ wire' = Taken(wire, k)
               /\ Goto(c, "failed") /\ UNCHANGED <<sent, sealed>>
        BY <1>4, <1>7, <3>1, <3>3
      <3>5. HelloAccepted(c, m)
        BY <1>2, <1>5, <2>2, <3>2, <3>4 DEF HelloAccepted, v
      <3>6. QED
        BY <3>5
    <2>4. CASE ~CheckSignature(v, m.ds, "client")
      <3>1. ~h.ok /\ h.w = v
        BY <2>1, <2>4, AnswerHandled DEF v
      <3>2. /\ sw' = [sw EXCEPT ![c] = v] /\ wire' = Taken(wire, k)
            /\ Goto(c, "failed") /\ UNCHANGED <<sent, sealed>>
        BY <1>4, <1>7, <3>1
      <3>3. /\ DOMAIN v = Fields0
            /\ \A f \in Fields0 \ {"sv_nonce", "other_eph_key", "send", "recv"} : v[f] = sw[c][f]
        BY <1>1, GreetedWrapper DEF v
      <3>4. /\ v.my_cert = sw[c].my_cert /\ v.peer_authenticated = FALSE
            /\ v.send_seq_num = sw[c].send_seq_num /\ v.recv_seq_num = sw[c].recv_seq_num
        <4>1. sw[c].peer_authenticated = FALSE
          BY <1>1, <1>2 DEF WrappersOK, Authentic
        <4>2. QED
          BY <3>3, <4>1, WrapperFields
      <3>5. pc'[c] = "failed" /\ DOMAIN pc' = User /\ \A x \in User : x # c => pc'[x] = pc[x]
        BY <1>1, <1>2, <3>2, GoneTo
      <3>6. PlacesKept
        BY <1>2, <3>5 DEF PlacesKept, Stopped
      <3>7. Prepares(c, v)
        BY <1>1, <1>2, <3>2, <3>3, <3>4, <3>6 DEF Prepares, WrappersOK
      <3>8. HelloRefused(c, m)
        BY <1>2, <1>5, <3>2, <3>7 DEF HelloRefused, v
      <3>9. QED
        BY <3>8
    <2>5. QED
      BY <2>3, <2>4
  <1>8. QED
    BY <1>6, <1>7

-----------------------------------------------------------------------------
(* Two who take each other for authenticated send and receive.             *)
Turn(u, v, p) ==
  /\ Authentic(u) /\ pc[u] \in {"start", "mine", "theirs"}
  /\ sw' = [sw EXCEPT ![u] = v] /\ Kept(sw[u], v) /\ v.peer_authenticated = TRUE
  /\ Goto(u, p) /\ p \in {"mine", "theirs", "failed"}
  /\ UNCHANGED <<tries, accepted, backlog, closed, lost>>

LEMMA TurnKeeps ==
  ASSUME SessionInv, NEW u \in User, NEW v, NEW p, Turn(u, v, p)
  PROVE  /\ WrappersOK' /\ HostOK' /\ (\A c \in Caller : CallerOK(c)')
         /\ CallersSame /\ HostSame /\ CountsStep
         /\ sw'[u] = v /\ \A x \in User : x # u => sw'[x] = sw[x]
         /\ \A x \in User : Kept(sw[x], sw'[x]) /\ (Authentic(x)' <=> Authentic(x))
         /\ pc'[u] = p /\ DOMAIN pc' = User /\ \A x \in User : x # u => pc'[x] = pc[x]
         /\ \A x \in User : pc[x] \in Stopped => pc'[x] \in Stopped
         /\ pc'[Host] \in Places /\ \A c \in Caller : pc'[c] \in CallerPlaces
         /\ accepted \in Caller
  <1>0. /\ WrappersOK /\ HostOK /\ (\A d \in Caller : CallerOK(d))
        /\ SessionTypeOK /\ CountsOK
    BY DEF SessionInv
  <1>1. /\ Authentic(u) /\ pc[u] \in {"start", "mine", "theirs"} /\ pc[u] \notin Stopped
        /\ sw' = [sw EXCEPT ![u] = v] /\ Kept(sw[u], v) /\ v.peer_authenticated = TRUE
        /\ Goto(u, p) /\ p \in {"mine", "theirs", "failed"}
        /\ UNCHANGED <<tries, accepted, backlog, closed, lost>>
    BY DEF Turn, Stopped
  <1>2. sw'[u] = v /\ (\A x \in User : x # u => sw'[x] = sw[x]) /\ DOMAIN sw[u] = Fields0
    BY <1>0, <1>1, Rewrapped
  <1>3. pc'[u] = p /\ DOMAIN pc' = User /\ \A x \in User : x # u => pc'[x] = pc[x]
    BY <1>0, <1>1, GoneTo
  <1>4. \A x \in User : Kept(sw[x], sw'[x]) /\ (Authentic(x)' <=> Authentic(x))
    BY <1>1, <1>2 DEF Kept, Authentic
  <1>5. ASSUME NEW x \in User
        PROVE  /\ CallersHello(sw'[x]) = CallersHello(sw[x]) /\ HostsHello(sw'[x]) = HostsHello(sw[x])
               /\ CallersProof(sw'[x]) = CallersProof(sw[x])
               /\ MsgToSign(sw'[x], "server") = MsgToSign(sw[x], "server")
               /\ MsgToSign(sw'[x], "client") = MsgToSign(sw[x], "client")
               /\ (Keyed(sw'[x], "server") <=> Keyed(sw[x], "server"))
               /\ (Keyed(sw'[x], "client") <=> Keyed(sw[x], "client"))
    <2>1. DOMAIN sw[x] = Fields0
      BY <1>0 DEF WrappersOK, Fields0
    <2>2. QED
      BY <1>4, <2>1, KeptSame
  <1>6. ASSUME NEW x \in User
        PROVE  /\ sw'[x].my_cert = sw[x].my_cert /\ sw'[x].other_cert = sw[x].other_cert
               /\ sw'[x].cl_nonce = sw[x].cl_nonce /\ sw'[x].sv_nonce = sw[x].sv_nonce
               /\ sw'[x].my_eph_key = sw[x].my_eph_key
    BY <1>4 DEF Kept, KeptFields
  <1>7. accepted \in Caller
    BY <1>0, <1>1, Users DEF HostOK, CallerOK, WrappersOK
  <1>8. (Answered' <=> Answered) /\ \A c \in Caller : Called(c)' <=> Called(c)
    BY <1>6, Users DEF Answered, Called
  <1>9. WrappersOK'
    <2>1. DOMAIN v = Fields0 /\ v.my_cert = sw[u].my_cert
      BY <1>1, <1>2 DEF Kept, KeptFields
    <2>2. QED
      BY <1>0, <1>1, <1>3, <2>1, WrappersStay DEF WrappersOK
  <1>10. HostOK'
    <2>1. pc'[Host] = pc[Host] \/ (u = Host /\ pc'[Host] \in {"mine", "theirs", "failed"})
      BY <1>1, <1>3, Users
    <2>2. u = Host => Authentic(Host)
      BY <1>1
    <2>3. QED
      BY <1>0, <1>1, <1>4, <1>5, <1>6, <1>7, <1>8, <2>1, <2>2, Users DEF HostOK
  <1>11. ASSUME NEW c \in Caller PROVE CallerOK(c)'
    <2>1. CallerOK(c)
      BY <1>0
    <2>2. pc'[c] = pc[c] \/ (u = c /\ pc'[c] \in {"mine", "theirs", "failed"})
      BY <1>1, <1>3, Users
    <2>3. u = c => Authentic(c)
      BY <1>1
    <2>4. QED
      BY <1>1, <1>4, <1>5, <1>6, <1>8, <2>1, <2>2, <2>3, Users DEF CallerOK
  <1>12. CallersSame /\ HostSame
    BY <1>1, <1>4, <1>5, <1>8, Users DEF CallersSame, HostSame
  <1>13. CountsStep
    BY <1>0, <1>1, <1>3, Users, CountsStay
  <1>14. \A x \in User : pc[x] \in Stopped => pc'[x] \in Stopped
    BY <1>1, <1>3
  <1>15. pc'[Host] \in Places /\ \A c \in Caller : pc'[c] \in CallerPlaces
    BY <1>0, <1>1, <1>3, Users DEF SessionTypeOK, Places, CallerPlaces, Stopped
  <1>16. QED
    BY <1>2, <1>3, <1>4, <1>7, <1>9, <1>10, <1>11, <1>12, <1>13, <1>14, <1>15

(* The lanes of someone who is authenticated, and their numbers.           *)
LEMMA LanesOf ==
  ASSUME SessionInv, NEW u \in User, Authentic(u)
  PROVE  /\ <<u, Partner(u)>> \in Lane /\ <<Partner(u), u>> \in Lane
         /\ sw[u].send_seq_num = Len(sent[<<u, Partner(u)>>])
         /\ sw[u].recv_seq_num = Len(got[<<Partner(u), u>>])
         /\ u = Host => Partner(u) = accepted /\ accepted \in Caller
         /\ u # Host => Partner(u) = Host /\ u \in Caller /\ accepted = u
  <1>0. WrappersOK /\ HostOK /\ NumbersOK /\ \A d \in Caller : CallerOK(d)
    BY DEF SessionInv
  <1>1. CASE u = Host
    <2>1. accepted \in Caller /\ Partner(u) = accepted
      BY <1>0, <1>1 DEF HostOK, WrappersOK, Partner
    <2>2. QED
      BY <1>0, <1>1, <2>1, Lanes DEF NumbersOK
  <1>2. CASE u # Host
    <2>1. u \in Caller /\ Partner(u) = Host /\ accepted = u
      BY <1>0, <1>2, Users DEF CallerOK, Partner
    <2>2. QED
      BY <1>0, <1>2, <2>1, Lanes DEF NumbersOK
  <1>3. QED
    BY <1>1, <1>2

LEMMA AppendOne ==
  ASSUME NEW s \in Seq(GameMessage), NEW m \in GameMessage, NEW t, t = Append(s, m)
  PROVE  /\ t \in Seq(GameMessage) /\ Len(s) \in Nat /\ Len(t) = Len(s) + 1 /\ t # <<>>
         /\ \A i \in 1 .. Len(s) : t[i] = s[i]
         /\ t[Len(s) + 1] = m
         /\ \A i \in 1 .. Len(t) : i \in 1 .. Len(s) \/ i = Len(s) + 1
  <1>1. /\ t \in Seq(GameMessage) /\ Len(s) \in Nat /\ Len(t) = Len(s) + 1
        /\ \A i \in 1 .. Len(s) : t[i] = s[i]
        /\ t[Len(s) + 1] = m
    BY AppendProperties
  <1>2. t # <<>>
    BY <1>1, EmptySeq
  <1>3. QED
    BY <1>1, <1>2

Receives(u, l, p) ==
  /\ Turn(u, ReceivedOne(sw[u]), p) /\ p \in {"mine", "failed"}
  /\ l = <<Partner(u), u>> /\ wire[l] # <<>> /\ Len(got[l]) < Len(sent[l])
  /\ wire' = Taken(wire, l)
  /\ got' = [got EXCEPT ![l] = Append(@, sent[l][Len(got[l]) + 1])]
  /\ pc[u] \in {"start", "theirs"}
  /\ UNCHANGED <<sent, sealed>>

LEMMA ReceivesKeeps ==
  ASSUME SessionInv, NEW u \in User, NEW l, NEW p, Receives(u, l, p)
  PROVE  SessionInv'
  <1>0. /\ WrappersOK /\ HostOK /\ (\A d \in Caller : CallerOK(d))
        /\ NumbersOK /\ HistoryOK /\ WiresGenuine /\ SealedOK
        /\ SessionTypeOK /\ CountsOK
    BY DEF SessionInv
  <1> DEFINE v == ReceivedOne(sw[u])
  <1>1. Turn(u, v, p)
    BY DEF Receives
  <1>2. /\ Authentic(u) /\ wire[l] # <<>> /\ l = <<Partner(u), u>>
        /\ wire' = Taken(wire, l) /\ Len(got[l]) < Len(sent[l])
        /\ got' = [got EXCEPT ![l] = Append(@, sent[l][Len(got[l]) + 1])]
        /\ UNCHANGED <<accepted, sent, sealed>>
        /\ pc[u] \in {"start", "theirs"} /\ p \in {"mine", "failed"}
    BY <1>1 DEF Receives, Turn
  <1>3. /\ l \in Lane /\ sw[u].recv_seq_num = Len(got[l]) /\ l[1] = Partner(u) /\ l[2] = u
        /\ u = Host => l = <<accepted, Host>> /\ accepted \in Caller
        /\ u # Host => l = <<Host, u>> /\ u \in Caller /\ accepted = u
    BY <1>2, LanesOf
  <1>4. DOMAIN sw[u] = Fields0
    BY <1>0 DEF WrappersOK, Fields0
  <1>5. /\ v.send_seq_num = sw[u].send_seq_num /\ v.recv_seq_num = sw[u].recv_seq_num + 1
        /\ v.send = sw[u].send
    BY <1>4, WrapperFields DEF ReceivedOne
  <1> HIDE DEF v
  <1>6. /\ WrappersOK' /\ HostOK' /\ (\A c \in Caller : CallerOK(c)')
        /\ CallersSame /\ HostSame /\ CountsStep
        /\ sw'[u] = v /\ \A x \in User : x # u => sw'[x] = sw[x]
        /\ \A x \in User : Kept(sw[x], sw'[x]) /\ (Authentic(x)' <=> Authentic(x))
        /\ pc'[u] = p /\ DOMAIN pc' = User /\ \A x \in User : x # u => pc'[x] = pc[x]
        /\ \A x \in User : pc[x] \in Stopped => pc'[x] \in Stopped
        /\ pc'[Host] \in Places /\ \A c \in Caller : pc'[c] \in CallerPlaces
    BY <1>1, TurnKeeps
  <1> DEFINE n == Len(got[l]) + 1
             m == sent[l][n]
             g == Append(got[l], m)
  <1>7. /\ got[l] \in Seq(GameMessage) /\ sent[l] \in Seq(GameMessage)
        /\ \A i \in 1 .. Len(got[l]) : got[l][i] = sent[l][i]
        /\ DOMAIN got = Lane /\ DOMAIN sent = Lane
    BY <1>0, <1>3 DEF HistoryOK
  <1>8. n \in 1 .. Len(sent[l]) /\ m \in GameMessage /\ Len(sent[l]) \in Nat /\ Len(got[l]) \in Nat
    BY <1>2, <1>7
  <1> HIDE DEF m
  <1>9. /\ g \in Seq(GameMessage) /\ Len(got[l]) \in Nat /\ Len(g) = n /\ g # <<>>
        /\ \A i \in 1 .. Len(got[l]) : g[i] = got[l][i]
        /\ g[n] = m
        /\ \A i \in 1 .. n : i \in 1 .. Len(got[l]) \/ i = n
    BY <1>7, <1>8, AppendOne
  <1> HIDE DEF g
  <1>10. /\ got'[l] = g /\ DOMAIN got' = Lane /\ \A k \in Lane : k # l => got'[k] = got[k]
    BY <1>2, <1>3, <1>7 DEF g, m
  <1>11. HistoryOK'
    <2>1. ASSUME NEW k \in Lane
          PROVE  /\ sent'[k] \in Seq(GameMessage) /\ got'[k] \in Seq(GameMessage)
                 /\ Len(got'[k]) <= Len(sent'[k])
                 /\ \A i \in 1 .. Len(got'[k]) : got'[k][i] = sent'[k][i]
                 /\ \A i \in 1 .. Len(sent'[k]) :
                      sent'[k][i].type = "START_GAME_PEER" <=> k[2] = Host /\ i = 1
      <3>1. CASE k = l
        <4>1. \A i \in 1 .. n : g[i] = sent[l][i]
          BY <1>7, <1>9 DEF m
        <4>2. n <= Len(sent[l])
          BY <1>8
        <4>3. \A i \in 1 .. Len(sent[l]) :
                sent[l][i].type = "START_GAME_PEER" <=> l[2] = Host /\ i = 1
          BY <1>0, <1>3 DEF HistoryOK
        <4> HIDE DEF n
        <4>4. QED
          BY <1>2, <1>7, <1>9, <1>10, <3>1, <4>1, <4>2, <4>3
      <3>2. CASE k # l
        BY <1>0, <1>2, <1>10, <3>2 DEF HistoryOK
      <3>3. QED
        BY <3>1, <3>2
    <2>2. ASSUME NEW c \in Caller
          PROVE  /\ pc'[c] \in {"mine", "theirs"} => sent'[<<c, Host>>] # <<>>
                 /\ pc'[Host] = "start" => got'[<<c, Host>>] = <<>>
                 /\ pc'[Host] \in {"mine", "theirs"} /\ accepted' = c => got'[<<c, Host>>] # <<>>
      <3>0. c \in User /\ c # Host /\ Host \in User /\ <<c, Host>> \in Lane
        BY Users, Lanes
      <3>1. /\ pc[c] \in {"mine", "theirs"} => sent[<<c, Host>>] # <<>>
            /\ pc[Host] = "start" => got[<<c, Host>>] = <<>>
            /\ pc[Host] \in {"mine", "theirs"} /\ accepted = c => got[<<c, Host>>] # <<>>
        BY <1>0 DEF HistoryOK
      <3>2. pc'[c] \in {"mine", "theirs"} => sent'[<<c, Host>>] # <<>>
        <4>1. CASE u = c
          <5>1. pc[c] # "start"
            BY <1>0 DEF SessionTypeOK, Stopped
          <5>2. QED
            BY <1>2, <3>1, <4>1, <5>1
        <4>2. CASE u # c
          BY <1>2, <1>6, <3>0, <3>1, <4>2
        <4>3. QED
          BY <4>1, <4>2
      <3>3. CASE u = Host
        <4>1. accepted = c => got'[<<c, Host>>] # <<>>
          BY <1>3, <1>9, <1>10, <3>3
        <4>2. QED
          BY <1>2, <1>6, <3>2, <3>3, <4>1
      <3>4. CASE u # Host
        <4>1. l # <<c, Host>>
          BY <1>3, <3>0, <3>4
        <4>2. got'[<<c, Host>>] = got[<<c, Host>>] /\ pc'[Host] = pc[Host]
          BY <1>6, <1>10, <3>0, <3>4, <4>1
        <4>3. QED
          BY <1>2, <3>1, <3>2, <4>2
      <3>5. QED
        BY <3>3, <3>4
    <2>3. QED
      BY <1>2, <1>7, <1>10, <2>1, <2>2 DEF HistoryOK
  <1>12. NumbersOK'
    <2>1. \A k \in Lane : (sent'[k] # <<>> => Authentic(k[1])') /\ (got'[k] # <<>> => Authentic(k[2])')
      BY <1>0, <1>2, <1>3, <1>6, <1>10, Lanes DEF NumbersOK
    <2>2. \A x \in User : sw'[x].send_seq_num = sw[x].send_seq_num
      BY <1>5, <1>6
    <2>3. sw'[u].recv_seq_num = Len(got'[l]) /\ \A x \in User : x # u => sw'[x].recv_seq_num = sw[x].recv_seq_num
      BY <1>3, <1>5, <1>6, <1>9, <1>10
    <2>4. ASSUME NEW d \in Caller
          PROVE  /\ sw'[d].send_seq_num = Len(sent'[<<d, Host>>])
                 /\ sw'[d].recv_seq_num = Len(got'[<<Host, d>>])
                 /\ accepted' = d => /\ sw'[Host].send_seq_num = Len(sent'[<<Host, d>>])
                                     /\ sw'[Host].recv_seq_num = Len(got'[<<d, Host>>])
                 /\ accepted' # d => sent'[<<Host, d>>] = <<>> /\ got'[<<d, Host>>] = <<>>
      <3>0. /\ d \in User /\ d # Host /\ Host \in User /\ <<d, Host>> \in Lane /\ <<Host, d>> \in Lane
        BY Users, Lanes
      <3>1. /\ sw[d].send_seq_num = Len(sent[<<d, Host>>])
            /\ sw[d].recv_seq_num = Len(got[<<Host, d>>])
            /\ accepted = d => /\ sw[Host].send_seq_num = Len(sent[<<Host, d>>])
                               /\ sw[Host].recv_seq_num = Len(got[<<d, Host>>])
            /\ accepted # d => sent[<<Host, d>>] = <<>> /\ got[<<d, Host>>] = <<>>
        BY <1>0 DEF NumbersOK
      <3>2. sw'[d].recv_seq_num = Len(got'[<<Host, d>>])
        BY <1>3, <1>10, <2>3, <3>0, <3>1
      <3>3. accepted = d => sw'[Host].recv_seq_num = Len(got'[<<d, Host>>])
        BY <1>3, <1>10, <2>3, <3>0, <3>1
      <3>4. accepted # d => got'[<<d, Host>>] = <<>>
        BY <1>3, <1>10, <3>0, <3>1
      <3>5. QED
        BY <1>2, <2>2, <3>0, <3>1, <3>2, <3>3, <3>4
    <2>5. accepted' # NULL
      BY <1>2, <1>3, Users
    <2>6. QED
      BY <2>1, <2>4, <2>5 DEF NumbersOK
  <1>13. SealedOK'
    <2>1. \A x \in User : Authentic(x) => /\ Authentic(x)' /\ sw'[x].send = sw[x].send
                                          /\ sw'[x].send_seq_num = sw[x].send_seq_num
      BY <1>5, <1>6
    <2>2. QED
      BY <1>0, <1>2, <1>6, <2>1, SealedStays
  <1>14. WiresGenuine'
    <2>1. RecordsKept
      BY <1>0, <1>2, <1>6, RecordsStay
    <2>2. \A k \in Lane : \A b : MayBeOn(k, b) => MayBeOn(k, b)'
      BY <1>0, <1>6, <2>1, MayBeOnStays
    <2>3. Wires(wire') /\ \A k \in Lane : \A b : Has(wire'[k], b) => Has(wire[k], b)
      BY <1>0, <1>2, <1>3, TakenFewer
    <2>4. QED
      BY <1>0, <2>2, <2>3, WiresStayGenuine
  <1>15. SessionTypeOK' /\ CountsOK'
    BY <1>2, <1>3, <1>6, <1>11, TypesStay
  <1>16. QED
    BY <1>6, <1>11, <1>12, <1>13, <1>14, <1>15 DEF SessionInv

(* What comes next is what is waited for.                                  *)
LEMMA NextType ==
  ASSUME SessionInv, NEW u \in User, Authentic(u), pc[u] \in {"start", "theirs"},
         NEW l, l = <<Partner(u), u>>, NEW n, n = Len(got[l]) + 1, n \in 1 .. Len(sent[l])
  PROVE  sent[l][n].type = IF pc[u] = "start" THEN "START_GAME_PEER" ELSE "MOVE"
  <1>0. HistoryOK /\ SessionTypeOK
    BY DEF SessionInv
  <1>1. /\ l \in Lane /\ l[2] = u
        /\ u = Host => l = <<accepted, Host>> /\ accepted \in Caller
        /\ u # Host => u \in Caller
    BY LanesOf
  <1>2. /\ sent[l] \in Seq(GameMessage) /\ got[l] \in Seq(GameMessage)
        /\ sent[l][n].type = "START_GAME_PEER" <=> l[2] = Host /\ n = 1
    BY <1>0, <1>1 DEF HistoryOK
  <1>3. sent[l][n] \in GameMessage
    BY <1>2
  <1>4. sent[l][n].type \in {"START_GAME_PEER", "MOVE"}
    BY <1>3, GameReadBack
  <1>5. CASE pc[u] = "start"
    <2>1. u = Host
      BY <1>0, <1>1, <1>5 DEF SessionTypeOK, Stopped
    <2>2. got[l] = <<>>
      BY <1>0, <1>1, <1>5, <2>1 DEF HistoryOK
    <2>3. n = 1
      BY <2>2, EmptySeq
    <2>4. QED
      BY <1>1, <1>2, <1>5, <2>1, <2>3
  <1>6. CASE pc[u] = "theirs" /\ u = Host
    <2>1. got[l] # <<>>
      BY <1>0, <1>1, <1>6 DEF HistoryOK
    <2>2. Len(got[l]) \in Nat \ {0}
      BY <1>2, <2>1, EmptySeq
    <2>3. n # 1
      BY <2>2
    <2>4. QED
      BY <1>2, <1>4, <1>6, <2>3
  <1>7. CASE pc[u] = "theirs" /\ u # Host
    BY <1>1, <1>2, <1>4, <1>7
  <1>8. QED
    BY <1>5, <1>6, <1>7

LEMMA SecureCases ==
  ASSUME SessionInv, NEW u \in User, Authentic(u), pc[u] \in {"start", "theirs"},
         NEW l, l = <<Partner(u), u>>,
         NEW type, type = IF pc[u] = "start" THEN "START_GAME_PEER" ELSE "MOVE",
         ReceiveSecure(u, l, type, "mine")
  PROVE  StillStep \/ Receives(u, l, "mine")
  <1>0. WrappersOK /\ NumbersOK /\ HistoryOK /\ WiresGenuine
    BY DEF SessionInv
  <1>1. l \in Lane /\ l[1] = Partner(u) /\ sw[u].recv_seq_num = Len(got[l])
    BY LanesOf
  <1>2. PICK r \in Receiving(u, l, type) :
          /\ sw' = [sw EXCEPT ![u] = r.w]
          /\ wire' = Taken(wire, l)
          /\ got' = IF r.msg = NULL THEN got ELSE [got EXCEPT ![l] = Append(@, r.msg)]
          /\ Goto(u, IF r.outcome = "got" THEN "mine" ELSE NotGot(u, r))
    BY DEF ReceiveSecure
  <1>3. UNCHANGED <<tries, accepted, backlog, closed, lost, sent, sealed>> /\ pc[u] \notin Stopped
    BY DEF ReceiveSecure, socketVars, Stopped
  <1>4. /\ wire[l] # <<>>
        /\ \/ r.msg = NULL /\ r.w = sw[u] /\ r.outcome = "again"
           \/ /\ r.msg # NULL /\ r.w = ReceivedOne(sw[u])
              /\ r.outcome = IF r.msg.type = type THEN "got" ELSE "other"
              /\ \E n \in 1 .. Len(sent[l]) :
                   /\ r.msg = sent[l][n] /\ sw[u].recv.key = sw[l[1]].send.key
                   /\ sw[u].recv_seq_num = n - 1
    BY <1>0, <1>1, <1>2, ReceiptAfter
  <1>5. CASE r.msg = NULL /\ r.w = sw[u] /\ r.outcome = "again"
    <2>1. sw' = [sw EXCEPT ![u] = sw[u]] /\ wire' = Taken(wire, l) /\ got' = got
      BY <1>2, <1>5
    <2>2. Goto(u, pc[u])
      BY <1>2, <1>5 DEF NotGot
    <2>3. QED
      BY <1>1, <1>3, <1>4, <2>1, <2>2, TakenStill
  <1>6. ASSUME r.msg # NULL, r.w = ReceivedOne(sw[u]),
               r.outcome = IF r.msg.type = type THEN "got" ELSE "other",
               NEW n \in 1 .. Len(sent[l]), r.msg = sent[l][n], sw[u].recv_seq_num = n - 1
        PROVE  Receives(u, l, "mine")
    <2>1. /\ got[l] \in Seq(GameMessage) /\ sent[l] \in Seq(GameMessage)
      BY <1>0, <1>1 DEF HistoryOK
    <2>2. n = Len(got[l]) + 1 /\ Len(got[l]) < Len(sent[l])
      <3>1. Len(got[l]) \in Nat /\ Len(sent[l]) \in Nat /\ Len(got[l]) = n - 1 /\ n \in 1 .. Len(sent[l])
        BY <1>1, <1>6, <2>1
      <3>2. QED
        BY <3>1
    <2>3. r.msg.type = type
      BY <1>6, <2>2, NextType
    <2>4. Goto(u, "mine") /\ got' = [got EXCEPT ![l] = Append(@, r.msg)]
      BY <1>2, <1>6, <2>3
    <2>5. got' = [got EXCEPT ![l] = Append(@, sent[l][Len(got[l]) + 1])]
      BY <1>6, <2>2, <2>4
    <2> DEFINE v == ReceivedOne(sw[u])
    <2>6. DOMAIN sw[u] = Fields0 /\ sw[u].peer_authenticated = TRUE
      BY <1>0 DEF WrappersOK, Fields0, Authentic
    <2>7. Kept(sw[u], v) /\ v.peer_authenticated = TRUE
      BY <2>6, WrapperFields DEF ReceivedOne, Kept, KeptFields
    <2>8. sw' = [sw EXCEPT ![u] = v]
      BY <1>2, <1>6
    <2> HIDE DEF v
    <2>9. Turn(u, v, "mine")
      BY <1>3, <2>4, <2>7, <2>8 DEF Turn
    <2>10. QED
      BY <1>2, <1>3, <1>4, <2>2, <2>5, <2>9 DEF Receives, v
  <1>7. QED
    BY <1>4, <1>5, <1>6

LEMMA HostStartCases ==
  ASSUME SessionInv, HostStart PROVE StillStep \/ \E l : Receives(Host, l, "mine")
  <1>1. /\ pc[Host] = "start" /\ ReceiveSecure(Host, FromCaller, "START_GAME_PEER", "mine")
        /\ Host \in User
    BY Users DEF HostStart
  <1>2. Authentic(Host)
    BY <1>1 DEF SessionInv, HostOK
  <1>3. FromCaller = <<Partner(Host), Host>>
    BY <1>1, <1>2, LanesOf DEF FromCaller
  <1>4. QED
    BY <1>1, <1>2, <1>3, SecureCases

LEMMA RecvMoveCases ==
  ASSUME SessionInv, NEW u \in User, RecvMove(u)
  PROVE  StillStep \/ \E l : Receives(u, l, "mine")
  <1>1. /\ pc[u] = "theirs" /\ ReceiveSecure(u, <<Partner(u), u>>, "MOVE", "mine")
    BY DEF RecvMove
  <1>2. Authentic(u)
    BY <1>1, Users DEF SessionInv, HostOK, CallerOK
  <1>3. QED
    BY <1>1, <1>2, SecureCases

-----------------------------------------------------------------------------
(* A new tag: no other program has that key, and no earlier message of     *)
(* this one that number.                                                   *)
LEMMA SealedGrows ==
  ASSUME SealedOK, NEW u \in User, Authentic(u), pc[u] \notin Stopped,
         NEW k \in Nat, sw[u].send_seq_num = k,
         NEW t, t[2] = sw[u].send.key, t[3] = UpdateIV(k, sw[u].send.iv),
         sealed' \subseteq sealed \cup {t},
         \A x \in User : Authentic(x) => Authentic(x)' /\ sw'[x].send = sw[x].send,
         \A x \in User : x # u => sw'[x].send_seq_num = sw[x].send_seq_num,
         \A x \in User : Authentic(x) /\ x # u => sw[x].send.key # sw[u].send.key,
         \/ sw'[u].send_seq_num = k + 1
         \/ sw'[u].send_seq_num = k /\ pc'[u] \in Stopped,
         \A x \in User : pc[x] \in Stopped => pc'[x] \in Stopped
  PROVE  SealedOK'
  <1>1. ASSUME NEW s \in sealed, s[2] = t[2], s[3] = t[3] PROVE FALSE
    <2>1. PICK x \in User : MadeBy(s, x)
      BY DEF SealedOK
    <2>2. x = u
      BY <1>1, <2>1 DEF MadeBy
    <2>3. PICK n \in 0 .. k : /\ s[3] = UpdateIV(n, sw[u].send.iv)
                              /\ n = k => pc[u] \in Stopped
      BY <2>1, <2>2 DEF MadeBy
    <2>4. n = k
      BY <1>1, <2>3 DEF UpdateIV
    <2>5. QED
      BY <2>3, <2>4
  <1>2. FreshIVs'
    BY <1>1 DEF SealedOK, FreshIVs
  <1>3. ASSUME NEW s \in sealed PROVE \E x \in User : MadeBy(s, x)'
    <2>1. PICK x \in User : MadeBy(s, x)
      BY DEF SealedOK
    <2>2. PICK n \in 0 .. sw[x].send_seq_num :
            /\ s[3] = UpdateIV(n, sw[x].send.iv)
            /\ n = sw[x].send_seq_num => pc[x] \in Stopped
      BY <2>1 DEF MadeBy
    <2>3. Authentic(x)' /\ sw'[x].send = sw[x].send /\ s[2] = sw[x].send.key
      BY <2>1 DEF MadeBy
    <2>4. n \in 0 .. sw'[x].send_seq_num /\ (n = sw'[x].send_seq_num => pc'[x] \in Stopped)
      BY <2>2
    <2>5. MadeBy(s, x)'
      BY <2>2, <2>3, <2>4 DEF MadeBy
    <2>6. QED
      BY <2>5
  <1>4. MadeBy(t, u)'
    <2>1. k \in 0 .. sw'[u].send_seq_num /\ (k = sw'[u].send_seq_num => pc'[u] \in Stopped)
      OBVIOUS
    <2>2. QED
      BY <2>1 DEF MadeBy
  <1>5. QED
    BY <1>2, <1>3, <1>4 DEF SealedOK

LEMMA OthersKey ==
  ASSUME SessionInv, NEW u \in User, NEW x \in User, Authentic(u), Authentic(x), x # u
  PROVE  sw[x].send.key # sw[u].send.key
  <1>0. WrappersOK /\ HostOK /\ \A d \in Caller : CallerOK(d)
    BY DEF SessionInv
  <1>1. \A y \in User : DOMAIN sw[y] = Fields0
    BY <1>0 DEF WrappersOK, Fields0
  <1>2. \A d \in Caller : Authentic(d) => accepted = d /\ Keyed(sw[d], "client")
    BY <1>0 DEF CallerOK
  <1>3. Authentic(Host) => Keyed(sw[Host], "server")
    BY <1>0 DEF HostOK
  <1>4. CASE u = Host
    BY <1>1, <1>2, <1>3, <1>4, Users, KeysDiffer
  <1>5. CASE x = Host
    BY <1>1, <1>2, <1>3, <1>5, Users, KeysDiffer
  <1>6. QED
    BY <1>2, <1>4, <1>5, Users

(* A move is sent, or could not be.                                        *)
Moved(u, l, s, v, p, t) ==
  /\ Turn(u, v, p) /\ pc[u] = "mine" /\ l = <<u, Partner(u)>>
  /\ v.recv_seq_num = sw[u].recv_seq_num /\ v.send_seq_num = Len(s)
  /\ s \in Seq(GameMessage)
  /\ \/ s = sent[l] /\ p = "failed"
     \/ Len(s) = Len(sent[l]) + 1 /\ s[Len(s)].type = "MOVE" /\ p = "theirs"
  /\ \A i \in 1 .. Len(sent[l]) : s[i] = sent[l][i]
  /\ sent'[l] = s /\ (\A k \in Lane : k # l => sent'[k] = sent[k])
  /\ DOMAIN sent' = DOMAIN sent /\ got' = got
  /\ t[2] = sw[u].send.key /\ t[3] = UpdateIV(Len(sent[l]), sw[u].send.iv)
  /\ sealed' \subseteq sealed \cup {t}
  /\ Wires(wire')
  /\ \A k \in Lane : \A b : Has(wire'[k], b) =>
       Has(wire[k], b) \/ (k = l /\ s # sent[l] /\ b = Write(Record(l, Len(s))'))

LEMMA MovedKeeps ==
  ASSUME SessionInv, NEW u \in User, NEW l, NEW s, NEW v, NEW p, NEW t, Moved(u, l, s, v, p, t)
  PROVE  SessionInv'
  <1>0. /\ WrappersOK /\ HostOK /\ (\A d \in Caller : CallerOK(d))
        /\ NumbersOK /\ HistoryOK /\ WiresGenuine /\ SealedOK
        /\ SessionTypeOK /\ CountsOK
    BY DEF SessionInv
  <1>1. /\ Turn(u, v, p) /\ pc[u] = "mine" /\ l = <<u, Partner(u)>>
        /\ v.recv_seq_num = sw[u].recv_seq_num /\ v.send_seq_num = Len(s)
        /\ s \in Seq(GameMessage)
        /\ \/ s = sent[l] /\ p = "failed"
           \/ Len(s) = Len(sent[l]) + 1 /\ s[Len(s)].type = "MOVE" /\ p = "theirs"
        /\ \A i \in 1 .. Len(sent[l]) : s[i] = sent[l][i]
        /\ sent'[l] = s /\ (\A k \in Lane : k # l => sent'[k] = sent[k])
        /\ DOMAIN sent' = DOMAIN sent /\ got' = got
        /\ t[2] = sw[u].send.key /\ t[3] = UpdateIV(Len(sent[l]), sw[u].send.iv)
        /\ sealed' \subseteq sealed \cup {t}
    BY DEF Moved
  <1>2. /\ Authentic(u) /\ accepted' = accepted /\ pc[u] \notin Stopped
    BY <1>1 DEF Turn, Stopped
  <1>3. /\ l \in Lane /\ sw[u].send_seq_num = Len(sent[l]) /\ l[1] = u /\ l[2] = Partner(u)
        /\ u = Host => l = <<Host, accepted>> /\ accepted \in Caller /\ l[2] \in Caller
        /\ u # Host => l = <<u, Host>> /\ u \in Caller /\ accepted = u
    BY <1>1, <1>2, LanesOf
  <1>4. /\ WrappersOK' /\ HostOK' /\ (\A c \in Caller : CallerOK(c)')
        /\ CallersSame /\ HostSame /\ CountsStep
        /\ sw'[u] = v /\ \A x \in User : x # u => sw'[x] = sw[x]
        /\ \A x \in User : Kept(sw[x], sw'[x]) /\ (Authentic(x)' <=> Authentic(x))
        /\ pc'[u] = p /\ DOMAIN pc' = User /\ \A x \in User : x # u => pc'[x] = pc[x]
        /\ \A x \in User : pc[x] \in Stopped => pc'[x] \in Stopped
        /\ pc'[Host] \in Places /\ (\A c \in Caller : pc'[c] \in CallerPlaces)
        /\ accepted \in Caller
    BY <1>1, TurnKeeps
  <1>5. /\ sent[l] \in Seq(GameMessage) /\ DOMAIN sent = Lane /\ DOMAIN got = Lane
        /\ Len(got[l]) <= Len(sent[l])
        /\ \A i \in 1 .. Len(got[l]) : got[l][i] = sent[l][i]
        /\ got[l] \in Seq(GameMessage)
        /\ \A i \in 1 .. Len(sent[l]) :
             sent[l][i].type = "START_GAME_PEER" <=> l[2] = Host /\ i = 1
    BY <1>0, <1>3 DEF HistoryOK
  <1>6. Len(sent[l]) \in Nat /\ Len(got[l]) \in Nat /\ Len(s) \in Nat /\ Len(sent[l]) <= Len(s)
    BY <1>1, <1>5
  <1>7. /\ sent'[l] = s /\ DOMAIN sent' = Lane /\ \A k \in Lane : k # l => sent'[k] = sent[k]
    BY <1>1, <1>3, <1>5
  <1>8. \A i \in 1 .. Len(s) : s[i].type = "START_GAME_PEER" <=> l[2] = Host /\ i = 1
    <2>1. CASE s = sent[l]
      BY <1>5, <2>1
    <2>2. CASE Len(s) = Len(sent[l]) + 1 /\ s[Len(s)].type = "MOVE"
      <3>1. l[2] = Host => Len(s) # 1
        <4>1. ASSUME l[2] = Host PROVE Len(sent[l]) # 0
          <5>1. u # Host /\ l = <<u, Host>> /\ u \in Caller
            BY <1>3, <4>1, Users
          <5>2. sent[l] # <<>>
            BY <1>0, <1>1, <5>1 DEF HistoryOK
          <5>3. QED
            BY <1>5, <5>2, EmptySeq
        <4>2. QED
          BY <1>6, <2>2, <4>1
      <3>2. \A i \in 1 .. Len(s) : i \in 1 .. Len(sent[l]) \/ i = Len(s)
        BY <1>6, <2>2
      <3>3. ASSUME NEW i \in 1 .. Len(s)
            PROVE  s[i].type = "START_GAME_PEER" <=> l[2] = Host /\ i = 1
        <4>1. CASE i \in 1 .. Len(sent[l])
          <5>1. s[i] = sent[l][i]
            BY <1>1, <4>1
          <5>2. QED
            BY <1>5, <4>1, <5>1
        <4>2. CASE i = Len(s)
          BY <2>2, <3>1, <4>2
        <4>3. QED
          BY <3>2, <4>1, <4>2
      <3>4. QED
        BY <3>3
    <2>3. QED
      BY <1>1, <2>1, <2>2
  <1>9. HistoryOK'
    <2>1. ASSUME NEW k \in Lane
          PROVE  /\ sent'[k] \in Seq(GameMessage) /\ got'[k] \in Seq(GameMessage)
                 /\ Len(got'[k]) <= Len(sent'[k])
                 /\ \A i \in 1 .. Len(got'[k]) : got'[k][i] = sent'[k][i]
                 /\ \A i \in 1 .. Len(sent'[k]) :
                      sent'[k][i].type = "START_GAME_PEER" <=> k[2] = Host /\ i = 1
      <3>1. CASE k = l
        <4>1. \A i \in 1 .. Len(got[l]) : i \in 1 .. Len(sent[l])
          BY <1>5, <1>6
        <4>2. Len(got[l]) <= Len(s)
          BY <1>5, <1>6
        <4>3. ASSUME NEW i \in 1 .. Len(got[l]) PROVE got[l][i] = s[i]
          <5>1. got[l][i] = sent[l][i]
            BY <1>5
          <5>2. s[i] = sent[l][i]
            BY <1>1, <4>1
          <5>3. QED
            BY <5>1, <5>2
        <4>4. sent'[k] = s /\ got'[k] = got[l]
          BY <1>1, <1>7, <3>1
        <4>5. s \in Seq(GameMessage) /\ got[l] \in Seq(GameMessage)
          BY <1>1, <1>5
        <4>6. QED
          BY <1>8, <3>1, <4>2, <4>3, <4>4, <4>5
      <3>2. CASE k # l
        BY <1>0, <1>1, <1>7, <3>2, SMTT(30) DEF HistoryOK
      <3>3. QED
        BY <3>1, <3>2
    <2>2. ASSUME NEW c \in Caller
          PROVE  /\ pc'[c] \in {"mine", "theirs"} => sent'[<<c, Host>>] # <<>>
                 /\ pc'[Host] = "start" => got'[<<c, Host>>] = <<>>
                 /\ pc'[Host] \in {"mine", "theirs"} /\ accepted' = c => got'[<<c, Host>>] # <<>>
      <3>0. c \in User /\ c # Host /\ Host \in User /\ <<c, Host>> \in Lane
        BY Users, Lanes
      <3>1. /\ pc[c] \in {"mine", "theirs"} => sent[<<c, Host>>] # <<>>
            /\ pc[Host] = "start" => got[<<c, Host>>] = <<>>
            /\ pc[Host] \in {"mine", "theirs"} /\ accepted = c => got[<<c, Host>>] # <<>>
        BY <1>0 DEF HistoryOK
      <3>2. sent[<<c, Host>>] # <<>> => sent'[<<c, Host>>] # <<>>
        <4>1. sent[l] # <<>> => s # <<>>
          BY <1>5, <1>6, EmptySeq
        <4>2. QED
          BY <1>7, <3>0, <4>1
      <3>3. pc'[c] \in {"mine", "theirs"} => pc[c] \in {"mine", "theirs"}
        BY <1>1, <1>4, <3>0
      <3>4. /\ pc'[Host] = "start" => pc[Host] = "start"
            /\ pc'[Host] \in {"mine", "theirs"} => pc[Host] \in {"mine", "theirs"}
        BY <1>1, <1>4, <3>0
      <3>5. QED
        BY <1>1, <1>2, <3>1, <3>2, <3>3, <3>4
    <2>3. QED
      BY <1>1, <1>5, <1>7, <2>1, <2>2 DEF HistoryOK
  <1>10. NumbersOK'
    <2>1. \A k \in Lane : (sent'[k] # <<>> => Authentic(k[1])') /\ (got'[k] # <<>> => Authentic(k[2])')
      BY <1>0, <1>1, <1>2, <1>3, <1>4, <1>7, Lanes DEF NumbersOK
    <2>2. \A x \in User : sw'[x].recv_seq_num = sw[x].recv_seq_num
      BY <1>1, <1>4
    <2>3. sw'[u].send_seq_num = Len(sent'[l]) /\ \A x \in User : x # u => sw'[x].send_seq_num = sw[x].send_seq_num
      BY <1>1, <1>4, <1>7
    <2>4. ASSUME NEW d \in Caller
          PROVE  /\ sw'[d].send_seq_num = Len(sent'[<<d, Host>>])
                 /\ sw'[d].recv_seq_num = Len(got'[<<Host, d>>])
                 /\ accepted' = d => /\ sw'[Host].send_seq_num = Len(sent'[<<Host, d>>])
                                     /\ sw'[Host].recv_seq_num = Len(got'[<<d, Host>>])
                 /\ accepted' # d => sent'[<<Host, d>>] = <<>> /\ got'[<<d, Host>>] = <<>>
      <3>0. /\ d \in User /\ d # Host /\ Host \in User /\ <<d, Host>> \in Lane /\ <<Host, d>> \in Lane
        BY Users, Lanes
      <3>1. /\ sw[d].send_seq_num = Len(sent[<<d, Host>>])
            /\ sw[d].recv_seq_num = Len(got[<<Host, d>>])
            /\ accepted = d => /\ sw[Host].send_seq_num = Len(sent[<<Host, d>>])
                               /\ sw[Host].recv_seq_num = Len(got[<<d, Host>>])
            /\ accepted # d => sent[<<Host, d>>] = <<>> /\ got[<<d, Host>>] = <<>>
        BY <1>0 DEF NumbersOK
      <3>2. sw'[d].send_seq_num = Len(sent'[<<d, Host>>])
        BY <1>3, <1>7, <2>3, <3>0, <3>1
      <3>3. accepted = d => sw'[Host].send_seq_num = Len(sent'[<<Host, d>>])
        BY <1>3, <1>7, <2>3, <3>0, <3>1
      <3>4. accepted # d => sent'[<<Host, d>>] = <<>>
        BY <1>3, <1>7, <3>0, <3>1
      <3>5. QED
        BY <1>1, <1>2, <2>2, <3>0, <3>1, <3>2, <3>3, <3>4
    <2>5. accepted' # NULL
      BY <1>2, <1>4, Users
    <2>6. QED
      BY <2>1, <2>4, <2>5 DEF NumbersOK
  <1>11. SealedOK'
    <2>1. \A x \in User : Authentic(x) => /\ Authentic(x)' /\ sw'[x].send = sw[x].send
      BY <1>4 DEF Kept, KeptFields
    <2>2. \A x \in User : x # u => sw'[x].send_seq_num = sw[x].send_seq_num
      BY <1>4
    <2>3. \A x \in User : Authentic(x) /\ x # u => sw[x].send.key # sw[u].send.key
      BY <1>2, OthersKey
    <2>4. \/ sw'[u].send_seq_num = Len(sent[l]) + 1
          \/ sw'[u].send_seq_num = Len(sent[l]) /\ pc'[u] \in Stopped
      BY <1>1, <1>4 DEF Stopped
    <2>5. QED
      BY <1>0, <1>1, <1>2, <1>3, <1>4, <1>6, <2>1, <2>2, <2>3, <2>4, SealedGrows
  <1>12. WiresGenuine'
    <2>1. RecordsKept
      <3>1. \A k \in Lane : /\ Len(sent'[k]) \in Nat /\ Len(sent[k]) <= Len(sent'[k])
                            /\ \A n \in 1 .. Len(sent[k]) : sent'[k][n] = sent[k][n]
        <4>1. \A k \in Lane : Len(sent[k]) \in Nat
          BY <1>0 DEF HistoryOK
        <4>2. /\ Len(s) \in Nat /\ Len(sent[l]) <= Len(s) /\ sent'[l] = s
              /\ \A i \in 1 .. Len(sent[l]) : s[i] = sent[l][i]
              /\ \A k \in Lane : k # l => sent'[k] = sent[k]
          BY <1>1, <1>6, <1>7
        <4>3. QED
          BY <4>1, <4>2
      <3>2. QED
        BY <1>0, <1>4, <3>1, RecordsGrow
    <2>2. \A k \in Lane : \A b : MayBeOn(k, b) => MayBeOn(k, b)'
      BY <1>0, <1>4, <2>1, MayBeOnStays
    <2>3. /\ Wires(wire')
          /\ \A k \in Lane : \A b : Has(wire'[k], b) =>
               Has(wire[k], b) \/ (k = l /\ s # sent[l] /\ b = Write(Record(l, Len(s))'))
      BY DEF Moved
    <2>4. ASSUME NEW b, b = Write(Record(l, Len(s))'), s # sent[l] PROVE MayBeOn(l, b)'
      <3>1. Len(s) \in 1 .. Len(sent'[l])
        BY <1>1, <1>6, <1>7, <2>4
      <3>2. QED
        BY <2>4, <3>1 DEF MayBeOn
    <2>5. \A k \in Lane : \A b : Has(wire'[k], b) => Has(wire[k], b) \/ MayBeOn(k, b)'
      BY <2>3, <2>4
    <2>6. QED
      BY <1>0, <2>2, <2>3, <2>5, WiresStayGenuine
  <1>13. SessionTypeOK' /\ CountsOK'
    BY <1>2, <1>4, <1>9, TypesStay
  <1>14. QED
    BY <1>4, <1>9, <1>10, <1>11, <1>12, <1>13 DEF SessionInv

(* (What a step fixes is picked, so as not to change with it.)             *)
LEMMA MoveIsMade ==
  ASSUME SessionInv, NEW u \in User, SendMove(u)
  PROVE  \E l, s, v, p, t : Moved(u, l, s, v, p, t)
  <1>0. WrappersOK /\ HistoryOK /\ WiresGenuine /\ HostOK /\ \A c \in Caller : CallerOK(c)
    BY DEF SessionInv
  <1>1. PICK l : l = <<u, Partner(u)>>
    OBVIOUS
  <1>2. PICK m : /\ m \in GameMessage /\ m.type = "MOVE"
                 /\ SendSecure(u, sw[u], wire, l, m, "theirs")
    <2>1. PICK k \in Column :
            SendSecure(u, sw[u], wire, <<u, Partner(u)>>, [type |-> "MOVE", col |-> k], "theirs")
      BY DEF SendMove
    <2> DEFINE m == [type |-> "MOVE", col |-> k]
    <2>2. m \in GameMessage /\ m.type = "MOVE"
      BY DEF GameMessage
    <2>3. SendSecure(u, sw[u], wire, l, m, "theirs")
      BY <1>1, <2>1
    <2> HIDE DEF m
    <2>4. QED
      BY <2>2, <2>3
  <1>3. /\ pc[u] = "mine" /\ UNCHANGED <<tries, accepted, backlog, closed, lost, got>>
    BY DEF SendMove, socketVars
  <1>4. Authentic(u)
    BY <1>0, <1>3, Users DEF HostOK, CallerOK
  <1>5. PICK w : w = sw[u]
    OBVIOUS
  <1>6. PICK n : n = Len(sent[l])
    OBVIOUS
  <1>7. l \in Lane /\ l[1] = u /\ w.send_seq_num = n
    BY <1>1, <1>4, <1>5, <1>6, LanesOf
  <1>8. /\ w.peer_authenticated = TRUE /\ DOMAIN w = Fields0
    BY <1>0, <1>4, <1>5 DEF WrappersOK, Fields0, Authentic
  <1>9. sent[l] \in Seq(GameMessage) /\ DOMAIN sent = Lane /\ n \in Nat
    BY <1>0, <1>6, <1>7 DEF HistoryOK
  <1>10. PICK sm : sm = EncryptMsg(w, m)
    OBVIOUS
  <1>11. PICK ok \in SendOutcome(l) :
           /\ sw' = [sw EXCEPT ![u] = IF ok THEN SentOne(w) ELSE w]
           /\ wire' = Sends(wire, l, <<sm>>)
           /\ sent' = IF ok THEN [sent EXCEPT ![l] = Append(@, m)] ELSE sent
           /\ sealed' = sealed \cup {sm.tag}
           /\ Goto(u, IF ok THEN "theirs" ELSE "failed")
    BY <1>2, <1>5, <1>10 DEF SendSecure
  <1>12. PICK t : t = GcmTag(w, n, m)
    OBVIOUS
  <1>13. t[2] = w.send.key /\ t[3] = UpdateIV(n, w.send.iv)
    BY <1>12 DEF GcmTag
  <1>14. sm.tag = t
    <2>1. PICK ct : sm = [type |-> "SECURE_MESSAGE", ct |-> ct,
                          tag |-> GcmTag(w, w.send_seq_num, m)]
      BY <1>2, <1>8, <1>10, EncryptedForm
    <2>2. QED
      BY <1>7, <1>12, <2>1
  <1>15. Wires(wire)
    BY <1>0, GenuineWires
  <1>16. CASE ok
    <2>1. PICK s : s = Append(sent[l], m)
      OBVIOUS
    <2>2. PICK v : v = SentOne(w)
      OBVIOUS
    <2>3. /\ s \in Seq(GameMessage) /\ Len(s) = n + 1 /\ s[n + 1] = m
          /\ \A i \in 1 .. n : s[i] = sent[l][i]
      BY <1>2, <1>6, <1>9, <2>1, AppendOne
    <2>4. /\ Kept(w, v) /\ v.peer_authenticated = TRUE /\ v.recv_seq_num = w.recv_seq_num
          /\ v.send_seq_num = n + 1 /\ DOMAIN v = Fields0
      BY <1>7, <1>8, <2>2, SentOneWrapper
    <2>5. sw' = [sw EXCEPT ![u] = v] /\ Goto(u, "theirs") /\ sealed' \subseteq sealed \cup {t}
      BY <1>11, <1>14, <1>16, <2>2
    <2>6. /\ sent'[l] = s /\ (\A k \in Lane : k # l => sent'[k] = sent[k])
          /\ DOMAIN sent' = DOMAIN sent
      BY <1>7, <1>9, <1>11, <1>16, <2>1
    <2>7. Turn(u, v, "theirs")
      BY <1>3, <1>4, <1>5, <2>4, <2>5 DEF Turn
    <2>8. sw'[u] = v /\ sent'[l] = s
      BY <1>0, <1>7, <1>9, <2>5, <2>6, Rewrapped
    <2>9. Record(l, n + 1)' = sm
      <3>1. PICK x : x = Numbered(v, n)
        OBVIOUS
      <3>2. Record(l, n + 1)' = EncryptMsg(x, m)
        <4>1. PICK k : k = n + 1
          OBVIOUS
        <4>2. sent'[l][k] = m /\ sw'[l[1]] = v /\ k - 1 = n
          BY <1>7, <1>9, <2>3, <2>8, <4>1
        <4>3. Record(l, k)' = EncryptMsg(x, m)
          BY <3>1, <4>2 DEF Record
        <4>4. QED
          BY <4>1, <4>3
      <3>3. x.send = w.send /\ x.send_seq_num = n /\ x.peer_authenticated
        BY <2>4, <3>1, WrapperFields DEF Numbered, Kept, KeptFields
      <3>4. EncryptMsg(x, m) = EncryptMsg(w, m)
        BY <1>7, <1>8, <3>3, SameRecord
      <3>5. QED
        BY <1>10, <3>2, <3>4
    <2>10. /\ Wires(wire')
           /\ \A j \in Lane : \A b : Has(wire'[j], b) => Has(wire[j], b) \/ (j = l /\ b = Write(sm))
      BY <1>7, <1>11, <1>15, SendsWires
    <2>11. s # sent[l] /\ Len(s) = n + 1 /\ Len(s) = Len(sent[l]) + 1
      BY <1>6, <1>9, <2>3
    <2>12. Record(l, Len(s))' = sm
      BY <2>3, <2>9
    <2>13. \A j \in Lane : \A b : Has(wire'[j], b) =>
             Has(wire[j], b) \/ (j = l /\ s # sent[l] /\ b = Write(Record(l, Len(s))'))
      BY <2>10, <2>11, <2>12
    <2>14. Moved(u, l, s, v, "theirs", t)
      BY <1>1, <1>2, <1>3, <1>5, <1>6, <1>13, <2>3, <2>4, <2>5, <2>6, <2>7, <2>10, <2>11, <2>13
      DEF Moved
    <2>15. QED
      BY <2>14
  <1>17. CASE ~ok
    <2>1. sw' = [sw EXCEPT ![u] = w] /\ Goto(u, "failed") /\ sent' = sent
          /\ sealed' \subseteq sealed \cup {t}
      BY <1>11, <1>14, <1>17
    <2>2. Back(l) \in closed
      BY <1>11, <1>17 DEF SendOutcome
    <2>3. wire' = wire
      BY <1>11, <2>2 DEF Sends
    <2>4. Kept(sw[u], w)
      BY <1>5 DEF Kept
    <2>5. Turn(u, w, "failed")
      BY <1>3, <1>4, <1>5, <1>8, <2>1, <2>4 DEF Turn
    <2>6. PICK s : s = sent[l]
      OBVIOUS
    <2>7. /\ sent'[l] = s /\ (\A k \in Lane : k # l => sent'[k] = sent[k])
          /\ DOMAIN sent' = DOMAIN sent
      BY <2>1, <2>6
    <2>8. s \in Seq(GameMessage) /\ w.send_seq_num = Len(s) /\ Len(s) = n /\ s = sent[l]
      BY <1>6, <1>7, <1>9, <2>6
    <2>9. Moved(u, l, s, w, "failed", t)
      BY <1>1, <1>3, <1>5, <1>6, <1>13, <1>15, <2>1, <2>3, <2>5, <2>7, <2>8 DEF Moved
    <2>10. QED
      BY <2>9
  <1>18. QED
    BY <1>16, <1>17

-----------------------------------------------------------------------------
(* All steps.                                                              *)
StepTaken ==
  \/ StillStep
  \/ AcceptClient
  \/ \E m : HelloTaken(m)
  \/ ProofTaken
  \/ \E c \in Caller : \/ ConnectServer(c)
                       \/ \E m : HelloRefused(c, m) \/ HelloAccepted(c, m)
  \/ \E u \in User : (\E l : Receives(u, l, "mine")) \/ SendMove(u)

LEMMA StepCases == ASSUME SessionInv, SessionNext PROVE StepTaken
  <1>1. CASE HostStep
    <2>1. ASSUME BindPort PROVE StepTaken
      BY <2>1, BindPortStill DEF StepTaken
    <2>2. ASSUME AcceptClient PROVE StepTaken
      BY <2>2 DEF StepTaken
    <2>3. ASSUME HostHello PROVE StepTaken
      BY <2>3, HostHelloCases DEF StepTaken
    <2>4. ASSUME HostVerify PROVE StepTaken
      BY <2>4, HostVerifyCases DEF StepTaken
    <2>5. ASSUME HostStart PROVE StepTaken
      BY <2>5, HostStartCases, Users DEF StepTaken
    <2>6. ASSUME HostEof PROVE StepTaken
      BY <2>6, HostEofStill DEF StepTaken
    <2>7. QED
      BY <1>1, <2>1, <2>2, <2>3, <2>4, <2>5, <2>6 DEF HostStep
  <1>2. ASSUME NEW c \in Caller, CallerStep(c) PROVE StepTaken
    <2>1. ASSUME ConnectServer(c) PROVE StepTaken
      BY <2>1 DEF StepTaken
    <2>2. ASSUME RecvServerHello(c) PROVE StepTaken
      BY <2>2, RecvServerHelloCases DEF StepTaken
    <2>3. ASSUME CallerEof(c) PROVE StepTaken
      BY <2>3, CallerEofStill DEF StepTaken
    <2>4. QED
      BY <1>2, <2>1, <2>2, <2>3 DEF CallerStep
  <1>3. ASSUME NEW u \in User, SendMove(u) \/ PlayStep(u) \/ Leave(u) PROVE StepTaken
    <2>1. ASSUME SendMove(u) PROVE StepTaken
      BY <2>1 DEF StepTaken
    <2>2. ASSUME RecvMove(u) PROVE StepTaken
      BY <2>2, RecvMoveCases DEF StepTaken
    <2>3. ASSUME PlayEof(u) PROVE StepTaken
      BY <2>3, PlayEofStill DEF StepTaken
    <2>4. ASSUME Leave(u) PROVE StepTaken
      BY <2>4, LeaveStill DEF StepTaken
    <2>5. QED
      BY <1>3, <2>1, <2>2, <2>3, <2>4 DEF PlayStep
  <1>4. QED
    BY <1>1, <1>2, <1>3 DEF SessionNext

LEMMA NothingIsStill == ASSUME SessionInv, UNCHANGED sessionVars PROVE StillStep
  <1>1. WrappersOK /\ WiresGenuine /\ SessionTypeOK /\ CountsOK
    BY DEF SessionInv
  <1>2. /\ UNCHANGED <<pc, sw, tries, backlog, accepted, wire, closed, lost, sent, got, sealed>>
    BY DEF sessionVars, programVars, socketVars, netVars, history
  <1>3. CountsStep
    BY <1>1, <1>2 DEF CountsStep, SessionTypeOK, CountsOK
  <1>4. Wires(wire') /\ \A l \in Lane : \A b : Has(wire'[l], b) => Has(wire[l], b)
    BY <1>1, <1>2, GenuineWires
  <1>5. DOMAIN pc' = User /\ backlog' \in Seq(Caller)
    BY <1>1, <1>2 DEF WrappersOK
  <1>6. QED
    BY <1>2, <1>3, <1>4, <1>5 DEF StillStep

LEMMA InvStep == SessionInv /\ [SessionNext]_sessionVars => SessionInv'
  <1> SUFFICES ASSUME SessionInv, [SessionNext]_sessionVars PROVE SessionInv'
    OBVIOUS
  <1>1. ASSUME StillStep PROVE SessionInv'
    BY <1>1, StillKeeps
  <1>2. ASSUME AcceptClient PROVE SessionInv'
    BY <1>2, AcceptClientKeeps
  <1>3. ASSUME NEW m, HelloTaken(m) PROVE SessionInv'
    BY <1>3, HelloTakenKeeps
  <1>4. ASSUME ProofTaken PROVE SessionInv'
    BY <1>4, ProofTakenKeeps
  <1>5. ASSUME NEW c \in Caller, ConnectServer(c) PROVE SessionInv'
    BY <1>5, ConnectServerKeeps
  <1>6. ASSUME NEW c \in Caller, NEW m, HelloRefused(c, m) PROVE SessionInv'
    BY <1>6, HelloRefusedKeeps
  <1>7. ASSUME NEW c \in Caller, NEW m, HelloAccepted(c, m) PROVE SessionInv'
    BY <1>7, HelloAcceptedKeeps
  <1>8. ASSUME NEW u \in User, NEW l, Receives(u, l, "mine") PROVE SessionInv'
    BY <1>8, ReceivesKeeps
  <1>9. ASSUME NEW u \in User, SendMove(u) PROVE SessionInv'
    BY <1>9, MoveIsMade, MovedKeeps
  <1>10. CASE UNCHANGED sessionVars
    BY <1>1, <1>10, NothingIsStill
  <1>11. CASE SessionNext
    <2>1. StepTaken
      BY <1>11, StepCases
    <2>2. QED
      BY <1>1, <1>2, <1>3, <1>4, <1>5, <1>6, <1>7, <1>8, <1>9, <2>1 DEF StepTaken
  <1>12. QED
    BY <1>10, <1>11

LEMMA InitInv == SessionInit => SessionInv
  <1> SUFFICES ASSUME SessionInit PROVE SessionInv
    OBVIOUS
  <1>1. /\ store \in Stores
        /\ pc = [u \in User |-> IF u = Host THEN "bind" ELSE "connect"]
        /\ sw = [u \in User |-> Wrapper(Certificate(u))]
        /\ listening = FALSE /\ backlog = <<>> /\ accepted = NULL
        /\ tries = [c \in Caller |-> 0]
        /\ wire = [l \in Lane |-> <<>>] /\ closed = {} /\ lost = {}
        /\ sent = [l \in Lane |-> <<>>] /\ got = [l \in Lane |-> <<>>]
        /\ sealed = {}
    BY DEF SessionInit
  <1>2. ASSUME NEW u \in User
        PROVE  /\ DOMAIN sw[u] = Fields0 /\ sw[u].my_cert = Certificate(u)
               /\ sw[u].peer_authenticated = FALSE /\ sw[u].cl_nonce = 0 /\ sw[u].sv_nonce = 0
               /\ sw[u].send_seq_num = 0 /\ sw[u].recv_seq_num = 0
    BY <1>1, WrapperFields DEF Wrapper
  <1>3. pc[Host] = "bind" /\ \A c \in Caller : pc[c] = "connect"
    BY <1>1, Users
  <1>4. \A l \in Lane : wire[l] = <<>> /\ sent[l] = <<>> /\ got[l] = <<>>
    BY <1>1
  <1>5. Len(<<>>) = 0 /\ <<>> \in Seq(GameMessage) /\ <<>> \in Seq(Caller)
    BY EmptySeq
  <1>6. \A u \in User : ~Authentic(u)
    BY <1>2 DEF Authentic
  <1>7. ~Answered /\ \A c \in Caller : ~Called(c)
    BY <1>2, Users DEF Answered, Called
  <1>8. WrappersOK
    BY <1>1, <1>2, <1>5 DEF WrappersOK, Fields0
  <1>9. HostOK
    BY <1>1, <1>3, <1>6, <1>7, Users DEF HostOK
  <1>10. ASSUME NEW c \in Caller PROVE CallerOK(c)
    BY <1>3, <1>6, <1>7, Users DEF CallerOK
  <1>11. NumbersOK
    BY <1>1, <1>2, <1>4, <1>5, Users, Lanes DEF NumbersOK
  <1>12. HistoryOK
    BY <1>1, <1>3, <1>4, <1>5 DEF HistoryOK
  <1>13. WiresGenuine
    <2>1. \A l \in Lane : SomeSeq(wire[l]) /\ \A i \in 1 .. Len(wire[l]) : MayBeOn(l, wire[l][i])
      BY <1>4, <1>5, EmptyWire
    <2>2. QED
      BY <1>1, <2>1 DEF WiresGenuine
  <1>14. SealedOK
    BY <1>1 DEF SealedOK, FreshIVs
  <1>15. SessionTypeOK
    <2>1. \A c \in Caller : tries[c] = 0 /\ 0 < MaxTries /\ 0 \in 0 .. MaxTries
      BY <1>1, SessionAssumption
    <2>2. \A l \in Lane : \A i \in DOMAIN got[l] : IsMessage(got[l][i])
      BY <1>4, <1>5, GameMessages
    <2>3. QED
      BY <1>1, <1>3, <2>1, <2>2 DEF SessionTypeOK
  <1>16. CountsOK
    BY <1>1 DEF CountsOK
  <1>17. QED
    BY <1>8, <1>9, <1>10, <1>11, <1>12, <1>13, <1>14, <1>15, <1>16 DEF SessionInv

(* SessionInv holds in every state of every behaviour.                     *)
THEOREM SessionInvariant == SessionSpec => []SessionInv
  <1>1. QED
    BY InitInv, InvStep, PTL DEF SessionSpec

(* Types: where the programs can be, how often they have tried, what they  *)
(* have received (SessionTypeOK), in every state.                          *)
THEOREM SessionTypeCorrect == SessionSpec => []SessionTypeOK
  <1>1. SessionInv => SessionTypeOK
    BY DEF SessionInv
  <1>2. QED
    BY <1>1, SessionInvariant, PTL

-----------------------------------------------------------------------------
(* Who has signed the same has the same names, nonces and keys.            *)
LEMMA SameSigned ==
  ASSUME SessionInv, NEW c \in Caller, Authentic(c)
  PROVE  accepted = c /\ SameSession(sw[Host], sw[c])
  <1>0. WrappersOK /\ HostOK /\ CallerOK(c)
    BY DEF SessionInv
  <1> DEFINE w == sw[c]
             h == sw[Host]
  <1>1. /\ accepted = c /\ Answered /\ MsgToSign(h, "server") = MsgToSign(w, "client")
        /\ Keyed(w, "client") /\ w.other_cert = Certificate(Host)
    BY <1>0 DEF CallerOK
  <1>2. h.other_cert = Certificate(Guest) /\ Keyed(h, "server")
    BY <1>0, <1>1 DEF HostOK
  <1>3. /\ w.my_cert = Certificate(c) /\ h.my_cert = Certificate(Host)
        /\ DOMAIN w = Fields0 /\ DOMAIN h = Fields0
    BY <1>0, Users DEF WrappersOK, Fields0
  <1> HIDE DEF w, h
  <1>4. /\ MyId(w) = c /\ OtherId(w) = Host /\ MyId(h) = Host /\ OtherId(h) = Guest
    BY <1>1, <1>2, <1>3 DEF MyId, OtherId, UsernameFromCert, Certificate
  <1>5. /\ MsgToSign(h, "server")[1] = Cut(Guest) \o Cut(Host)
        /\ MsgToSign(w, "client")[1] = Cut(c) \o Cut(Host)
    BY <1>4 DEF MsgToSign
  <1>6. c = Guest
    BY <1>1, <1>5, Users, SignedAssumption
  <1>7. /\ h.cl_nonce = w.cl_nonce /\ h.sv_nonce = w.sv_nonce
        /\ h.other_eph_key = Public(w.my_eph_key) /\ Public(h.my_eph_key) = w.other_eph_key
    BY <1>1 DEF MsgToSign
  <1>8. Dhke(h.my_eph_key, h.other_eph_key) = Dhke(w.my_eph_key, w.other_eph_key)
    BY <1>7 DEF Dhke
  <1>9. \A who : DerivedKeys(h, who) = DerivedKeys(w, who)
    BY <1>7, <1>8 DEF DerivedKeys
  <1>10. /\ h.send = DerivedKeys(h, "server") /\ h.recv = DerivedKeys(h, "client")
         /\ w.send = DerivedKeys(w, "client") /\ w.recv = DerivedKeys(w, "server")
    BY <1>1, <1>2, <1>3, KeysGenerated DEF OtherRole
  <1>11. h.send.key # h.recv.key
    BY <1>10 DEF DerivedKeys, Hkdf
  <1>12. QED
    BY <1>1, <1>4, <1>6, <1>7, <1>9, <1>10, <1>11 DEF SameSession, w, h

(* Agreement: whoever takes the peer for authenticated is connected to the *)
(* user whose certificate it was given, and the two ends have the same     *)
(* nonces and keys (handleClientVerify, handleServerHello, generateKeys).  *)
THEOREM EndsAgree == SessionSpec => []Agreement
  <1>1. SessionInv => Agreement
    <2> SUFFICES ASSUME SessionInv PROVE Agreement
      OBVIOUS
    <2>1. \A c \in Caller : sw[c].peer_authenticated =>
            accepted = c /\ SameSession(sw[Host], sw[c])
      BY SameSigned DEF Authentic
    <2>2. sw[Host].peer_authenticated => accepted # NULL /\ sw[accepted].peer_authenticated
      BY DEF SessionInv, HostOK, Authentic
    <2>3. QED
      BY <2>1, <2>2 DEF Agreement
  <1>2. QED
    BY <1>1, SessionInvariant, PTL

(* FreshIVs: no key and initialization vector serve for two different      *)
(* messages, however long the game and whatever sends fail (updateIV,      *)
(* sendMsg).                                                               *)
THEOREM IVsAreFresh == SessionSpec => []FreshIVs
  <1>1. SessionInv => FreshIVs
    BY DEF SessionInv, SealedOK
  <1>2. QED
    BY <1>1, SessionInvariant, PTL

-----------------------------------------------------------------------------
(* The encrypted messages as a Channel.                                    *)
Gone == lost \cup {l \in Lane : pc[l[2]] \in Stopped}

LEMMA OnlyCut ==
  ASSUME UNCHANGED <<sent, got>>, lost \subseteq lost', lost' \subseteq Lane,
         \A u \in User : pc[u] \in Stopped => pc'[u] \in Stopped
  PROVE  CH!Next
  <1>1. Gone \subseteq Gone' /\ Gone' \subseteq Lane
    BY Lanes DEF Gone
  <1>2. PICK ls : ls = Gone'
    OBVIOUS
  <1>3. CH!Cut(ls)
    BY <1>1, <1>2 DEF CH!Cut, Gone
  <1>4. QED
    BY <1>1, <1>2, <1>3 DEF CH!Next

LEMMA PassedBy ==
  ASSUME WrappersOK, CountsOK, NEW u \in User, pc[u] \notin Stopped, NEW p, Goto(u, p),
         UNCHANGED <<lost, sent, got>>
  PROVE  CH!Next
  <1>1. \A x \in User : x # u => pc'[x] = pc[x]
    BY GoneTo
  <1>2. QED
    BY <1>1, OnlyCut DEF CountsOK

LEMMA GoneSame ==
  ASSUME WrappersOK, NEW u \in User, pc[u] \notin Stopped, NEW p, p \notin Stopped, Goto(u, p),
         lost' = lost
  PROVE  Gone' = Gone
  <1>1. pc'[u] = p /\ \A x \in User : x # u => pc'[x] = pc[x]
    BY GoneTo
  <1>2. \A l \in Lane : pc'[l[2]] \in Stopped <=> pc[l[2]] \in Stopped
    BY <1>1, Lanes
  <1>3. QED
    BY <1>2 DEF Gone

LEMMA SecurelySent ==
  ASSUME WrappersOK, CountsOK, NEW u \in User, pc[u] \notin Stopped,
         NEW v, NEW w, NEW l \in Lane, NEW m \in GameMessage,
         SendSecure(u, v, w, l, m, "theirs"), UNCHANGED <<lost, got>>
  PROVE  CH!Next
  <1>1. PICK ok \in SendOutcome(l) :
          /\ sent' = IF ok THEN [sent EXCEPT ![l] = Append(@, m)] ELSE sent
          /\ Goto(u, IF ok THEN "theirs" ELSE "failed")
    BY DEF SendSecure
  <1>2. CASE ok
    <2>1. "theirs" \notin Stopped /\ Goto(u, "theirs") /\ sent' = [sent EXCEPT ![l] = Append(@, m)]
      BY <1>1, <1>2 DEF Stopped
    <2>2. Gone' = Gone
      BY <2>1, GoneSame
    <2>3. CH!Send(l, m)
      BY <2>1, <2>2 DEF CH!Send, Gone
    <2>4. QED
      BY <2>3 DEF CH!Next, GameMessage
  <1>3. CASE ~ok
    BY <1>1, <1>3, PassedBy
  <1>4. QED
    BY <1>2, <1>3

LEMMA ChannelStep == ASSUME SessionInv, SessionNext PROVE CH!Next
  <1>0. WrappersOK /\ CountsOK /\ HostOK /\ \A d \in Caller : CallerOK(d)
    BY DEF SessionInv
  <1>1. StepTaken
    BY StepCases
  <1>2. ASSUME StillStep PROVE CH!Next
    BY <1>2, OnlyCut DEF StillStep, CountsStep
  <1>3. ASSUME AcceptClient PROVE CH!Next
    <2>1. PICK p : Goto(Host, p)
      BY <1>3 DEF AcceptClient
    <2>2. pc[Host] \notin Stopped /\ UNCHANGED <<lost, sent, got>>
      BY <1>3 DEF AcceptClient, history, Stopped
    <2>3. QED
      BY <1>0, <2>1, <2>2, Users, PassedBy
  <1>4. ASSUME NEW m, HelloTaken(m) PROVE CH!Next
    <2>1. PICK p : Goto(Host, p)
      BY <1>4 DEF HelloTaken
    <2>2. pc[Host] \notin Stopped /\ UNCHANGED <<lost, sent, got>>
      BY <1>4 DEF HelloTaken, Stopped
    <2>3. QED
      BY <1>0, <2>1, <2>2, Users, PassedBy
  <1>5. ASSUME ProofTaken PROVE CH!Next
    <2>1. Goto(Host, "start") /\ pc[Host] \notin Stopped /\ UNCHANGED <<lost, sent, got>>
      BY <1>5 DEF ProofTaken, Stopped
    <2>2. QED
      BY <1>0, <2>1, Users, PassedBy
  <1>6. ASSUME NEW c \in Caller, ConnectServer(c) PROVE CH!Next
    <2>1. PICK p : Goto(c, p)
      BY <1>6 DEF ConnectServer
    <2>2. pc[c] \notin Stopped /\ UNCHANGED <<lost, sent, got>>
      BY <1>6 DEF ConnectServer, history, Stopped
    <2>3. QED
      BY <1>0, <2>1, <2>2, Users, PassedBy
  <1>7. ASSUME NEW c \in Caller, NEW m, HelloRefused(c, m) PROVE CH!Next
    <2>1. Goto(c, "failed") /\ pc[c] \notin Stopped /\ UNCHANGED <<lost, sent, got>>
      BY <1>7 DEF HelloRefused, Stopped
    <2>2. QED
      BY <1>0, <2>1, Users, PassedBy
  <1>8. ASSUME NEW c \in Caller, NEW m, HelloAccepted(c, m) PROVE CH!Next
    <2>1. pc[c] \notin Stopped /\ UNCHANGED <<lost, got>> /\ c \in User /\ <<c, Host>> \in Lane
      BY <1>8, Users, Lanes DEF HelloAccepted, Stopped
    <2>2. Opening \in GameMessage
      BY DEF GameMessage, Opening
    <2>3. \/ \E v, w : SendSecure(c, v, w, <<c, Host>>, Opening, "theirs")
          \/ Goto(c, "failed") /\ sent' = sent
      BY <1>8 DEF HelloAccepted
    <2>4. QED
      BY <1>0, <2>1, <2>2, <2>3, SecurelySent, PassedBy
  <1>9. ASSUME NEW u \in User, NEW l, Receives(u, l, "mine") PROVE CH!Next
    <2>1. /\ Authentic(u) /\ pc[u] \notin Stopped /\ Goto(u, "mine") /\ lost' = lost
          /\ sent' = sent /\ l = <<Partner(u), u>> /\ Len(got[l]) < Len(sent[l])
          /\ got' = [got EXCEPT ![l] = Append(@, sent[l][Len(got[l]) + 1])]
      BY <1>9 DEF Receives, Turn, Stopped
    <2>2. l \in Lane
      BY <2>1, LanesOf
    <2>3. Gone' = Gone
      <3>1. "mine" \notin Stopped
        BY DEF Stopped
      <3>2. QED
        BY <1>0, <2>1, <3>1, GoneSame
    <2>4. CH!Deliver(l)
      BY <2>1, <2>3 DEF CH!Deliver, Gone
    <2>5. QED
      BY <2>2, <2>4 DEF CH!Next
  <1>10. ASSUME NEW u \in User, SendMove(u) PROVE CH!Next
    <2>1. PICK k \in Column :
            SendSecure(u, sw[u], wire, <<u, Partner(u)>>, [type |-> "MOVE", col |-> k], "theirs")
      BY <1>10 DEF SendMove
    <2>2. pc[u] = "mine" /\ pc[u] \notin Stopped /\ UNCHANGED <<lost, got>>
      BY <1>10 DEF SendMove, Stopped
    <2>3. Authentic(u)
      BY <1>0, <2>2, Users DEF HostOK, CallerOK
    <2>4. PICK l : l = <<u, Partner(u)>>
      OBVIOUS
    <2>5. l \in Lane
      BY <2>3, <2>4, LanesOf
    <2>6. PICK m : m = [type |-> "MOVE", col |-> k]
      OBVIOUS
    <2>7. m \in GameMessage
      BY <2>6 DEF GameMessage
    <2>8. SendSecure(u, sw[u], wire, l, m, "theirs")
      BY <2>1, <2>4, <2>6
    <2>9. QED
      BY <1>0, <2>2, <2>5, <2>7, <2>8, SecurelySent
  <1>11. QED
    BY <1>1, <1>2, <1>3, <1>4, <1>5, <1>6, <1>7, <1>8, <1>9, <1>10 DEF StepTaken

(* What a user's program receives encrypted is what the peer's sent, once  *)
(* each and in that order: every step of a session is one of the Channel   *)
(* CH or leaves it as it is (sendMsg, handleMsg).  The fairness of         *)
(* RecordsInOrder, that all of it arrives, is not part of this.            *)
THEOREM RecordsImplementChannel == SessionSpec => CH!Spec
  <1>1. SessionInit => CH!Init
    <2> SUFFICES ASSUME SessionInit PROVE CH!Init
      OBVIOUS
    <2>1. /\ sent = [l \in Lane |-> <<>>] /\ got = [l \in Lane |-> <<>>] /\ lost = {}
          /\ pc = [u \in User |-> IF u = Host THEN "bind" ELSE "connect"]
      BY DEF SessionInit
    <2>2. \A l \in Lane : pc[l[2]] \notin Stopped
      BY <2>1, Lanes DEF Stopped
    <2>3. QED
      BY <2>1, <2>2 DEF CH!Init
  <1>2. SessionInv /\ [SessionNext]_sessionVars => [CH!Next]_CH!channelVars
    <2>1. CASE SessionNext
      BY <2>1, ChannelStep
    <2>2. CASE UNCHANGED sessionVars
      BY <2>2 DEF sessionVars, programVars, netVars, history, CH!channelVars
    <2>3. QED
      BY <2>1, <2>2
  <1>3. QED
    BY <1>1, <1>2, SessionInvariant, PTL DEF SessionSpec, CH!Spec
=============================================================================
