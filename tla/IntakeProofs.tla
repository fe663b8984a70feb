----------------------------- MODULE IntakeProofs -----------------------------
(***************************************************************************)
(* The receiver of a stream of bytes gets the messages that were sent: for *)
(* any number of connections, any messages and sizes, and wherever the     *)
(* stream is cut into pieces.                                              *)
(***************************************************************************)
EXTENDS Intake, MessagesProofs

(* Bytes one behind the other, in whatever order they are put together.    *)
Regroup(a, b, c) == (a \o b) \o c = a \o (b \o c)

LEMMA ConcatAssoc ==
  ASSUME NEW a, NEW b, NEW c, IsSeq(a), IsSeq(b), IsSeq(c)
  PROVE  Regroup(a, b, c)
  <1> DEFINE x == (a \o b) \o c
             y == a \o (b \o c)
  <1>0. Len(a) \in Nat /\ Len(b) \in Nat /\ Len(c) \in Nat
    BY DEF IsSeq
  <1>1. /\ IsSeq(a \o b) /\ Len(a \o b) = Len(a) + Len(b)
        /\ \A i \in 1 .. Len(a) + Len(b) :
              (a \o b)[i] = IF i <= Len(a) THEN a[i] ELSE b[i - Len(a)]
    BY Concat
  <1>2. /\ IsSeq(b \o c) /\ Len(b \o c) = Len(b) + Len(c)
        /\ \A i \in 1 .. Len(b) + Len(c) :
              (b \o c)[i] = IF i <= Len(b) THEN b[i] ELSE c[i - Len(b)]
    BY Concat
  <1>3. /\ IsSeq(x) /\ Len(x) = Len(a \o b) + Len(c)
        /\ \A i \in 1 .. Len(a \o b) + Len(c) :
              x[i] = IF i <= Len(a \o b) THEN (a \o b)[i] ELSE c[i - Len(a \o b)]
    BY <1>1, Concat
  <1>4. /\ IsSeq(y) /\ Len(y) = Len(a) + Len(b \o c)
        /\ \A i \in 1 .. Len(a) + Len(b \o c) :
              y[i] = IF i <= Len(a) THEN a[i] ELSE (b \o c)[i - Len(a)]
    BY <1>2, Concat
  <1> HIDE DEF x, y
  <1>5. Len(x) = Len(a) + Len(b) + Len(c) /\ Len(y) = Len(x)
    BY <1>0, <1>1, <1>2, <1>3, <1>4
  <1>6. ASSUME NEW i \in 1 .. Len(x) PROVE x[i] = y[i]
    <2> USE <1>0, <1>5
    <2>1. CASE i <= Len(a)
      <3>1. x[i] = (a \o b)[i] /\ (a \o b)[i] = a[i]
        BY <1>1, <1>3, <2>1
      <3>2. y[i] = a[i]
        BY <1>2, <1>4, <2>1
      <3>3. QED
        BY <3>1, <3>2
    <2>2. CASE i > Len(a) /\ i <= Len(a) + Len(b)
      <3>1. x[i] = (a \o b)[i] /\ (a \o b)[i] = b[i - Len(a)]
        BY <1>1, <1>3, <2>2
      <3>2. y[i] = (b \o c)[i - Len(a)]
        BY <1>2, <1>4, <2>2
      <3>3. (b \o c)[i - Len(a)] = b[i - Len(a)]
        BY <1>2, <2>2
      <3>4. QED
        BY <3>1, <3>2, <3>3
    <2>3. CASE i > Len(a) + Len(b)
      <3>1. x[i] = c[i - (Len(a) + Len(b))]
        BY <1>1, <1>3, <2>3
      <3>2. y[i] = (b \o c)[i - Len(a)]
        BY <1>2, <1>4, <2>3
      <3>3. (b \o c)[i - Len(a)] = c[(i - Len(a)) - Len(b)]
        BY <1>2, <2>3
      <3>4. (i - Len(a)) - Len(b) = i - (Len(a) + Len(b))
        BY DEF x
      <3>5. QED
        BY <3>1, <3>2, <3>3, <3>4
    <2>4. QED
      BY <2>1, <2>2, <2>3
  <1>7. x = y
    BY <1>3, <1>4, <1>5, <1>6, SameSeq
  <1>8. QED
    BY <1>7 DEF x, y, Regroup

LEMMA ConcatEmpty ==
  ASSUME NEW a, IsSeq(a) PROVE a \o <<>> = a /\ <<>> \o a = a
  <1> DEFINE e == <<>>
             x == a \o e
             y == e \o a
  <1>0. IsSeq(e) /\ Len(e) = 0 /\ Len(a) \in Nat
    BY EmptyIsSeq DEF IsSeq
  <1> HIDE DEF e
  <1>1. /\ IsSeq(x) /\ Len(x) = Len(a) + Len(e)
        /\ \A i \in 1 .. Len(a) + Len(e) : x[i] = IF i <= Len(a) THEN a[i] ELSE e[i - Len(a)]
    BY <1>0, Concat
  <1>2. /\ IsSeq(y) /\ Len(y) = Len(e) + Len(a)
        /\ \A i \in 1 .. Len(e) + Len(a) : y[i] = IF i <= Len(e) THEN e[i] ELSE a[i - Len(e)]
    BY <1>0, Concat
  <1> HIDE DEF x, y
  <1>3. Len(x) = Len(a) /\ \A i \in 1 .. Len(x) : x[i] = a[i]
    BY <1>0, <1>1
  <1>4. Len(y) = Len(a) /\ \A i \in 1 .. Len(y) : y[i] = a[i]
    BY <1>0, <1>2
  <1>5. x = a /\ y = a
    BY <1>1, <1>2, <1>3, <1>4, SameSeq
  <1>6. QED
    BY <1>5 DEF x, y, e

(* Two ways of writing the same bytes agree piece by piece.                *)
SameBytes(a, b, c, d) ==
  /\ IsSeq(a) /\ IsSeq(b) /\ IsSeq(c) /\ IsSeq(d)
  /\ a \o b = c \o d /\ Len(a) = Len(c)

LEMMA SamePieces ==
  ASSUME NEW a, NEW b, NEW c, NEW d, SameBytes(a, b, c, d)
  PROVE  a = c /\ b = d
  <1> USE DEF SameBytes
  <1> DEFINE x == a \o b
             y == c \o d
  <1>0. Len(a) \in Nat /\ Len(b) \in Nat /\ Len(c) \in Nat /\ Len(d) \in Nat
    BY DEF IsSeq
  <1>1. /\ Len(x) = Len(a) + Len(b)
        /\ \A i \in 1 .. Len(a) + Len(b) : x[i] = IF i <= Len(a) THEN a[i] ELSE b[i - Len(a)]
    BY Concat
  <1>2. /\ Len(y) = Len(c) + Len(d)
        /\ \A i \in 1 .. Len(c) + Len(d) : y[i] = IF i <= Len(c) THEN c[i] ELSE d[i - Len(c)]
    BY Concat
  <1>3. x = y /\ Len(a) = Len(c)
    OBVIOUS
  <1> HIDE DEF x, y
  <1>4. Len(b) = Len(d)
    BY <1>0, <1>1, <1>2, <1>3
  <1>5. \A i \in 1 .. Len(a) : a[i] = c[i]
    BY <1>0, <1>1, <1>2, <1>3
  <1>6. ASSUME NEW i \in 1 .. Len(b) PROVE b[i] = d[i]
    <2>1. /\ Len(a) + i \in 1 .. Len(a) + Len(b) /\ ~(Len(a) + i <= Len(a))
          /\ (Len(a) + i) - Len(a) = i
      BY <1>0
    <2>2. x[Len(a) + i] = b[(Len(a) + i) - Len(a)]
      BY <1>1, <2>1
    <2>3. y[Len(a) + i] = d[(Len(a) + i) - Len(a)]
      BY <1>2, <1>3, <1>4, <2>1
    <2>4. QED
      BY <1>3, <2>1, <2>2, <2>3
  <1>7. QED
    BY <1>3, <1>4, <1>5, <1>6, SameSeq

(* A stream is what has been taken from it and what is left.               *)
LEMMA Split ==
  ASSUME NEW w, IsSeq(w), NEW n \in 0 .. Len(w)
  PROVE  /\ IsSeq(SubSeq(w, 1, n)) /\ Len(SubSeq(w, 1, n)) = n
         /\ IsSeq(SubSeq(w, n + 1, Len(w)))
         /\ SubSeq(w, 1, n) \o SubSeq(w, n + 1, Len(w)) = w
  <1> DEFINE S == {w[i] : i \in 1 .. Len(w)}
             a == SubSeq(w, 1, n)
             b == SubSeq(w, n + 1, Len(w))
  <1>0. w \in Seq(S) /\ Len(w) \in Nat
    BY DEF IsSeq
  <1> HIDE DEF S
  <1>1. /\ a \in Seq(S) /\ Len(a) = n
        /\ \A i \in 1 .. n : a[i] = w[i]
    BY <1>0, SubSeqProperties
  <1>2. /\ b \in Seq(S) /\ Len(b) = Len(w) - n
        /\ \A i \in 1 .. Len(w) - n : b[i] = w[n + i]
    BY <1>0, SubSeqProperties
  <1>3. IsSeq(a) /\ IsSeq(b)
    BY <1>1, <1>2, SeqIsSeq
  <1> HIDE DEF a, b
  <1> DEFINE x == a \o b
  <1>4. /\ IsSeq(x) /\ Len(x) = Len(a) + Len(b)
        /\ \A i \in 1 .. Len(a) + Len(b) : x[i] = IF i <= Len(a) THEN a[i] ELSE b[i - Len(a)]
    BY <1>3, Concat
  <1> HIDE DEF x
  <1>5. Len(x) = Len(w)
    BY <1>0, <1>1, <1>2, <1>4
  <1>6. ASSUME NEW i \in 1 .. Len(x) PROVE x[i] = w[i]
    <2>1. CASE i <= n
      BY <1>0, <1>1, <1>2, <1>4, <1>5, <2>1
    <2>2. CASE i > n
      <3>1. x[i] = b[i - n] /\ i - n \in 1 .. Len(w) - n /\ n + (i - n) = i
        BY <1>0, <1>1, <1>2, <1>4, <1>5, <2>2
      <3>2. QED
        BY <1>2, <3>1
    <2>3. QED
      BY <1>0, <1>5, <2>1, <2>2
  <1>7. x = w
    BY <1>4, <1>5, <1>6, SameSeq
  <1>8. QED
    BY <1>1, <1>3, <1>7 DEF a, b, x

-----------------------------------------------------------------------------
(* A packet, and the bytes that begin with one.                            *)
LEMMA PacketIs ==
  ASSUME NEW o, IsSeq(Write(o)), NEW P, P = Packet(o)
  PROVE  /\ IsSeq(P) /\ Len(P) = Len(Write(o)) + LenSize
         /\ MsgLen(P) = Len(P) /\ Payload(P) = Write(o)
         /\ \A y : IsSeq(y) => MsgLen(P \o y) = Len(P)
  <1> DEFINE b == Write(o)
             v == Len(b) + LenSize
             L == WriteInt("len", v)
  <1>0. /\ "len" \in DOMAIN Width /\ Width["len"] = 2 /\ LenSize = 2 /\ LenSize \in Nat
        /\ IsSeq(b) /\ Len(b) \in Nat
    BY WidthsPositive DEF LenSize, IsSeq
  <1>1. IsSeq(L) /\ Len(L) = LenSize
    BY <1>0, FieldReadBack
  <1>2. P = L \o b
    BY DEF Packet
  <1>3. /\ Get("len", L, 1) = v /\ Fits("len", L, 1)
        /\ Get("len", L \o b, 1) = v
    BY <1>0, FieldWhole, FieldFirst
  <1> HIDE DEF b, L
  <1>4. IsSeq(P) /\ Len(P) = Len(L) + Len(b)
    BY <1>0, <1>1, <1>2, Concat
  <1>5. MsgLen(P) = v /\ Fits("len", P, 1)
    <2>1. Fits("len", L \o b, 1)
      BY <1>0, <1>1, <1>3, FieldEarlier
    <2>2. QED
      BY <1>2, <1>3, <2>1 DEF MsgLen
  <1>6. Len(P) = v
    BY <1>0, <1>1, <1>4
  <1>7. ASSUME NEW y, IsSeq(y) PROVE MsgLen(P \o y) = v
    <2>1. Get("len", P \o y, 1) = Get("len", P, 1)
      BY <1>0, <1>4, <1>5, <1>7, FieldEarlier
    <2>2. QED
      BY <1>5, <2>1 DEF MsgLen
  <1>8. Payload(P) = b
    <2> DEFINE i == Len(L) + 1
    <2>1. i = Len(L) + 1
      OBVIOUS
    <2> HIDE DEF i
    <2>2. Lies(b, P, i)
      BY <1>0, <1>1, <1>2, <2>1, Appended
    <2>3. MsgLen(P) - LenSize = Len(b) /\ LenSize + 1 = i
      BY <1>0, <1>1, <1>5, <2>1
    <2>4. QED
      BY <2>2, <2>3 DEF Payload, Lies
  <1>9. QED
    BY <1>0, <1>4, <1>5, <1>6, <1>7, <1>8 DEF b

(* The two bytes of the length decide.                                     *)
LEMMA MsgLenLeft ==
  ASSUME NEW b, NEW y, IsSeq(b), IsSeq(y), Len(b) >= LenSize
  PROVE  MsgLen(b \o y) = MsgLen(b)
  <1>1. "len" \in DOMAIN Width /\ Width["len"] = 2 /\ LenSize = 2 /\ Len(b) \in Nat
    BY WidthsPositive DEF LenSize, IsSeq
  <1>2. Fits("len", b, 1)
    BY <1>1 DEF Fits
  <1>3. QED
    BY <1>1, <1>2, FieldEarlier DEF MsgLen

-----------------------------------------------------------------------------
(* What a sender may have to send on a lane, and what of it is seen.       *)
Raw(l) == UNION {Range(s[l]) : s \in Scripts}

LEMMA SendableComesOut ==
  ASSUME NEW l \in Lane, NEW m \in Raw(l)
  PROVE  /\ IsSeq(Write(Outer(m))) /\ IsMessage(Seen(m))
         /\ Inner(ReadMessage(Write(Outer(m)))) # NULL
         /\ Seen(Inner(ReadMessage(Write(Outer(m))))) = Seen(m)
  <1>1. Sendable(m) /\ NULL # Outer(m) /\ Garbage \notin MessageType
    BY IntakeAssumption DEF Raw
  <1>2. ReadMessage(Write(m)) = AsRead(m) /\ IsSeq(Write(m)) /\ Seen(AsRead(m)) = Seen(m)
    BY <1>1, AllReadBack, SeenAsRead
  <1>3. NULL # AsRead(m) /\ m.type # "SECURE_MESSAGE" /\ IsMessage(Seen(m)) /\ IsMessage(m)
    BY <1>1 DEF Sendable
  <1>4. IsSeq(Write(Outer(m))) /\ Inner(ReadMessage(Write(Outer(m)))) = AsRead(m)
    <2>1. CASE m.type \in InClear
      <3>1. Outer(m) = m
        BY <2>1 DEF Outer
      <3>2. AsRead(m).type = m.type
        BY <1>3 DEF AsRead, IsMessage
      <3>3. Inner(AsRead(m)) = AsRead(m)
        BY <1>3, <3>2 DEF Inner
      <3>4. QED
        BY <1>2, <3>1, <3>3
    <2>2. CASE m.type \notin InClear
      <3> DEFINE o == [type |-> "SECURE_MESSAGE", ct |-> Write(m), tag |-> "tag"]
      <3>1. Outer(m) = o
        BY <2>2 DEF Outer
      <3>2. "SECURE_MESSAGE" # Garbage
        BY <1>1 DEF MessageType, ChannelFields
      <3>3. ReadMessage(Write(o)) = o /\ IsSeq(Write(o))
        BY <1>2, <3>2, SecureReadBack
      <3>4. o # NULL /\ o.type = "SECURE_MESSAGE" /\ o.ct = Write(m)
        BY <1>1, <3>1
      <3> HIDE DEF o
      <3>5. Inner(o) = ReadMessage(Write(m))
        BY <3>4 DEF Inner
      <3>6. QED
        BY <1>2, <3>1, <3>3, <3>5
    <2>3. QED
      BY <2>1, <2>2
  <1>5. QED
    BY <1>2, <1>3, <1>4

(* st[k] is what the sender of the messages s puts on the wire from the    *)
(* k-th on, when they are q.                                               *)
Sends(l, s, q, st) ==
  /\ st[Len(s) + 1] = <<>>
  /\ \A k \in 1 .. Len(s) :
       /\ q[k] \in Raw(l) /\ CanWrite(Outer(q[k])) /\ s[k] = Seen(q[k])
       /\ st[k] = Packet(Outer(q[k])) \o st[k + 1]
  /\ \A k \in 1 .. Len(s) + 1 : IsSeq(st[k])

(* The bytes x bring the messages of s after the first g; all of them,     *)
(* unless the rest of the stream is lost.                                  *)
Brings(l, s, g, x, whole) ==
  \E q, st, rest : /\ Sends(l, s, q, st)
                   /\ IsSeq(rest) /\ x \o rest = st[g + 1]
                   /\ whole => rest = <<>>

LEMMA NothingBrought ==
  ASSUME NEW l, NEW e, e = <<>>, NEW whole PROVE Brings(l, e, 0, e, whole)
  <1> DEFINE st == [k \in 1 .. 1 |-> e]
  <1>1. IsSeq(e) /\ Len(e) = 0 /\ e \o e = e
    BY EmptyIsSeq, ConcatEmpty
  <1>2. st[1] = e
    OBVIOUS
  <1> HIDE DEF st
  <1>3. Sends(l, e, st, st)
    BY <1>1, <1>2 DEF Sends
  <1>4. e \o e = st[0 + 1]
    BY <1>1, <1>2
  <1>5. QED
    BY <1>1, <1>3, <1>4 DEF Brings

(* One more message is sent.                                               *)
LEMMA OneMoreBrought ==
  ASSUME NEW l \in Lane, NEW S, NEW s \in Seq(S), NEW g \in 0 .. Len(s), NEW x, IsSeq(x),
         Brings(l, s, g, x, TRUE),
         NEW m \in Raw(l), CanWrite(Outer(m)), NEW whole
  PROVE  Brings(l, Append(s, Seen(m)), g, x \o Packet(Outer(m)), whole)
  <1> DEFINE P == Packet(Outer(m))
             n == Len(s)
             t == Append(s, Seen(m))
  <1>1. PICK q, st, rest : /\ Sends(l, s, q, st)
                           /\ IsSeq(rest) /\ x \o rest = st[g + 1] /\ rest = <<>>
    BY DEF Brings
  <1>2. n \in Nat /\ Len(t) = n + 1 /\ t[n + 1] = Seen(m) /\ \A k \in 1 .. n : t[k] = s[k]
    BY AppendProperties
  <1>3. IsSeq(P)
    BY SendableComesOut, PacketIs
  <1>4. x = st[g + 1]
    BY <1>1, ConcatEmpty
  <1>5. /\ st[n + 1] = <<>>
        /\ \A k \in 1 .. n :
             /\ q[k] \in Raw(l) /\ CanWrite(Outer(q[k])) /\ s[k] = Seen(q[k])
             /\ st[k] = Packet(Outer(q[k])) \o st[k + 1]
        /\ \A k \in 1 .. n + 1 : IsSeq(st[k])
    BY <1>1 DEF Sends
  <1>9. m \in Raw(l) /\ CanWrite(Outer(m)) /\ P = Packet(Outer(m)) /\ t = Append(s, Seen(m)) /\ n = Len(s)
    OBVIOUS
  <1> HIDE DEF P, n, t
  <1> DEFINE r  == [k \in 1 .. n + 1 |-> IF k = n + 1 THEN m ELSE q[k]]
             ut == [k \in 1 .. n + 2 |-> IF k = n + 2 THEN <<>> ELSE st[k] \o P]
  <1>6. /\ \A k \in 1 .. n : r[k] = q[k]
        /\ r[n + 1] = m
        /\ ut[(n + 1) + 1] = <<>>
        /\ \A k \in 1 .. n + 1 : ut[k] = st[k] \o P
    BY <1>2
  <1> HIDE DEF r, ut
  <1>7. Sends(l, t, r, ut)
    <2>1. \A k \in 1 .. (n + 1) + 1 : IsSeq(ut[k])
      <3> SUFFICES ASSUME NEW k \in 1 .. (n + 1) + 1 PROVE IsSeq(ut[k])
        OBVIOUS
      <3>1. CASE k = (n + 1) + 1
        BY <1>6, <3>1, EmptyIsSeq
      <3>2. CASE k # (n + 1) + 1
        <4>1. k \in 1 .. n + 1
          BY <1>2, <3>2
        <4>2. IsSeq(st[k])
          BY <1>5, <4>1
        <4>3. IsSeq(st[k] \o P)
          BY <1>3, <4>2, Concat
        <4>4. QED
          BY <1>6, <4>1, <4>3
      <3>3. QED
        BY <3>1, <3>2
    <2>2. ASSUME NEW k \in 1 .. n + 1
          PROVE  /\ r[k] \in Raw(l) /\ CanWrite(Outer(r[k])) /\ t[k] = Seen(r[k])
                 /\ ut[k] = Packet(Outer(r[k])) \o ut[k + 1]
      <3>1. CASE k = n + 1
        <4>1. r[k] = m /\ ut[k + 1] = <<>> /\ ut[k] = <<>> \o P /\ t[k] = Seen(m)
          BY <1>2, <1>5, <1>6, <3>1
        <4>2. <<>> \o P = P \o <<>>
          BY <1>3, ConcatEmpty
        <4>3. QED
          BY <1>9, <4>1, <4>2
      <3>2. CASE k # n + 1
        <4>1. k \in 1 .. n /\ k + 1 \in 1 .. n + 1
          BY <1>2, <3>2
        <4>2. /\ q[k] \in Raw(l) /\ CanWrite(Outer(q[k])) /\ s[k] = Seen(q[k])
              /\ st[k] = Packet(Outer(q[k])) \o st[k + 1]
              /\ IsSeq(st[k + 1])
          BY <1>5, <4>1
        <4>3. r[k] = q[k] /\ t[k] = s[k]
          BY <1>2, <1>6, <4>1
        <4>4. ut[k] = st[k] \o P /\ ut[k + 1] = st[k + 1] \o P
          BY <1>2, <1>6, <4>1
        <4> DEFINE Q == Packet(Outer(q[k]))
                   u == st[k + 1]
        <4>5. IsSeq(Q)
          BY <4>2, SendableComesOut, PacketIs
        <4>6. IsSeq(u) /\ st[k] = Q \o u
          BY <4>2
        <4> HIDE DEF Q, u
        <4>7. Regroup(Q, u, P)
          BY <1>3, <4>5, <4>6, ConcatAssoc
        <4>8. ut[k] = Q \o (u \o P)
          BY <4>4, <4>6, <4>7 DEF Regroup
        <4>9. QED
          BY <4>2, <4>3, <4>4, <4>8 DEF Q, u
      <3>3. QED
        BY <3>1, <3>2
    <2>3. QED
      BY <1>2, <1>6, <2>1, <2>2 DEF Sends
  <1>8. (x \o P) \o <<>> = ut[g + 1]
    <2>1. g + 1 \in 1 .. n + 1
      BY <1>2, <1>9
    <2>2. ut[g + 1] = x \o P
      BY <1>4, <1>6, <2>1
    <2>3. IsSeq(x \o P)
      BY <1>3, Concat
    <2>4. QED
      BY <2>2, <2>3, ConcatEmpty
  <1>10. Brings(l, t, g, x \o P, whole)
    BY <1>7, <1>8, EmptyIsSeq DEF Brings
  <1>11. QED
    BY <1>9, <1>10

(* The end of the stream is lost.                                          *)
LEMMA LessBrought ==
  ASSUME NEW l, NEW s, NEW g, NEW a, NEW b, IsSeq(a), IsSeq(b), NEW whole,
         NEW x, x = a \o b, Brings(l, s, g, x, whole)
  PROVE  Brings(l, s, g, a, FALSE)
  <1>1. PICK q, st, rest : /\ Sends(l, s, q, st)
                           /\ IsSeq(rest) /\ x \o rest = st[g + 1]
    BY DEF Brings
  <1>2. Regroup(a, b, rest) /\ IsSeq(b \o rest)
    <2>1. IsSeq(rest)
      BY <1>1
    <2>2. IsSeq(b \o rest)
      BY <2>1, Concat
    <2>3. Regroup(a, b, rest)
      BY <2>1, ConcatAssoc
    <2>4. QED
      BY <2>2, <2>3
  <1>3. a \o (b \o rest) = st[g + 1]
    BY <1>1, <1>2 DEF Regroup
  <1>4. QED
    BY <1>1, <1>2, <1>3 DEF Brings

(* A message is complete: it is the next one, and the stream goes on after *)
(* it.                                                                     *)
LEMMA MessageBrought ==
  ASSUME NEW l \in Lane, NEW S, NEW s \in Seq(S), NEW g \in 0 .. Len(s), NEW x, IsSeq(x),
         NEW whole, Brings(l, s, g, x, whole), Len(x) >= LenSize
  PROVE  /\ g < Len(s)
         /\ \E m \in Raw(l) :
              /\ s[g + 1] = Seen(m) /\ MsgLen(x) = Len(Packet(Outer(m)))
              /\ \A b, y : IsSeq(b) /\ IsSeq(y) /\ x = b \o y /\ Len(b) = MsgLen(x)
                   => b = Packet(Outer(m)) /\ Brings(l, s, g + 1, y, whole)
  <1>1. PICK q, st, rest : /\ Sends(l, s, q, st)
                           /\ IsSeq(rest) /\ x \o rest = st[g + 1]
                           /\ whole => rest = <<>>
    BY DEF Brings
  <1>2. Len(s) \in Nat /\ Len(x) \in Nat /\ Len(rest) \in Nat /\ LenSize = 2
    BY <1>1, WidthsPositive DEF IsSeq, LenSize
  <1>3. Len(st[g + 1]) = Len(x) + Len(rest)
    BY <1>1, Concat
  <1>4. g < Len(s)
    <2> SUFFICES ASSUME g = Len(s) PROVE FALSE
      BY <1>2
    <2>1. st[g + 1] = <<>>
      BY <1>1 DEF Sends
    <2>2. Len(st[g + 1]) = 0
      BY <2>1, EmptyIsSeq
    <2>3. QED
      BY <1>2, <1>3, <2>2
  <1> DEFINE k == g + 1
             m == q[k]
             P == Packet(Outer(m))
             u == st[k + 1]
  <1>5. k \in 1 .. Len(s) /\ k + 1 \in 1 .. Len(s) + 1
    BY <1>2, <1>4
  <1>6. m \in Raw(l) /\ s[k] = Seen(m) /\ st[k] = P \o u /\ IsSeq(u)
    BY <1>1, <1>5 DEF Sends
  <1>7. IsSeq(P) /\ MsgLen(P \o u) = Len(P)
    BY <1>6, SendableComesOut, PacketIs
  <1>8. x \o rest = P \o u
    BY <1>1, <1>6
  <1>13. k = g + 1 /\ P = Packet(Outer(m)) /\ u = st[k + 1]
    OBVIOUS
  <1> HIDE DEF k, m, P, u
  <1>9. MsgLen(x) = Len(P)
    BY <1>1, <1>7, <1>8, MsgLenLeft
  <1>10. ASSUME NEW b, NEW y, IsSeq(b), IsSeq(y), x = b \o y, Len(b) = MsgLen(x)
         PROVE  b = P /\ Brings(l, s, g + 1, y, whole)
    <2>6. Regroup(b, y, rest)
      BY <1>1, <1>10, ConcatAssoc
    <2>1. IsSeq(y \o rest)
      BY <1>1, <1>10, Concat
    <2>2. b \o (y \o rest) = P \o u
      BY <1>8, <1>10, <2>6 DEF Regroup
    <2>3. b = P /\ y \o rest = u
      <3> DEFINE z == y \o rest
      <3>1. IsSeq(z) /\ b \o z = P \o u
        BY <2>1, <2>2
      <3>2. IsSeq(b) /\ IsSeq(P) /\ IsSeq(u) /\ Len(b) = Len(P)
        BY <1>6, <1>7, <1>9, <1>10
      <3> HIDE DEF z
      <3>3. SameBytes(b, z, P, u)
        BY <3>1, <3>2 DEF SameBytes
      <3>4. QED
        BY <3>3, SamePieces DEF z
    <2>4. y \o rest = st[(g + 1) + 1]
      BY <1>13, <2>3
    <2>5. QED
      BY <1>1, <2>3, <2>4 DEF Brings
  <1>11. \A b, y : IsSeq(b) /\ IsSeq(y) /\ x = b \o y /\ Len(b) = MsgLen(x)
                   => b = P /\ Brings(l, s, g + 1, y, whole)
    BY <1>10
  <1>12. QED
    BY <1>4, <1>6, <1>9, <1>11, <1>13

-----------------------------------------------------------------------------
(* The invariant.  What a receiver has got is a beginning of what was      *)
(* sent, and as long as it listens, the bytes it holds and those in flight *)
(* bring the rest: all of it, unless bytes are lost.                       *)
Msgs(l)   == {Seen(m) : m \in Raw(l)}
Stream(l) == IF l \in ToServer THEN buffer[l] \o wire[l] ELSE wire[l]

LaneInv(l) ==
  /\ todo[l] \in Seq(Raw(l)) /\ IsSeq(wire[l])
  /\ l \in ToServer => /\ IsSeq(buffer[l])
                       /\ Len(buffer[l]) >= LenSize => ~TooBig(buffer[l])
  /\ sent[l] \in Seq(Msgs(l)) /\ got[l] \in Seq(Msgs(l))
  /\ Len(got[l]) <= Len(sent[l])
  /\ \A i \in 1 .. Len(got[l]) : got[l][i] = sent[l][i]
  /\ l \notin ended => Brings(l, sent[l], Len(got[l]), Stream(l), FALSE)
  /\ l \notin ended \cup lost => Brings(l, sent[l], Len(got[l]), Stream(l), TRUE)

Shapes ==
  /\ DOMAIN todo = Lane /\ DOMAIN wire = Lane /\ DOMAIN buffer = ToServer
  /\ DOMAIN sent = Lane /\ DOMAIN got = Lane
  /\ closed \subseteq Lane /\ lost \subseteq closed /\ ended \subseteq Lane

IntakeInv == Shapes /\ \A l \in Lane : LaneInv(l)

(* A step of one lane leaves the others alone.                             *)
Keeps(k) ==
  /\ todo'[k] = todo[k] /\ wire'[k] = wire[k] /\ sent'[k] = sent[k] /\ got'[k] = got[k]
  /\ k \in ToServer => buffer'[k] = buffer[k]
  /\ (k \in ended') <=> (k \in ended)
  /\ (k \in lost') <=> (k \in lost)

LEMMA LaneKept == ASSUME NEW k, LaneInv(k), Keeps(k) PROVE LaneInv(k)'
  <1>1. Stream(k)' = Stream(k)
    BY DEF Keeps, Stream
  <1>2. QED
    BY <1>1 DEF Keeps, LaneInv

LEMMA InvKept ==
  ASSUME IntakeInv, NEW l, \A k \in Lane \ {l} : Keeps(k), Shapes', LaneInv(l)'
  PROVE  IntakeInv'
  BY LaneKept DEF IntakeInv

LEMMA StreamIsSeq == ASSUME NEW l, LaneInv(l) PROVE IsSeq(Stream(l))
  BY Concat DEF LaneInv, Stream

LEMMA SendMsgKeeps == ASSUME IntakeInv, NEW l \in Lane, SendMsg(l) PROVE IntakeInv'
  <1> DEFINE m == Head(todo[l])
             P == Packet(Outer(m))
             sends == CanWrite(Outer(m)) /\ l \notin ended
  <1>0. Shapes /\ LaneInv(l)
    BY DEF IntakeInv
  <1>1. /\ todo[l] # <<>> /\ l \notin closed
        /\ todo' = [todo EXCEPT ![l] = Tail(@)]
        /\ IF sends THEN /\ wire' = [wire EXCEPT ![l] = @ \o P]
                         /\ sent' = [sent EXCEPT ![l] = Append(@, Seen(m))]
                    ELSE UNCHANGED <<wire, sent>>
        /\ UNCHANGED <<buffer, closed, lost, ended, got>>
    BY DEF SendMsg
  <1>2. todo[l] \in Seq(Raw(l)) /\ todo[l] # <<>>
    BY <1>0, <1>1 DEF LaneInv
  <1>3. m \in Raw(l) /\ Tail(todo[l]) \in Seq(Raw(l))
    BY <1>2, HeadTailProperties
  <1> HIDE DEF m
  <1>4. IsSeq(P)
    BY <1>3, SendableComesOut, PacketIs
  <1> HIDE DEF P, sends
  <1>5. Shapes'
    BY <1>0, <1>1 DEF Shapes
  <1>6. \A k \in Lane \ {l} : Keeps(k)
    BY <1>0, <1>1 DEF Shapes, Keeps
  <1>7. todo'[l] \in Seq(Raw(l))
    BY <1>0, <1>1, <1>3 DEF Shapes
  <1>8. LaneInv(l)'
    <2>1. CASE ~sends
      <3>1. wire' = wire /\ sent' = sent /\ buffer' = buffer /\ lost' = lost
            /\ ended' = ended /\ got' = got
        BY <1>1, <2>1
      <3>2. Stream(l)' = Stream(l)
        BY <3>1 DEF Stream
      <3>3. QED
        BY <1>0, <1>7, <3>1, <3>2 DEF LaneInv
    <2>2. CASE sends
      <3>1. /\ wire'[l] = wire[l] \o P /\ sent'[l] = Append(sent[l], Seen(m))
            /\ buffer' = buffer /\ lost' = lost /\ ended' = ended /\ got' = got
        BY <1>0, <1>1, <2>2 DEF Shapes
      <3>2. l \notin ended \cup lost /\ CanWrite(Outer(m))
        BY <1>0, <1>1, <2>2 DEF Shapes, sends
      <3>3. /\ IsSeq(wire[l]) /\ sent[l] \in Seq(Msgs(l)) /\ got[l] \in Seq(Msgs(l))
            /\ Len(got[l]) <= Len(sent[l])
            /\ \A i \in 1 .. Len(got[l]) : got[l][i] = sent[l][i]
            /\ Brings(l, sent[l], Len(got[l]), Stream(l), TRUE)
            /\ l \in ToServer => /\ IsSeq(buffer[l])
                                 /\ (Len(buffer[l]) >= LenSize => ~TooBig(buffer[l]))
        BY <1>0, <3>2 DEF LaneInv
      <3>4. IsSeq(wire[l] \o P)
        BY <1>4, <3>3, Concat
      <3>5. Seen(m) \in Msgs(l)
        BY <1>3 DEF Msgs
      <3>6. /\ Append(sent[l], Seen(m)) \in Seq(Msgs(l))
            /\ Len(Append(sent[l], Seen(m))) = Len(sent[l]) + 1
            /\ \A i \in 1 .. Len(sent[l]) : Append(sent[l], Seen(m))[i] = sent[l][i]
        BY <3>3, <3>5, AppendProperties
      <3>7. Stream(l)' = Stream(l) \o P
        <4>1. CASE l \in ToServer
          <5>1. Stream(l)' = buffer[l] \o (wire[l] \o P) /\ Stream(l) = buffer[l] \o wire[l]
            BY <3>1, <4>1 DEF Stream
          <5> DEFINE B == buffer[l]
                     W == wire[l]
          <5>2. IsSeq(B) /\ IsSeq(W)
            BY <3>3, <4>1
          <5>3. Stream(l)' = B \o (W \o P) /\ Stream(l) = B \o W
            BY <5>1
          <5> HIDE DEF B, W
          <5>4. Regroup(B, W, P)
            BY <1>4, <5>2, ConcatAssoc
          <5>5. QED
            BY <5>3, <5>4 DEF Regroup
        <4>2. CASE l \notin ToServer
          BY <3>1, <4>2 DEF Stream
        <4>3. QED
          BY <4>1, <4>2
      <3>8. IsSeq(Stream(l)) /\ Len(got[l]) \in 0 .. Len(sent[l]) /\ Len(got[l]) \in Nat /\ Len(sent[l]) \in Nat
        BY <1>0, <3>3, StreamIsSeq, LenProperties
      <3>9. ASSUME NEW whole
            PROVE  Brings(l, Append(sent[l], Seen(m)), Len(got[l]), Stream(l) \o P, whole)
        BY <1>3, <3>2, <3>3, <3>8, OneMoreBrought DEF P
      <3>10. ASSUME NEW whole PROVE Brings(l, sent'[l], Len(got'[l]), Stream(l)', whole)
        BY <3>1, <3>7, <3>9
      <3>11. /\ Len(got'[l]) <= Len(sent'[l])
             /\ \A i \in 1 .. Len(got'[l]) : got'[l][i] = sent'[l][i]
        BY <3>1, <3>3, <3>6, <3>8
      <3>12. /\ IsSeq(wire'[l]) /\ sent'[l] \in Seq(Msgs(l)) /\ got'[l] \in Seq(Msgs(l))
        BY <3>1, <3>3, <3>4, <3>6
      <3>13. l \in ToServer => /\ IsSeq(buffer'[l])
                              /\ (Len(buffer'[l]) >= LenSize => ~TooBig(buffer'[l]))
        BY <3>1, <3>3
      <3>14. /\ Brings(l, sent'[l], Len(got'[l]), Stream(l)', FALSE)
             /\ Brings(l, sent'[l], Len(got'[l]), Stream(l)', TRUE)
        BY <3>10
      <3>15. QED
        BY <1>7, <3>11, <3>12, <3>13, <3>14 DEF LaneInv
    <2>3. QED
      BY <2>1, <2>2
  <1>9. QED
    BY <1>5, <1>6, <1>8, InvKept

LEMMA CloseKeeps == ASSUME IntakeInv, NEW l \in Lane, Close(l) PROVE IntakeInv'
  <1>0. Shapes /\ LaneInv(l)
    BY DEF IntakeInv
  <1>1. /\ closed' = closed \cup {l}
        /\ UNCHANGED <<todo, buffer, ended, sent, got>>
    BY DEF Close
  <1>2. CASE UNCHANGED <<wire, lost>>
    <2>1. Shapes'
      BY <1>0, <1>1, <1>2 DEF Shapes
    <2>2. \A k : Keeps(k)
      BY <1>1, <1>2 DEF Keeps
    <2>3. QED
      BY <1>0, <2>1, <2>2, LaneKept, InvKept
  <1>3. ASSUME NEW n \in 0 .. Len(wire[l]) - 1,
               wire' = [wire EXCEPT ![l] = SubSeq(@, 1, n)], lost' = lost \cup {l}
        PROVE  IntakeInv'
    <2>1. Shapes'
      BY <1>0, <1>1, <1>3 DEF Shapes
    <2>2. \A k \in Lane \ {l} : Keeps(k)
      BY <1>0, <1>1, <1>3 DEF Shapes, Keeps
    <2> DEFINE w == wire[l]
               a == SubSeq(w, 1, n)
               b == SubSeq(w, n + 1, Len(w))
    <2>3. IsSeq(w) /\ n \in 0 .. Len(w) /\ (l \in ToServer => IsSeq(buffer[l]))
      BY <1>0, <1>3 DEF LaneInv, IsSeq
    <2>4. w = wire[l] /\ wire'[l] = a
      BY <1>0, <1>3 DEF Shapes
    <2> HIDE DEF w
    <2>5. IsSeq(a) /\ IsSeq(b) /\ a \o b = w
      BY <2>3, Split
    <2> HIDE DEF a, b
    <2>6. l \notin ended => Brings(l, sent'[l], Len(got'[l]), Stream(l)', FALSE)
      <3> SUFFICES ASSUME l \notin ended PROVE Brings(l, sent'[l], Len(got'[l]), Stream(l)', FALSE)
        OBVIOUS
      <3>1. Brings(l, sent[l], Len(got[l]), Stream(l), FALSE)
        BY <1>0 DEF LaneInv
      <3>2. IsSeq(Stream(l)') /\ Stream(l) = Stream(l)' \o b
        <4>1. CASE l \in ToServer
          <5>1. Stream(l) = buffer[l] \o w /\ Stream(l)' = buffer[l] \o a
            BY <1>1, <2>4, <4>1 DEF Stream
          <5> DEFINE B == buffer[l]
          <5>2. IsSeq(B)
            BY <2>3, <4>1
          <5>3. Stream(l) = B \o w /\ Stream(l)' = B \o a
            BY <5>1
          <5> HIDE DEF B
          <5>4. IsSeq(a) /\ IsSeq(b)
            BY <2>5
          <5>5. IsSeq(B \o a)
            BY <5>2, <5>4, Concat
          <5>6. Regroup(B, a, b)
            BY <5>2, <5>4, ConcatAssoc
          <5>7. QED
            BY <2>5, <5>3, <5>5, <5>6 DEF Regroup
        <4>2. CASE l \notin ToServer
          BY <2>4, <2>5, <4>2 DEF Stream
        <4>3. QED
          BY <4>1, <4>2
      <3>3. Brings(l, sent[l], Len(got[l]), Stream(l)', FALSE)
        BY <2>5, <3>1, <3>2, LessBrought
      <3>4. QED
        BY <1>1, <3>3
    <2>7. l \in lost'
      BY <1>3
    <2>8. /\ todo'[l] = todo[l] /\ sent'[l] = sent[l] /\ got'[l] = got[l]
          /\ buffer' = buffer /\ ended' = ended
      BY <1>1
    <2>9. LaneInv(l)'
      BY <1>0, <2>4, <2>5, <2>6, <2>7, <2>8 DEF LaneInv
    <2>10. QED
      BY <2>1, <2>2, <2>9, InvKept
  <1>4. QED
    BY <1>2, <1>3 DEF Close

(* The rest of the stream is read: an end of file, or a failure.           *)
LEMMA EndedKeeps ==
  ASSUME IntakeInv, NEW l \in Lane, ended' = ended \cup {l},
         IsSeq(wire'[l]), DOMAIN wire' = Lane, \A k \in Lane \ {l} : wire'[k] = wire[k],
         UNCHANGED <<todo, buffer, closed, lost, sent, got>>
  PROVE  IntakeInv'
  <1>0. Shapes /\ LaneInv(l)
    BY DEF IntakeInv
  <1>1. Shapes'
    BY <1>0 DEF Shapes
  <1>2. \A k \in Lane \ {l} : Keeps(k)
    BY <1>0 DEF Shapes, Keeps
  <1>3. LaneInv(l)'
    BY <1>0 DEF LaneInv
  <1>4. QED
    BY <1>1, <1>2, <1>3, InvKept

LEMMA EofKeeps ==
  ASSUME IntakeInv, NEW l \in Lane, ReadEof(l) \/ ReceiveEof(l) PROVE IntakeInv'
  <1>0. IsSeq(wire[l]) /\ DOMAIN wire = Lane
    BY DEF IntakeInv, LaneInv, Shapes
  <1>1. ended' = ended \cup {l} /\ UNCHANGED <<todo, buffer, closed, lost, sent, got>>
    BY DEF ReadEof, ReceiveEof
  <1>2. CASE wire' = wire
    BY <1>0, <1>1, <1>2, EndedKeeps
  <1>3. CASE wire' = [wire EXCEPT ![l] = <<>>]
    <2>1. wire'[l] = <<>> /\ DOMAIN wire' = Lane /\ \A k \in Lane \ {l} : wire'[k] = wire[k]
      BY <1>0, <1>3
    <2>2. IsSeq(wire'[l])
      BY <2>1, EmptyIsSeq
    <2>3. QED
      BY <1>1, <2>1, <2>2, EndedKeeps
  <1>4. QED
    BY <1>2, <1>3 DEF ReadEof, ReceiveEof

(* A message b has been taken from the stream of l, y is what is left.     *)
Takes(l, b, y) ==
  /\ l \notin ended /\ IsSeq(b) /\ IsSeq(y) /\ Stream(l) = b \o y
  /\ Len(b) >= LenSize /\ Len(b) = MsgLen(Stream(l))
  /\ Stream(l)' = y /\ IsSeq(wire'[l])
  /\ l \in ToServer => /\ IsSeq(buffer'[l])
                      /\ (Len(buffer'[l]) >= LenSize => ~TooBig(buffer'[l]))
  /\ DOMAIN wire' = Lane /\ DOMAIN buffer' = ToServer
  /\ \A k \in Lane \ {l} : /\ wire'[k] = wire[k]
                           /\ (k \in ToServer => buffer'[k] = buffer[k])
  /\ todo' = todo /\ closed' = closed /\ lost' = lost /\ ended' = ended /\ sent' = sent

LEMMA TakenKeeps ==
  ASSUME IntakeInv, NEW l \in Lane, NEW b, NEW y, Takes(l, b, y),
         NEW p, MsgLen(b) = Len(b) => p = Payload(b),
         got' = IF Inner(ReadMessage(p)) = NULL THEN got
                ELSE [got EXCEPT ![l] = Append(@, Seen(Inner(ReadMessage(p))))]
  PROVE  /\ IntakeInv' /\ Len(got[l]) < Len(sent[l])
         /\ got' = [got EXCEPT ![l] = Append(@, sent[l][Len(@) + 1])]
  <1> USE DEF Takes
  <1> DEFINE s == sent[l]
             g == Len(got[l])
             x == Stream(l)
  <1>0. Shapes /\ LaneInv(l)
    BY DEF IntakeInv
  <1>1. /\ s \in Seq(Msgs(l)) /\ got[l] \in Seq(Msgs(l)) /\ g \in 0 .. Len(s)
        /\ \A i \in 1 .. g : got[l][i] = s[i]
        /\ g \in Nat /\ Len(s) \in Nat
    BY <1>0, LenProperties DEF LaneInv
  <1>2. /\ Brings(l, s, g, x, FALSE)
        /\ l \notin lost => Brings(l, s, g, x, TRUE)
    BY <1>0 DEF LaneInv
  <1>3. IsSeq(x) /\ Len(x) >= LenSize
    <2>1. Len(b \o y) = Len(b) + Len(y) /\ IsSeq(b \o y)
      BY Concat
    <2>2. Len(b) \in Nat /\ Len(y) \in Nat /\ LenSize = 2
      BY WidthsPositive DEF IsSeq, LenSize
    <2>3. QED
      BY <2>1, <2>2
  <1>4. x = b \o y /\ Len(b) = MsgLen(x)
    OBVIOUS
  <1>5. s = sent[l] /\ g = Len(got[l]) /\ x = Stream(l)
    OBVIOUS
  <1> HIDE DEF s, g, x
  <1>22. ASSUME NEW whole, Brings(l, s, g, x, whole)
         PROVE  /\ g < Len(s)
                /\ \E m \in Raw(l) : /\ s[g + 1] = Seen(m) /\ b = Packet(Outer(m))
                                     /\ Brings(l, s, g + 1, y, whole)
    <2>1. /\ g < Len(s)
          /\ \E m \in Raw(l) :
               /\ s[g + 1] = Seen(m) /\ MsgLen(x) = Len(Packet(Outer(m)))
               /\ \A c, z : IsSeq(c) /\ IsSeq(z) /\ x = c \o z /\ Len(c) = MsgLen(x)
                    => c = Packet(Outer(m)) /\ Brings(l, s, g + 1, z, whole)
      BY <1>1, <1>3, <1>22, MessageBrought
    <2>2. QED
      BY <1>4, <2>1
  <1>6. g < Len(s) /\ \E m \in Raw(l) : /\ s[g + 1] = Seen(m) /\ b = Packet(Outer(m))
                                       /\ Brings(l, s, g + 1, y, FALSE)
    BY <1>2, <1>22
  <1>7. l \notin lost => Brings(l, s, g + 1, y, TRUE)
    BY <1>2, <1>22
  <1>8. PICK m \in Raw(l) : /\ s[g + 1] = Seen(m) /\ b = Packet(Outer(m))
                            /\ Brings(l, s, g + 1, y, FALSE)
    BY <1>6
  <1>9. /\ IsSeq(Write(Outer(m))) /\ Inner(ReadMessage(Write(Outer(m)))) # NULL
        /\ Seen(Inner(ReadMessage(Write(Outer(m))))) = Seen(m)
    BY SendableComesOut
  <1>10. MsgLen(b) = Len(b) /\ Payload(b) = Write(Outer(m))
    BY <1>8, <1>9, PacketIs
  <1>11. p = Write(Outer(m))
    BY <1>10
  <1>12. got' = [got EXCEPT ![l] = Append(@, Seen(m))]
    BY <1>9, <1>11
  <1>13. got'[l] = Append(got[l], s[g + 1])
    BY <1>0, <1>8, <1>12 DEF Shapes
  <1>14. s[g + 1] \in Msgs(l)
    BY <1>8 DEF Msgs
  <1>15. /\ got'[l] \in Seq(Msgs(l)) /\ Len(got'[l]) = g + 1
         /\ got'[l][g + 1] = s[g + 1]
         /\ \A i \in 1 .. g : got'[l][i] = got[l][i]
    BY <1>1, <1>5, <1>13, <1>14, AppendProperties
  <1>16. \A i \in 1 .. g + 1 : got'[l][i] = s[i]
    BY <1>1, <1>15
  <1>17. Shapes'
    BY <1>0, <1>12 DEF Shapes
  <1>18. \A k \in Lane \ {l} : Keeps(k)
    BY <1>0, <1>12 DEF Shapes, Keeps
  <1>19. LaneInv(l)'
    <2>1. /\ sent'[l] = s /\ Len(got'[l]) = g + 1 /\ Stream(l)' = y
          /\ todo'[l] = todo[l] /\ lost' = lost /\ ended' = ended /\ IsSeq(wire'[l])
      BY <1>5, <1>15
    <2>2. Len(got'[l]) <= Len(sent'[l])
      BY <1>1, <1>6, <2>1
    <2>3. /\ Brings(l, sent'[l], Len(got'[l]), Stream(l)', FALSE)
          /\ l \notin lost' => Brings(l, sent'[l], Len(got'[l]), Stream(l)', TRUE)
      BY <1>7, <1>8, <2>1
    <2>4. \A i \in 1 .. Len(got'[l]) : got'[l][i] = sent'[l][i]
      BY <1>16, <2>1
    <2>5. todo'[l] \in Seq(Raw(l)) /\ sent'[l] \in Seq(Msgs(l))
      BY <1>0, <1>1, <2>1 DEF LaneInv
    <2>6. l \in ToServer => IsSeq(buffer'[l]) /\ (Len(buffer'[l]) >= LenSize => ~TooBig(buffer'[l]))
      OBVIOUS
    <2>7. QED
      BY <1>15, <2>1, <2>2, <2>3, <2>4, <2>5, <2>6 DEF LaneInv
  <1>20. got' = [got EXCEPT ![l] = Append(@, sent[l][Len(@) + 1])]
    BY <1>5, <1>8, <1>12
  <1>21. QED
    BY <1>5, <1>6, <1>17, <1>18, <1>19, <1>20, InvKept

LEMMA PayloadLeft ==
  ASSUME NEW b, NEW y, IsSeq(b), IsSeq(y), Len(b) >= LenSize, MsgLen(b) = Len(b)
  PROVE  Payload(b \o y) = Payload(b)
  <1> DEFINE i == LenSize + 1
             n == Len(b) - LenSize
  <1>1. LenSize = 2 /\ Len(b) \in Nat
    BY WidthsPositive DEF LenSize, IsSeq
  <1>2. i \in Nat \ {0} /\ n \in Nat /\ i + n - 1 <= Len(b)
    BY <1>1
  <1>3. MsgLen(b \o y) = Len(b)
    BY MsgLenLeft
  <1>4. Payload(b \o y) = Part(b \o y, i, n) /\ Payload(b) = Part(b, i, n)
    BY <1>3 DEF Payload
  <1> HIDE DEF i, n
  <1>5. QED
    BY <1>2, <1>4, PartLeft

LEMMA ReceiveAnyMsgKeeps ==
  ASSUME IntakeInv, NEW l \in ToClient, ReceiveAnyMsg(l)
  PROVE  /\ IntakeInv' /\ Len(got[l]) < Len(sent[l])
         /\ got' = [got EXCEPT ![l] = Append(@, sent[l][Len(@) + 1])]
  <1> DEFINE w == wire[l]
             n == MsgLen(w)
             b == SubSeq(w, 1, n)
             y == SubSeq(w, n + 1, Len(w))
             p == Payload(w)
  <1>0. Shapes /\ LaneInv(l) /\ l \in Lane /\ l \notin ToServer
    BY IntakeAssumption DEF IntakeInv, Lane
  <1>1. /\ l \notin ended /\ Len(w) >= LenSize /\ n \in 0 .. MAX_MSG_SIZE /\ Len(w) >= n
        /\ wire' = [wire EXCEPT ![l] = SubSeq(@, MsgLen(@) + 1, Len(@))]
        /\ got' = IF Inner(ReadMessage(p)) = NULL THEN got
                  ELSE [got EXCEPT ![l] = Append(@, Seen(Inner(ReadMessage(p))))]
        /\ UNCHANGED <<todo, buffer, closed, lost, ended, sent>>
    BY DEF ReceiveAnyMsg, Complete, TooBig
  <1> DEFINE s == sent[l]
             g == Len(got[l])
  <1>2. /\ IsSeq(w) /\ Brings(l, s, g, Stream(l), FALSE)
        /\ s \in Seq(Msgs(l)) /\ g \in 0 .. Len(s)
    <2>1. got[l] \in Seq(Msgs(l)) /\ s \in Seq(Msgs(l)) /\ g <= Len(s)
      BY <1>0 DEF LaneInv
    <2>2. g \in Nat /\ Len(s) \in Nat
      BY <2>1, LenProperties
    <2>3. Brings(l, s, g, Stream(l), FALSE) /\ IsSeq(w)
      BY <1>0, <1>1 DEF LaneInv
    <2>4. g \in 0 .. Len(s)
      BY <2>1, <2>2
    <2> HIDE DEF s, g, w
    <2>5. QED
      BY <2>1, <2>3, <2>4
  <1>14. Stream(l) = w
    BY <1>0 DEF Stream
  <1>3. wire'[l] = y /\ DOMAIN wire' = Lane /\ DOMAIN buffer' = ToServer
        /\ \A k \in Lane \ {l} : wire'[k] = wire[k] /\ (k \in ToServer => buffer'[k] = buffer[k])
    BY <1>0, <1>1 DEF Shapes
  <1>4. Stream(l)' = wire'[l]
    BY <1>0 DEF Stream
  <1>9. n = MsgLen(w) /\ p = Payload(w)
    OBVIOUS
  <1> HIDE DEF w, n, p, s, g
  <1>5. \E m \in Raw(l) : n = Len(Packet(Outer(m)))
    <2>1. Brings(l, s, g, w, FALSE) /\ Len(w) >= LenSize
      BY <1>1, <1>2, <1>14
    <2>2. \E m \in Raw(l) :
            /\ s[g + 1] = Seen(m) /\ MsgLen(w) = Len(Packet(Outer(m)))
            /\ \A c, z : IsSeq(c) /\ IsSeq(z) /\ w = c \o z /\ Len(c) = MsgLen(w)
                 => c = Packet(Outer(m)) /\ Brings(l, s, g + 1, z, FALSE)
      BY <1>0, <1>2, <2>1, MessageBrought
    <2>3. QED
      BY <1>9, <2>2
  <1>6. n >= LenSize
    <2>1. PICK m \in Raw(l) : n = Len(Packet(Outer(m)))
      BY <1>5
    <2>2. IsSeq(Write(Outer(m)))
      BY <1>0, SendableComesOut
    <2>3. n = Len(Write(Outer(m))) + LenSize
      BY <2>1, <2>2, PacketIs
    <2>4. QED
      BY <2>2, <2>3, WidthsPositive DEF IsSeq, LenSize
  <1>7. n \in 0 .. Len(w)
    BY <1>1, <1>2 DEF IsSeq
  <1>8. IsSeq(b) /\ Len(b) = n /\ IsSeq(y) /\ b \o y = w
    BY <1>2, <1>7, Split
  <1> HIDE DEF b, y
  <1>10. Len(b) >= LenSize /\ Len(b) = MsgLen(Stream(l)) /\ Stream(l) = b \o y /\ Stream(l)' = y
    BY <1>3, <1>4, <1>6, <1>8, <1>9, <1>14
  <1>11. MsgLen(b) = Len(b) => p = Payload(b)
    BY <1>8, <1>9, <1>10, PayloadLeft
  <1>12. Takes(l, b, y)
    BY <1>0, <1>1, <1>3, <1>8, <1>10 DEF Takes
  <1>13. QED
    BY <1>0, <1>1, <1>11, <1>12, TakenKeeps

LEMMA MinSecond ==
  ASSUME NEW a \in Int, NEW b \in Int PROVE Min({a, b}) \in Int /\ Min({a, b}) <= b
  <1>1. CASE a <= b
    <2>1. \A x \in {a, b} : (\A y \in {a, b} : x <= y) => x <= b
      OBVIOUS
    <2>2. a \in {a, b} /\ \A y \in {a, b} : a <= y
      BY <1>1
    <2>3. QED
      BY <2>1, <2>2 DEF Min
  <1>2. CASE b <= a
    <2>1. \A x \in {a, b} : (\A y \in {a, b} : x <= y) => x <= b
      OBVIOUS
    <2>2. b \in {a, b} /\ \A y \in {a, b} : b <= y
      BY <1>2
    <2>3. QED
      BY <2>1, <2>2 DEF Min
  <1>3. QED
    BY <1>1, <1>2

(* Either nothing comes out, or the next message does.                     *)
Comes(l) ==
  \/ got' = got
  \/ /\ Len(got[l]) < Len(sent[l])
     /\ got' = [got EXCEPT ![l] = Append(@, sent[l][Len(@) + 1])]

LEMMA ReadPartKeeps ==
  ASSUME IntakeInv, NEW l \in ToServer, ReadPart(l)
  PROVE  /\ IntakeInv' /\ Comes(l)
         /\ UNCHANGED <<sent, lost>>
  <1>0. Shapes /\ LaneInv(l) /\ l \in Lane
    BY DEF IntakeInv, Lane
  <1>1. PICK n \in 1 .. Min({Wanted(buffer[l]), Len(wire[l])}) :
          \E b \in {buffer[l] \o SubSeq(wire[l], 1, n)} :
            /\ l \notin ended
            /\ wire' = [wire EXCEPT ![l] = SubSeq(@, n + 1, Len(@))]
            /\ \/ /\ Len(b) >= LenSize /\ TooBig(b)
                  /\ ended' = ended \cup {l}
                  /\ UNCHANGED <<buffer, got>>
               \/ /\ Len(b) < LenSize \/ (~TooBig(b) /\ Len(b) # MsgLen(b))
                  /\ buffer' = [buffer EXCEPT ![l] = b]
                  /\ UNCHANGED <<ended, got>>
               \/ /\ Len(b) >= LenSize /\ ~TooBig(b) /\ Len(b) = MsgLen(b)
                  /\ Enqueue(l, b)
            /\ UNCHANGED <<todo, closed, lost, sent>>
    BY DEF ReadPart
  <1> DEFINE w == wire[l]
             f == buffer[l]
             a == SubSeq(w, 1, n)
             y == SubSeq(w, n + 1, Len(w))
             b == f \o a
  <1>2. /\ l \notin ended
        /\ wire' = [wire EXCEPT ![l] = SubSeq(@, n + 1, Len(@))]
        /\ UNCHANGED <<todo, closed, lost, sent>>
    BY <1>1
  <1>3. \/ /\ ended' = ended \cup {l} /\ UNCHANGED <<buffer, got>>
        \/ /\ Len(b) < LenSize \/ (~TooBig(b) /\ Len(b) # MsgLen(b))
           /\ buffer' = [buffer EXCEPT ![l] = b]
           /\ UNCHANGED <<ended, got>>
        \/ /\ Len(b) >= LenSize /\ Len(b) = MsgLen(b)
           /\ Enqueue(l, b)
    BY <1>1
  <1>4. /\ IsSeq(w) /\ IsSeq(f) /\ Stream(l) = f \o w /\ Len(f) \in Nat /\ Len(w) \in Nat
        /\ Len(f) >= LenSize => ~TooBig(f)
    BY <1>0 DEF LaneInv, Stream, IsSeq
  <1>5. wire'[l] = y /\ DOMAIN wire' = Lane /\ \A k \in Lane \ {l} : wire'[k] = wire[k]
    BY <1>0, <1>2 DEF Shapes
  <1>7. f = buffer[l] /\ w = wire[l] /\ b = f \o a
    OBVIOUS
  <1>6. n \in 0 .. Len(w)
    <2>1. Wanted(f) \in Int
      BY <1>4, WidthsPositive DEF Wanted, TooBig, LenSize
    <2> DEFINE v == Wanted(f)
               z == Len(w)
               h == Min({v, z})
    <2>2. v \in Int /\ z \in Int /\ n \in 1 .. h
      BY <1>4, <1>7, <2>1
    <2> HIDE DEF v, z
    <2>3. h \in Int /\ h <= z
      BY <2>2, MinSecond
    <2> HIDE DEF h
    <2>4. n \in 0 .. z
      BY <2>2, <2>3
    <2>5. QED
      BY <2>4 DEF z
  <1> HIDE DEF w, f
  <1>8. IsSeq(a) /\ IsSeq(y) /\ a \o y = w
    BY <1>4, <1>6, Split
  <1> HIDE DEF a, y
  <1>9. IsSeq(b) /\ Regroup(f, a, y)
    <2>1. IsSeq(a) /\ IsSeq(y) /\ IsSeq(f)
      BY <1>4, <1>8
    <2>2. IsSeq(b)
      BY <2>1, Concat
    <2>3. Regroup(f, a, y)
      BY <2>1, ConcatAssoc
    <2>4. QED
      BY <2>2, <2>3
  <1> HIDE DEF b
  <1>10. Stream(l) = b \o y
    BY <1>4, <1>7, <1>8, <1>9 DEF Regroup
  <1>11. CASE ended' = ended \cup {l} /\ UNCHANGED <<buffer, got>>
    <2>1. IntakeInv'
      BY <1>0, <1>2, <1>5, <1>8, <1>11, EndedKeeps
    <2>2. QED
      BY <1>2, <1>11, <2>1 DEF Comes
  <1>12. CASE /\ Len(b) < LenSize \/ (~TooBig(b) /\ Len(b) # MsgLen(b))
              /\ buffer' = [buffer EXCEPT ![l] = b]
              /\ UNCHANGED <<ended, got>>
    <2>1. /\ buffer'[l] = b /\ DOMAIN buffer' = ToServer
          /\ \A k \in Lane \ {l} : k \in ToServer => buffer'[k] = buffer[k]
      BY <1>0, <1>12 DEF Shapes
    <2>2. Stream(l)' = Stream(l)
      BY <1>5, <1>10, <2>1 DEF Stream
    <2>3. Shapes'
      BY <1>0, <1>2, <1>5, <1>12, <2>1 DEF Shapes
    <2>4. \A k \in Lane \ {l} : Keeps(k)
      BY <1>2, <1>5, <1>12, <2>1 DEF Keeps
    <2>5. Len(b) >= LenSize => ~TooBig(b)
      BY <1>9, <1>12, WidthsPositive DEF IsSeq, LenSize
    <2>6. LaneInv(l)'
      BY <1>0, <1>2, <1>5, <1>8, <1>9, <1>12, <2>1, <2>2, <2>5 DEF LaneInv
    <2>7. QED
      BY <1>0, <1>2, <1>12, <2>3, <2>4, <2>6, InvKept DEF Comes
  <1>13. CASE /\ Len(b) >= LenSize /\ Len(b) = MsgLen(b)
              /\ Enqueue(l, b)
    <2> DEFINE p == Payload(b)
    <2>1. /\ buffer' = [buffer EXCEPT ![l] = <<>>] /\ ended' = ended
          /\ got' = IF Inner(ReadMessage(p)) = NULL THEN got
                    ELSE [got EXCEPT ![l] = Append(@, Seen(Inner(ReadMessage(p))))]
      BY <1>13 DEF Enqueue, Reset
    <2>2. /\ buffer'[l] = <<>> /\ DOMAIN buffer' = ToServer
          /\ \A k \in Lane \ {l} : k \in ToServer => buffer'[k] = buffer[k]
      BY <1>0, <2>1 DEF Shapes
    <2>3. IsSeq(buffer'[l]) /\ (Len(buffer'[l]) >= LenSize => ~TooBig(buffer'[l]))
      BY <2>2, EmptyIsSeq, WidthsPositive DEF LenSize
    <2>4. Stream(l)' = y
      <3>1. Stream(l)' = <<>> \o y
        BY <1>5, <2>2 DEF Stream
      <3>2. QED
        BY <1>8, <3>1, ConcatEmpty
    <2>5. Len(b) = MsgLen(Stream(l)) /\ Len(b) >= LenSize
      BY <1>8, <1>9, <1>10, <1>13, MsgLenLeft
    <2>6. p = Payload(b) /\ IsSeq(wire'[l])
      BY <1>5, <1>8
    <2> HIDE DEF p
    <2>7. Takes(l, b, y)
      BY <1>0, <1>2, <1>5, <1>8, <1>9, <1>10, <2>1, <2>2, <2>3, <2>4, <2>5, <2>6 DEF Takes
    <2>8. /\ IntakeInv' /\ Len(got[l]) < Len(sent[l])
          /\ got' = [got EXCEPT ![l] = Append(@, sent[l][Len(@) + 1])]
      BY <1>0, <2>1, <2>6, <2>7, TakenKeeps
    <2>9. QED
      BY <1>2, <2>8 DEF Comes
  <1>14. QED
    BY <1>3, <1>7, <1>11, <1>12, <1>13

-----------------------------------------------------------------------------
(* What is not about a lane leaves every one alone.                        *)
LEMMA StutterKeeps == ASSUME IntakeInv, UNCHANGED netVars PROVE IntakeInv'
  <1>1. Shapes' /\ \A k \in Lane : Keeps(k)
    BY DEF IntakeInv, Shapes, Keeps, netVars
  <1>2. QED
    BY <1>1, LaneKept DEF IntakeInv

LEMMA ScriptIs ==
  ASSUME NEW s \in Scripts, NEW l \in Lane
  PROVE  DOMAIN s = Lane /\ s[l] \in Seq(Raw(l))
  <1>1. s[l] \in Seq(Range(s[l])) /\ DOMAIN s = Lane
    BY IntakeAssumption
  <1>2. Range(s[l]) \subseteq Raw(l)
    BY DEF Raw
  <1>3. Len(s[l]) \in Nat /\ s[l] = [i \in 1 .. Len(s[l]) |-> s[l][i]]
        /\ \A i \in 1 .. Len(s[l]) : s[l][i] \in Range(s[l])
    BY <1>1, LenProperties
  <1>4. QED
    BY <1>1, <1>2, <1>3

LEMMA IntakeInvInit == IntakeInit => IntakeInv
  <1> SUFFICES ASSUME IntakeInit PROVE IntakeInv
    OBVIOUS
  <1>1. /\ todo \in Scripts
        /\ wire = [l \in Lane |-> <<>>] /\ buffer = [l \in ToServer |-> <<>>]
        /\ lost = {} /\ closed = {l \in Lane : todo[l] = <<>>} /\ ended = closed
        /\ sent = [l \in Lane |-> <<>>] /\ got = [l \in Lane |-> <<>>]
    BY DEF IntakeInit
  <1>2. Shapes
    BY <1>1, IntakeAssumption DEF Shapes
  <1>3. ASSUME NEW l \in Lane PROVE LaneInv(l)
    <2> DEFINE e == <<>>
    <2>1. wire[l] = e /\ sent[l] = e /\ got[l] = e /\ (l \in ToServer => buffer[l] = e)
      BY <1>1
    <2>2. IsSeq(e) /\ Len(e) = 0 /\ e \o e = e /\ e \in Seq(Msgs(l))
      BY EmptyIsSeq, ConcatEmpty
    <2>3. Brings(l, e, 0, e, FALSE) /\ Brings(l, e, 0, e, TRUE)
      BY NothingBrought
    <2>4. ~(Len(e) >= LenSize)
      BY <2>2, WidthsPositive DEF LenSize
    <2>5. todo[l] \in Seq(Raw(l))
      BY <1>1, ScriptIs
    <2> HIDE DEF e
    <2>6. Stream(l) = e
      BY <2>1, <2>2 DEF Stream
    <2>7. Len(got[l]) = 0 /\ Len(sent[l]) = 0
      BY <2>1, <2>2
    <2>8. /\ Brings(l, sent[l], Len(got[l]), Stream(l), FALSE)
          /\ Brings(l, sent[l], Len(got[l]), Stream(l), TRUE)
      BY <2>1, <2>3, <2>6, <2>7
    <2>9. /\ IsSeq(wire[l]) /\ sent[l] \in Seq(Msgs(l)) /\ got[l] \in Seq(Msgs(l))
          /\ l \in ToServer => /\ IsSeq(buffer[l])
                              /\ (Len(buffer[l]) >= LenSize => ~TooBig(buffer[l]))
      BY <2>1, <2>2, <2>4
    <2>10. /\ Len(got[l]) <= Len(sent[l])
           /\ \A i \in 1 .. Len(got[l]) : got[l][i] = sent[l][i]
      BY <2>7
    <2>11. QED
      BY <2>5, <2>8, <2>9, <2>10 DEF LaneInv
  <1>4. QED
    BY <1>2, <1>3 DEF IntakeInv

LEMMA IntakeInvNext == IntakeInv /\ [IntakeNext]_intakeVars => IntakeInv'
  <1> SUFFICES ASSUME IntakeInv, [IntakeNext]_intakeVars PROVE IntakeInv'
    OBVIOUS
  <1>1. ToServer \subseteq Lane /\ ToClient \subseteq Lane
    BY DEF Lane
  <1>2. ASSUME NEW l \in Lane, SendMsg(l) PROVE IntakeInv'
    BY <1>2, SendMsgKeeps
  <1>3. ASSUME NEW l \in Lane, Close(l) PROVE IntakeInv'
    BY <1>3, CloseKeeps
  <1>4. ASSUME NEW l \in ToServer, ReadPart(l) PROVE IntakeInv'
    BY <1>4, ReadPartKeeps
  <1>5. ASSUME NEW l \in Lane, ReadEof(l) \/ ReceiveEof(l) PROVE IntakeInv'
    BY <1>5, EofKeeps
  <1>6. ASSUME NEW l \in ToClient, ReceiveAnyMsg(l) PROVE IntakeInv'
    BY <1>6, ReceiveAnyMsgKeeps
  <1>7. CASE UNCHANGED netVars
    BY <1>7, StutterKeeps
  <1>8. CASE UNCHANGED intakeVars
    BY <1>7, <1>8 DEF intakeVars
  <1>9. QED
    BY <1>1, <1>2, <1>3, <1>4, <1>5, <1>6, <1>7, <1>8 DEF IntakeNext, Work

LEMMA IntakeInvariant == IntakeSpec => []IntakeInv
  BY IntakeInvInit, IntakeInvNext, PTL DEF IntakeSpec

(* What comes out of a stream is a message of a known type with all its    *)
(* fields, and a length that is kept in a buffer is one that fits          *)
(* (socket_wrapper.cpp:24-121).                                            *)
THEOREM IntakeTyped == IntakeSpec => []IntakeTypeOK
  <1>1. IntakeInv => IntakeTypeOK
    <2> SUFFICES ASSUME IntakeInv PROVE IntakeTypeOK
      OBVIOUS
    <2>1. Shapes /\ \A l \in Lane : LaneInv(l)
      BY DEF IntakeInv
    <2>2. ASSUME NEW l \in Lane, NEW i \in DOMAIN got[l] PROVE IsMessage(got[l][i])
      <3>1. got[l] \in Seq(Msgs(l))
        BY <2>1 DEF LaneInv
      <3>2. got[l][i] \in Msgs(l)
        BY <2>2, <3>1
      <3>3. PICK m \in Raw(l) : got[l][i] = Seen(m)
        BY <3>2 DEF Msgs
      <3>4. QED
        BY <3>3, SendableComesOut
    <2>3. \A l \in ToServer : Len(buffer[l]) >= LenSize => ~TooBig(buffer[l])
      BY <2>1 DEF LaneInv, Lane
    <2>4. QED
      BY <2>1, <2>2, <2>3 DEF IntakeTypeOK, Shapes
  <1>2. QED
    BY <1>1, IntakeInvariant, PTL

-----------------------------------------------------------------------------
(* The stream is a Channel.                                                *)
LEMMA IntakeStep ==
  IntakeInv /\ [IntakeNext]_intakeVars => [CH!Next]_CH!channelVars
  <1> SUFFICES ASSUME IntakeInv, [IntakeNext]_intakeVars PROVE [CH!Next]_CH!channelVars
    OBVIOUS
  <1> DEFINE Message == UNION {{Seen(s[l][i]) : i \in DOMAIN s[l]} : s \in Scripts, l \in Lane}
  <1>1. ToServer \subseteq Lane /\ ToClient \subseteq Lane /\ Shapes
    BY DEF Lane, IntakeInv
  <1>2. CASE UNCHANGED <<sent, got, lost>>
    BY <1>2 DEF CH!channelVars
  <1>3. ASSUME NEW l \in Lane, SendMsg(l) PROVE [CH!Next]_CH!channelVars
    <2>1. todo[l] \in Seq(Raw(l)) /\ todo[l] # <<>>
      BY <1>3 DEF IntakeInv, LaneInv, SendMsg
    <2>2. Head(todo[l]) \in Raw(l)
      BY <2>1, HeadTailProperties
    <2>3. PICK s \in Scripts : Head(todo[l]) \in Range(s[l])
      BY <2>2 DEF Raw
    <2>4. PICK i \in DOMAIN s[l] : Head(todo[l]) = s[l][i]
      BY <2>3 DEF Range
    <2>5. Seen(Head(todo[l])) \in Message
      <3> DEFINE T == {Seen(s[l][k]) : k \in DOMAIN s[l]}
                 v == Seen(Head(todo[l]))
      <3>1. v \in T
        BY <2>4
      <3>2. T \in {{Seen(r[k][j]) : j \in DOMAIN r[k]} : r \in Scripts, k \in Lane}
        OBVIOUS
      <3> HIDE DEF T, v
      <3>3. v \in Message
        BY <3>1, <3>2
      <3>4. QED
        BY <3>3 DEF v
    <2> HIDE DEF Message
    <2>6. \/ UNCHANGED <<sent, got, lost>>
          \/ CH!Send(l, Seen(Head(todo[l])))
      BY <1>3 DEF SendMsg, CH!Send
    <2>7. QED
      BY <1>2, <2>5, <2>6 DEF CH!Next, Message
  <1>4. ASSUME NEW l \in Lane, Close(l) PROVE [CH!Next]_CH!channelVars
    <2>1. \/ UNCHANGED <<sent, got, lost>>
          \/ CH!Cut({l})
      BY <1>4 DEF Close, CH!Cut
    <2>2. QED
      BY <1>2, <2>1 DEF CH!Next
  <1>5. ASSUME NEW l \in Lane, Comes(l), UNCHANGED <<sent, lost>> PROVE [CH!Next]_CH!channelVars
    <2>1. \/ UNCHANGED <<sent, got, lost>>
          \/ CH!Deliver(l)
      BY <1>5 DEF Comes, CH!Deliver
    <2>2. QED
      BY <1>2, <2>1 DEF CH!Next
  <1>6. ASSUME NEW l \in ToServer, ReadPart(l) PROVE [CH!Next]_CH!channelVars
    BY <1>1, <1>5, <1>6, ReadPartKeeps
  <1>7. ASSUME NEW l \in ToClient, ReceiveAnyMsg(l) PROVE [CH!Next]_CH!channelVars
    <2>1. Comes(l)
      BY <1>7, ReceiveAnyMsgKeeps DEF Comes
    <2>2. UNCHANGED <<sent, lost>>
      BY <1>7 DEF ReceiveAnyMsg
    <2>3. QED
      BY <1>1, <1>5, <2>1, <2>2
  <1>8. ASSUME NEW l \in Lane, ReadEof(l) \/ ReceiveEof(l) PROVE [CH!Next]_CH!channelVars
    BY <1>2, <1>8 DEF ReadEof, ReceiveEof
  <1>9. CASE UNCHANGED netVars
    BY <1>2, <1>9 DEF netVars
  <1>10. CASE UNCHANGED intakeVars
    BY <1>9, <1>10 DEF intakeVars
  <1>11. QED
    BY <1>1, <1>3, <1>4, <1>6, <1>7, <1>8, <1>9, <1>10 DEF IntakeNext, Work

(* However the streams are cut into pieces and whatever is read between    *)
(* them, on every lane the messages come out that were sent, once each, in *)
(* their order and with all that their fields can show: every step is one  *)
(* of the Channel (socket_wrapper.cpp, messages.cpp).                      *)
THEOREM IntakeImplementsChannel == IntakeSpec => CH!Spec
  <1>1. IntakeInit => CH!Init
    BY DEF IntakeInit, CH!Init
  <1>2. QED
    BY <1>1, IntakeStep, IntakeInvariant, PTL DEF IntakeSpec, CH!Spec
=============================================================================
