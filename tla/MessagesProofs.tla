---------------------------- MODULE MessagesProofs ----------------------------
(***************************************************************************)
(* What is written is read back, whatever the fields of a message hold and *)
(* whatever the sizes are.  For the messages that set up and carry a       *)
(* game's connection nothing is assumed of the fields; for every message   *)
(* the program sends, what comes back is the message with its names cut    *)
(* and its lists padded, and no field of it is lost.                       *)
(***************************************************************************)
EXTENDS Messages, SequenceTheorems, NaturalsInduction, WellFoundedInduction, TLAPS

(* A sequence of anything.                                                 *)
IsSeq(s) == Len(s) \in Nat /\ s = [i \in 1 .. Len(s) |-> s[i]]

LEMMA SeqIsSeq == ASSUME NEW S, NEW s \in Seq(S) PROVE IsSeq(s)
  BY LenProperties DEF IsSeq

LEMMA FunctionIsSeq ==
  ASSUME NEW n \in Nat, NEW s, s = [i \in 1 .. n |-> s[i]] PROVE IsSeq(s) /\ Len(s) = n
  <1>1. s \in Seq({s[i] : i \in 1 .. n}) /\ Len(s) = n
    OBVIOUS
  <1>2. QED
    BY <1>1 DEF IsSeq

LEMMA SameSeq ==
  ASSUME NEW s, NEW t, IsSeq(s), IsSeq(t), Len(s) = Len(t),
         \A i \in 1 .. Len(s) : s[i] = t[i]
  PROVE  s = t
  BY DEF IsSeq

LEMMA Concat ==
  ASSUME NEW a, NEW b, IsSeq(a), IsSeq(b)
  PROVE  /\ IsSeq(a \o b) /\ Len(a \o b) = Len(a) + Len(b)
         /\ \A i \in 1 .. Len(a) + Len(b) :
              (a \o b)[i] = IF i <= Len(a) THEN a[i] ELSE b[i - Len(a)]
  <1> DEFINE S == {a[i] : i \in 1 .. Len(a)}
  <1> DEFINE T == {b[i] : i \in 1 .. Len(b)}
  <1>1. a \in Seq(S \cup T) /\ b \in Seq(S \cup T)
    BY DEF IsSeq
  <1> HIDE DEF S, T
  <1>2. QED
    BY <1>1, ConcatProperties, SeqIsSeq

(* Part is what it says, inside a sequence.                                *)
LEMMA PartInside ==
  ASSUME NEW s, IsSeq(s), NEW i \in Nat \ {0}, NEW n \in Nat, i + n - 1 <= Len(s)
  PROVE  /\ Part(s, i, n) = [j \in 1 .. n |-> s[j + i - 1]]
         /\ IsSeq(Part(s, i, n)) /\ Len(Part(s, i, n)) = n
  <1>1. Len(s) \in Nat
    BY DEF IsSeq
  <1>2. Min({i + n - 1, Len(s)}) = i + n - 1
    BY <1>1 DEF Min
  <1>3. SubSeq(s, i, i + n - 1) = [j \in 1 .. ((i + n - 1) - i + 1) |-> s[i + j - 1]]
    OBVIOUS
  <1>4. (i + n - 1) - i + 1 = n /\ \A j \in 1 .. n : i + j - 1 = j + i - 1
    OBVIOUS
  <1>5. SubSeq(s, i, i + n - 1) = [j \in 1 .. n |-> s[j + i - 1]]
    BY <1>3, <1>4
  <1>6. QED
    BY <1>2, <1>5, FunctionIsSeq DEF Part

(* A part of two sequences together that lies in the one or in the other.  *)
LEMMA PartLeft ==
  ASSUME NEW a, NEW b, IsSeq(a), IsSeq(b), NEW i \in Nat \ {0}, NEW n \in Nat,
         i + n - 1 <= Len(a)
  PROVE  Part(a \o b, i, n) = Part(a, i, n)
  <1>0. Len(a) \in Nat /\ Len(b) \in Nat
    BY DEF IsSeq
  <1>1. i + n - 1 <= Len(a \o b) /\ IsSeq(a \o b)
    BY <1>0, Concat
  <1>3. ASSUME NEW j \in 1 .. n PROVE (a \o b)[j + i - 1] = a[j + i - 1]
    <2> DEFINE k == j + i - 1
    <2>1. k \in 1 .. Len(a) + Len(b) /\ k <= Len(a)
      BY <1>0
    <2> HIDE DEF k
    <2>2. (a \o b)[k] = a[k]
      BY <2>1, Concat
    <2>3. QED
      BY <2>2 DEF k
  <1>4. Part(a \o b, i, n) = [j \in 1 .. n |-> (a \o b)[j + i - 1]]
    <2> DEFINE s == a \o b
    <2> DEFINE k == i
    <2>1. IsSeq(s) /\ k \in Nat \ {0} /\ k + n - 1 <= Len(s)
      BY <1>1
    <2> HIDE DEF s, k
    <2>2. Part(s, k, n) = [j \in 1 .. n |-> s[j + k - 1]]
      BY <2>1, PartInside
    <2>3. QED
      BY <2>2 DEF s, k
  <1>5. Part(a, i, n) = [j \in 1 .. n |-> a[j + i - 1]]
    BY PartInside
  <1>6. [j \in 1 .. n |-> (a \o b)[j + i - 1]] = [j \in 1 .. n |-> a[j + i - 1]]
    <2> DEFINE A(j) == (a \o b)[j + i - 1]
    <2> DEFINE B(j) == a[j + i - 1]
    <2>1. \A j \in 1 .. n : A(j) = B(j)
      BY <1>3
    <2> HIDE DEF A, B
    <2>2. [j \in 1 .. n |-> A(j)] = [j \in 1 .. n |-> B(j)]
      BY <2>1
    <2>3. QED
      BY <2>2 DEF A, B
  <1>7. QED
    BY <1>4, <1>5, <1>6, Zenon

LEMMA PartRight ==
  ASSUME NEW a, NEW b, IsSeq(a), IsSeq(b), NEW i \in Nat \ {0}, NEW n \in Nat,
         i + n - 1 <= Len(b)
  PROVE  Part(a \o b, Len(a) + i, n) = Part(b, i, n)
  <1>0. Len(a) \in Nat /\ Len(b) \in Nat
    BY DEF IsSeq
  <1>1. Len(a) + i + n - 1 <= Len(a \o b) /\ IsSeq(a \o b) /\ Len(a) + i \in Nat \ {0}
    BY <1>0, Concat
  <1>3. ASSUME NEW j \in 1 .. n PROVE (a \o b)[j + (Len(a) + i) - 1] = b[j + i - 1]
    <2> DEFINE k == j + (Len(a) + i) - 1
    <2>1. k \in 1 .. Len(a) + Len(b) /\ ~(k <= Len(a)) /\ k - Len(a) = j + i - 1
      BY <1>0
    <2> HIDE DEF k
    <2>2. (a \o b)[k] = b[k - Len(a)]
      BY <2>1, Concat
    <2>3. QED
      BY <2>1, <2>2 DEF k
  <1>4. Part(a \o b, Len(a) + i, n) = [j \in 1 .. n |-> (a \o b)[j + (Len(a) + i) - 1]]
    <2> DEFINE s == a \o b
    <2> DEFINE k == Len(a) + i
    <2>1. IsSeq(s) /\ k \in Nat \ {0} /\ k + n - 1 <= Len(s)
      BY <1>1
    <2> HIDE DEF s, k
    <2>2. Part(s, k, n) = [j \in 1 .. n |-> s[j + k - 1]]
      BY <2>1, PartInside
    <2>3. QED
      BY <2>2 DEF s, k
  <1>5. Part(b, i, n) = [j \in 1 .. n |-> b[j + i - 1]]
    BY PartInside
  <1>6. [j \in 1 .. n |-> (a \o b)[j + (Len(a) + i) - 1]] = [j \in 1 .. n |-> b[j + i - 1]]
    <2> DEFINE A(j) == (a \o b)[j + (Len(a) + i) - 1]
    <2> DEFINE B(j) == b[j + i - 1]
    <2>1. \A j \in 1 .. n : A(j) = B(j)
      BY <1>3
    <2> HIDE DEF A, B
    <2>2. [j \in 1 .. n |-> A(j)] = [j \in 1 .. n |-> B(j)]
      BY <2>1
    <2>3. QED
      BY <2>2 DEF A, B
  <1>7. QED
    BY <1>4, <1>5, <1>6, Zenon

LEMMA PartAll ==
  ASSUME NEW a, IsSeq(a) PROVE Part(a, 1, Len(a)) = a
  <1>1. Len(a) \in Nat
    BY DEF IsSeq
  <1>2. Part(a, 1, Len(a)) = [j \in 1 .. Len(a) |-> a[j + 1 - 1]]
    <2>1. 1 + Len(a) - 1 <= Len(a)
      BY <1>1
    <2>2. QED
      BY <1>1, <2>1, PartInside
  <1>3. [j \in 1 .. Len(a) |-> a[j + 1 - 1]] = [j \in 1 .. Len(a) |-> a[j]]
    BY <1>1
  <1>4. QED
    BY <1>2, <1>3 DEF IsSeq

-----------------------------------------------------------------------------
(* Fields.                                                                 *)
LEMMA WidthsPositive ==
  /\ DOMAIN Width = {"len", "type", "u8", "bool", "u16", "u32", "addr", "char", "key",
                     "cert", "sig", "tag"}
  /\ \A k \in DOMAIN Width : Width[k] \in Nat \ {0}
  /\ Width["type"] = 1 /\ Width["u8"] = 1 /\ Width["u32"] = 4 /\ Width["len"] = 2
  BY MessagesAssumption DEF Width

LEMMA FieldReadBack ==
  ASSUME NEW k \in DOMAIN Width, NEW v
  PROVE  /\ IsSeq(WriteInt(k, v)) /\ Len(WriteInt(k, v)) = Width[k]
         /\ WriteBuf(k, v) = WriteInt(k, v)
         /\ Value(k, WriteInt(k, v)) = v
  <1>1. Width[k] \in Nat \ {0}
    BY WidthsPositive
  <1>2. \A i \in 1 .. Width[k] : WriteInt(k, v)[i] = <<k, i, v>>
    BY DEF WriteInt
  <1>3. IsSeq(WriteInt(k, v)) /\ Len(WriteInt(k, v)) = Width[k]
    BY <1>1, FunctionIsSeq DEF WriteInt
  <1>4. WriteInt(k, v) # <<>> /\ WriteInt(k, v)[1][3] = v
    BY <1>1, <1>2, <1>3
  <1>5. Value(k, WriteInt(k, v)) = v
    BY <1>4 DEF Value
  <1>6. QED
    BY <1>3, <1>5 DEF WriteBuf, WriteInt

(* A field at the end of a, in front of b, is read back.                   *)
LEMMA FieldFirst ==
  ASSUME NEW k \in DOMAIN Width, NEW v, NEW b, IsSeq(b)
  PROVE  Get(k, WriteInt(k, v) \o b, 1) = v /\ Fits(k, WriteInt(k, v) \o b, 1)
  <1>1. Width[k] \in Nat \ {0} /\ Len(b) \in Nat
    BY WidthsPositive DEF IsSeq
  <1>2. Part(WriteInt(k, v) \o b, 1, Width[k]) = WriteInt(k, v)
    BY <1>1, FieldReadBack, PartLeft, PartAll
  <1>3. Len(WriteInt(k, v) \o b) = Width[k] + Len(b)
    BY FieldReadBack, Concat
  <1>4. QED
    BY <1>1, <1>2, <1>3, FieldReadBack DEF Get, Fits

(* A field further on is one of what is there.                             *)
LEMMA FieldLater ==
  ASSUME NEW k \in DOMAIN Width, NEW a, NEW b, IsSeq(a), IsSeq(b), NEW i \in Nat \ {0},
         Fits(k, b, i)
  PROVE  /\ Get(k, a \o b, Len(a) + i) = Get(k, b, i)
         /\ Fits(k, a \o b, Len(a) + i)
  <1>1. Width[k] \in Nat \ {0} /\ Len(b) \in Nat /\ Len(a) \in Nat
    BY WidthsPositive DEF IsSeq
  <1>2. Len(a \o b) = Len(a) + Len(b)
    BY Concat
  <1>3. QED
    BY <1>1, <1>2, PartRight DEF Get, Fits

(* A field that lies wholly in the first of two.                           *)
LEMMA FieldEarlier ==
  ASSUME NEW k \in DOMAIN Width, NEW a, NEW b, IsSeq(a), IsSeq(b), NEW i \in Nat \ {0},
         Fits(k, a, i)
  PROVE  /\ Get(k, a \o b, i) = Get(k, a, i)
         /\ Fits(k, a \o b, i)
  <1>1. Width[k] \in Nat \ {0} /\ Len(b) \in Nat /\ Len(a) \in Nat
    BY WidthsPositive DEF IsSeq
  <1>2. Len(a \o b) = Len(a) + Len(b)
    BY Concat
  <1>3. QED
    BY <1>1, <1>2, PartLeft DEF Get, Fits

(* A field by itself.                                                      *)
LEMMA FieldWhole ==
  ASSUME NEW k \in DOMAIN Width, NEW v
  PROVE  Get(k, WriteInt(k, v), 1) = v /\ Fits(k, WriteInt(k, v), 1)
  <1>1. Width[k] \in Nat \ {0}
    BY WidthsPositive
  <1>2. QED
    BY <1>1, FieldReadBack, PartAll DEF Get, Fits

(* The field right behind a, of which nothing or more follows.             *)
LEMMA FieldNext ==
  ASSUME NEW k \in DOMAIN Width, NEW a, NEW b, IsSeq(a), IsSeq(b), NEW v,
         Get(k, b, 1) = v, Fits(k, b, 1), NEW s, s = a \o b
  PROVE  Get(k, s, Len(a) + 1) = v /\ Fits(k, s, Len(a) + 1)
  BY FieldLater

-----------------------------------------------------------------------------
(* Messages.  Each is read as what it is, or not at all.                   *)
LEMMA TypeReadBack ==
  ASSUME NEW t, NEW body, IsSeq(body), NEW T, T = WriteInt("type", t),
         NEW b, b = T \o body
  PROVE  Value("type", Part(b, 1, 1)) = t /\ Len(b) = 1 + Len(body) /\ IsSeq(b)
  <1>1. "type" \in DOMAIN Width /\ Width["type"] = 1
    BY WidthsPositive
  <1>2. Get("type", b, 1) = t
    BY <1>1, FieldFirst
  <1>3. IsSeq(WriteInt("type", t)) /\ Len(WriteInt("type", t)) = 1
    BY <1>1, FieldReadBack
  <1>4. Len(b) = 1 + Len(body) /\ IsSeq(b)
    BY <1>3, Concat
  <1>5. QED
    BY <1>1, <1>2, <1>4 DEF Get

LEMMA EmptyIsSeq == ASSUME NEW e, e = <<>> PROVE IsSeq(e) /\ Len(e) = 0
  BY EmptySeq DEF IsSeq

(* The two messages of a game (messages.cpp, START_GAME_PEER and MOVE).    *)
LEMMA StartReadBack ==
  ASSUME NEW m, m = [type |-> "START_GAME_PEER"]
  PROVE  /\ ReadMessage(Write(m)) \in {NULL, m}
         /\ IsSeq(Write(m)) /\ Len(Write(m)) = 1
  <1>1. Write(m) = WriteInt("type", "START_GAME_PEER") \o <<>>
    BY DEF Write, WritePlay
  <1>2. ASSUME NEW T, NEW e, NEW b, T = WriteInt("type", "START_GAME_PEER"), e = <<>>, b = T \o e
        PROVE  /\ Value("type", Part(b, 1, 1)) = "START_GAME_PEER" /\ Len(b) = 1 /\ IsSeq(b)
               /\ ReadMessage(b) \in {NULL, [type |-> "START_GAME_PEER"]}
    <2>1. IsSeq(e) /\ Len(e) = 0
      BY <1>2, EmptyIsSeq
    <2>2. Value("type", Part(b, 1, 1)) = "START_GAME_PEER" /\ Len(b) = 1 + Len(e) /\ IsSeq(b)
      <3>1. b = T \o e /\ T = WriteInt("type", "START_GAME_PEER") /\ IsSeq(e)
        BY <1>2, <2>1
      <3>2. QED
        BY <3>1, TypeReadBack
    <2>3. QED
      BY <2>1, <2>2 DEF ReadMessage, ReadPlay
  <1>3. QED
    BY <1>1, <1>2

LEMMA MoveReadBack ==
  ASSUME NEW k \in -128 .. 127, NEW m, m = [type |-> "MOVE", col |-> k]
  PROVE  /\ ReadMessage(Write(m)) \in {NULL, m}
         /\ IsSeq(Write(m)) /\ Len(Write(m)) = 2
  <1>1. Write(m) = WriteInt("type", "MOVE") \o WriteInt("u8", UInt8(k))
    BY DEF Write, WritePlay
  <1>2. Char(UInt8(k)) = k
    <2>1. 2^8 = 256 /\ 2^7 = 128
      OBVIOUS
    <2>2. QED
      BY <2>1 DEF Char, UInt8
  <1>3. ASSUME NEW T, NEW B, NEW b, T = WriteInt("type", "MOVE"),
               B = WriteInt("u8", UInt8(k)), b = T \o B
        PROVE  /\ Len(b) = 2 /\ IsSeq(b)
               /\ ReadMessage(b) \in {NULL, [type |-> "MOVE", col |-> k]}
    <2>0. "u8" \in DOMAIN Width /\ "type" \in DOMAIN Width /\ Width["u8"] = 1 /\ Width["type"] = 1
      BY WidthsPositive
    <2>1. IsSeq(B) /\ Len(B) = 1 /\ IsSeq(T) /\ Len(T) = 1
      BY <1>3, <2>0, FieldReadBack
    <2>2. Value("type", Part(b, 1, 1)) = "MOVE" /\ Len(b) = 1 + Len(B) /\ IsSeq(b)
      <3>1. T = WriteInt("type", "MOVE") /\ b = T \o B /\ IsSeq(B)
        BY <1>3, <2>1
      <3>2. QED
        BY <3>1, TypeReadBack
    <2>3. Get("u8", B, 1) = UInt8(k) /\ Fits("u8", B, 1)
      BY <1>3, <2>0, FieldWhole
    <2>4. Get("u8", b, 2) = UInt8(k)
      <3>1. Get("u8", b, Len(T) + 1) = UInt8(k)
        <4>1. b = T \o B /\ IsSeq(T) /\ IsSeq(B) /\ "u8" \in DOMAIN Width
          BY <1>3, <2>0, <2>1
        <4>2. QED
          BY <4>1, <2>3, FieldNext, ZenonT(30)
      <3>2. QED
        BY <2>1, <3>1
    <2>5. QED
      BY <1>2, <2>1, <2>2, <2>4 DEF ReadMessage, ReadPlay
  <1>4. QED
    BY <1>1, <1>3

(* An encrypted message: the ciphertext is all that is before the tag.     *)
LEMMA SecureReadBack ==
  ASSUME NEW ct, IsSeq(ct), NEW tag, NEW m,
         m = [type |-> "SECURE_MESSAGE", ct |-> ct, tag |-> tag]
  PROVE  /\ ReadMessage(Write(m)) \in {NULL, m} /\ IsSeq(Write(m))
         /\ "SECURE_MESSAGE" # Garbage => ReadMessage(Write(m)) = m
  <1>1. Write(m) = WriteInt("type", "SECURE_MESSAGE") \o (ct \o WriteInt("tag", tag))
    BY DEF Write, WriteSecure, WriteBuf, WriteInt
  <1>2. ASSUME NEW T, NEW G, NEW c, NEW b, T = WriteInt("type", "SECURE_MESSAGE"),
               G = WriteInt("tag", tag), c = ct \o G, b = T \o c
        PROVE  /\ ReadMessage(b) \in {NULL, [type |-> "SECURE_MESSAGE", ct |-> ct, tag |-> tag]}
               /\ "SECURE_MESSAGE" # Garbage
                    => ReadMessage(b) = [type |-> "SECURE_MESSAGE", ct |-> ct, tag |-> tag]
               /\ IsSeq(b)
    <2>1. /\ "tag" \in DOMAIN Width /\ "type" \in DOMAIN Width
          /\ Width["tag"] \in Nat \ {0} /\ Width["type"] = 1 /\ Len(ct) \in Nat
      BY WidthsPositive DEF IsSeq
    <2>2. IsSeq(G) /\ IsSeq(T)
      BY <1>2, <2>1, FieldReadBack
    <2>3. Len(T) = 1 /\ Len(G) = Width["tag"]
      BY <1>2, <2>1, FieldReadBack
    <2>4. IsSeq(c) /\ Len(c) = Len(ct) + Len(G)
      <3>1. c = ct \o G
        BY <1>2
      <3>2. QED
        BY <2>2, <3>1, Concat
    <2>5. Value("type", Part(b, 1, 1)) = "SECURE_MESSAGE" /\ Len(b) = 1 + Len(c) /\ IsSeq(b)
      <3>1. b = T \o c /\ T = WriteInt("type", "SECURE_MESSAGE") /\ IsSeq(c)
        BY <1>2, <2>4
      <3>2. QED
        BY <3>1, TypeReadBack
    <2>6. Part(b, 2, Len(ct)) = ct
      <3>1. Part(b, Len(T) + 1, Len(ct)) = Part(c, 1, Len(ct))
        <4>1. 1 + Len(ct) - 1 <= Len(c)
          BY <2>1, <2>3, <2>4
        <4>2. b = T \o c
          BY <1>2
        <4>3. QED
          BY <2>1, <2>2, <2>4, <4>1, <4>2, PartRight
      <3>2. Part(c, 1, Len(ct)) = Part(ct, 1, Len(ct))
        <4>1. 1 + Len(ct) - 1 <= Len(ct)
          BY <2>1
        <4>2. c = ct \o G
          BY <1>2
        <4>3. QED
          BY <2>1, <2>2, <4>1, <4>2, PartLeft
      <3>3. QED
        BY <2>3, <3>1, <3>2, PartAll
    <2>7. Get("tag", b, 2 + Len(ct)) = tag
      <3>1. Get("tag", G, 1) = tag /\ Fits("tag", G, 1)
        BY <1>2, <2>1, FieldWhole
      <3>2. Get("tag", c, Len(ct) + 1) = tag /\ Fits("tag", c, Len(ct) + 1)
        <4>1. c = ct \o G /\ IsSeq(G) /\ "tag" \in DOMAIN Width
          BY <1>2, <2>1, <2>2
        <4>2. QED
          BY <3>1, <4>1, FieldNext
      <3>3. Get("tag", b, Len(T) + (Len(ct) + 1)) = tag
        <4>1. /\ b = T \o c /\ Len(ct) + 1 \in Nat \ {0}
              /\ "tag" \in DOMAIN Width /\ IsSeq(T) /\ IsSeq(c)
          BY <1>2, <2>1, <2>2, <2>4
        <4>2. QED
          BY <3>2, <4>1, FieldLater
      <3>4. 1 + (Len(ct) + 1) = 2 + Len(ct)
        BY <2>1
      <3>5. QED
        BY <2>3, <3>3, <3>4
    <2>8. Len(b) - 1 - Width["tag"] = Len(ct)
      BY <2>1, <2>3, <2>4, <2>5
    <2>9. ReadSecure("SECURE_MESSAGE", b) = [type |-> "SECURE_MESSAGE", ct |-> ct, tag |-> tag]
      BY <2>1, <2>6, <2>7, <2>8 DEF ReadSecure
    <2>10. \/ "SECURE_MESSAGE" = Garbage /\ ReadMessage(b) = NULL
           \/ ReadMessage(b) = ReadSecure("SECURE_MESSAGE", b)
      BY <2>5 DEF ReadMessage
    <2>11. "SECURE_MESSAGE" # Garbage => ReadMessage(b) = ReadSecure("SECURE_MESSAGE", b)
      BY <2>10
    <2>12. QED
      BY <2>5, <2>9, <2>10, <2>11
  <1>3. QED
    BY <1>1, <1>2

(* A signature behind its size.                                            *)
HasDs(b, at, ds) ==
  /\ Get("u32", b, at) = Width["sig"] /\ Fits("u32", b, at)
  /\ Get("sig", b, at + 4) = ds /\ Fits("sig", b, at + 4)

LEMMA DsFound == ASSUME NEW b, NEW at, NEW ds, HasDs(b, at, ds) PROVE Ds(b, at) = ds
  BY DEF HasDs, Ds

LEMMA DsWritten ==
  ASSUME NEW ds
  PROVE  /\ IsSeq(WriteInt("u32", Width["sig"]) \o WriteInt("sig", ds))
         /\ HasDs(WriteInt("u32", Width["sig"]) \o WriteInt("sig", ds), 1, ds)
  <1>1. ASSUME NEW D, NEW S, NEW G, S = WriteInt("u32", Width["sig"]), G = WriteInt("sig", ds), D = S \o G
        PROVE  IsSeq(D) /\ HasDs(D, 1, ds)
    <2>1. /\ "u32" \in DOMAIN Width /\ "sig" \in DOMAIN Width /\ Width["u32"] = 4
      BY WidthsPositive
    <2>2. IsSeq(S) /\ IsSeq(G)
      BY <1>1, <2>1, FieldReadBack
    <2>3. Len(S) = 4
      BY <1>1, <2>1, FieldReadBack
    <2>4. Get("u32", D, 1) = Width["sig"] /\ Fits("u32", D, 1)
      <3>1. D = S \o G /\ S = WriteInt("u32", Width["sig"])
        BY <1>1
      <3>2. QED
        BY <2>1, <2>2, <3>1, FieldFirst
    <2>5. Get("sig", D, Len(S) + 1) = ds /\ Fits("sig", D, Len(S) + 1)
      <3>1. Get("sig", G, 1) = ds /\ Fits("sig", G, 1)
        BY <1>1, <2>1, FieldWhole
      <3>2. D = S \o G /\ IsSeq(S) /\ IsSeq(G) /\ "sig" \in DOMAIN Width
        BY <1>1, <2>1, <2>2
      <3>3. QED
        BY <3>1, <3>2, FieldNext
    <2>6. IsSeq(D)
      <3>1. D = S \o G
        BY <1>1
      <3>2. QED
        BY <2>2, <3>1, Concat
    <2>7. Len(S) + 1 = 1 + 4
      BY <2>3
    <2>8. QED
      BY <2>4, <2>5, <2>6, <2>7 DEF HasDs
  <1>2. QED
    BY <1>1

LEMMA DsLater ==
  ASSUME NEW a, NEW b, IsSeq(a), IsSeq(b), NEW i \in Nat \ {0}, NEW ds, HasDs(b, i, ds)
  PROVE  HasDs(a \o b, Len(a) + i, ds)
  <1>1. /\ "u32" \in DOMAIN Width /\ "sig" \in DOMAIN Width /\ Len(a) \in Nat
        /\ i + 4 \in Nat \ {0} /\ Len(a) + (i + 4) = Len(a) + i + 4
    BY WidthsPositive, SMTT(30) DEF IsSeq
  <1>2. Get("u32", a \o b, Len(a) + i) = Width["sig"] /\ Fits("u32", a \o b, Len(a) + i)
    BY <1>1, FieldLater DEF HasDs
  <1>3. Get("sig", a \o b, Len(a) + (i + 4)) = ds /\ Fits("sig", a \o b, Len(a) + (i + 4))
    BY <1>1, FieldLater DEF HasDs
  <1>4. QED
    BY <1>1, <1>2, <1>3 DEF HasDs

LEMMA DsEarlier ==
  ASSUME NEW a, NEW b, IsSeq(a), IsSeq(b), NEW i \in Nat \ {0}, NEW ds, HasDs(a, i, ds)
  PROVE  HasDs(a \o b, i, ds)
  <1>1. /\ "u32" \in DOMAIN Width /\ "sig" \in DOMAIN Width /\ i + 4 \in Nat \ {0}
    BY WidthsPositive
  <1>2. Get("u32", a \o b, i) = Width["sig"] /\ Fits("u32", a \o b, i)
    BY <1>1, FieldEarlier DEF HasDs
  <1>3. Get("sig", a \o b, i + 4) = ds /\ Fits("sig", a \o b, i + 4)
    BY <1>1, FieldEarlier DEF HasDs
  <1>4. QED
    BY <1>2, <1>3 DEF HasDs

(* The caller's proof of who it is.                                        *)
LEMMA VerifyReadBack ==
  ASSUME NEW ds, NEW m, m = [type |-> "CLIENT_VERIFY", ds |-> ds]
  PROVE  ReadMessage(Write(m)) \in {NULL, m}
  <1>1. Write(m) = WriteInt("type", "CLIENT_VERIFY")
                   \o (WriteInt("u32", Width["sig"]) \o WriteInt("sig", ds))
    BY DEF Write, WriteProof, WriteBuf, WriteInt
  <1>2. ASSUME NEW T, NEW D, NEW b, T = WriteInt("type", "CLIENT_VERIFY"),
               D = WriteInt("u32", Width["sig"]) \o WriteInt("sig", ds), b = T \o D
        PROVE  ReadMessage(b) \in {NULL, [type |-> "CLIENT_VERIFY", ds |-> ds]}
    <2>1. IsSeq(D) /\ HasDs(D, 1, ds)
      BY <1>2, DsWritten
    <2>2. Value("type", Part(b, 1, 1)) = "CLIENT_VERIFY"
      <3>1. b = T \o D /\ T = WriteInt("type", "CLIENT_VERIFY")
        BY <1>2
      <3>2. QED
        BY <2>1, <3>1, TypeReadBack
    <2>3. "type" \in DOMAIN Width /\ Width["type"] = 1
      BY WidthsPositive
    <2>4. IsSeq(T)
      BY <1>2, <2>3, FieldReadBack
    <2>5. Len(T) = 1
      BY <1>2, <2>3, FieldReadBack
    <2>6. HasDs(b, Len(T) + 1, ds)
      <3>1. b = T \o D
        BY <1>2
      <3>2. QED
        BY <2>1, <2>4, <3>1, DsLater
    <2>7. Ds(b, 2) = ds
      BY <2>5, <2>6, DsFound
    <2>8. QED
      BY <2>2, <2>7 DEF ReadMessage, ReadProof
  <1>3. QED
    BY <1>1, <1>2

(* The host's hello, as far as its type and signature go.                  *)
LEMMA NameIsSeq ==
  ASSUME NEW s PROVE IsSeq(WriteUsername(s)) /\ Len(WriteUsername(s)) = NameSize
  <1>1. NameSize \in Nat
    BY MessagesAssumption DEF NameSize
  <1> DEFINE W == WriteUsername(s)
  <1>2. W = [i \in 1 .. NameSize |-> W[i]]
    BY DEF WriteUsername, WriteChars
  <1> HIDE DEF W
  <1>3. IsSeq(W) /\ Len(W) = NameSize
    BY <1>1, <1>2, FunctionIsSeq
  <1>4. QED
    BY <1>3 DEF W

LEMMA Behind ==
  ASSUME NEW a, NEW b, IsSeq(a), IsSeq(b), NEW s, s = a \o b
  PROVE  IsSeq(s) /\ Len(s) = Len(a) + Len(b)
  BY Concat

LEMMA ServerHelloReadBack ==
  ASSUME NEW m, m.type = "SERVER_HELLO"
  PROVE  \/ ReadMessage(Write(m)) = NULL
         \/ /\ ReadMessage(Write(m)).type = "SERVER_HELLO"
            /\ ReadMessage(Write(m)).ds = m.ds
  <1> DEFINE T == WriteInt("type", "SERVER_HELLO")
             N == WriteInt("u32", m.nonce)
             U == WriteUsername(m.my_id)
             V == WriteUsername(m.other_id)
             D == WriteInt("u32", Width["sig"]) \o WriteInt("sig", m.ds)
             K == WriteInt("key", m.eph_key)
             NU == N \o U
             P == NU \o V
             PD == P \o D
             H == PD \o K
             b == T \o H
  <1>1. Write(m) = b
    BY DEF Write, WriteHello, WriteBuf, WriteInt
  <1>2. /\ T = WriteInt("type", "SERVER_HELLO") /\ N = WriteInt("u32", m.nonce)
        /\ U = WriteUsername(m.my_id) /\ V = WriteUsername(m.other_id)
        /\ K = WriteInt("key", m.eph_key)
    OBVIOUS
  <1>3. D = WriteInt("u32", Width["sig"]) \o WriteInt("sig", m.ds)
    OBVIOUS
  <1>4. NU = N \o U /\ P = NU \o V /\ PD = P \o D /\ H = PD \o K /\ b = T \o H
    OBVIOUS
  <1> HIDE DEF T, N, U, V, D, K, NU, P, PD, H, b
  <1>5. /\ "u32" \in DOMAIN Width /\ "key" \in DOMAIN Width /\ "type" \in DOMAIN Width
        /\ Width["u32"] = 4 /\ Width["type"] = 1
        /\ NameSize \in Nat
    BY WidthsPositive, MessagesAssumption DEF NameSize
  <1>6. IsSeq(T) /\ IsSeq(N) /\ IsSeq(U) /\ IsSeq(V) /\ IsSeq(K)
    BY <1>2, <1>5, FieldReadBack, NameIsSeq
  <1>7. Len(T) = 1 /\ Len(N) = 4 /\ Len(U) = NameSize /\ Len(V) = NameSize
    BY <1>2, <1>5, FieldReadBack, NameIsSeq
  <1>8. IsSeq(D) /\ HasDs(D, 1, m.ds)
    BY <1>3, DsWritten
  <1>10. IsSeq(NU) /\ Len(NU) = 4 + NameSize
    <2>1. IsSeq(N) /\ IsSeq(U) /\ NU = N \o U
      BY <1>6, <1>4
    <2>2. IsSeq(NU) /\ Len(NU) = Len(N) + Len(U)
      BY <2>1, Behind
    <2>3. QED
      BY <1>7, <2>2
  <1>11. IsSeq(P) /\ Len(P) = 4 + NameSize + NameSize
    <2>1. IsSeq(NU) /\ IsSeq(V) /\ P = NU \o V
      BY <1>6, <1>4, <1>10
    <2>2. IsSeq(P) /\ Len(P) = Len(NU) + Len(V)
      BY <2>1, Behind
    <2>3. QED
      BY <1>7, <1>10, <2>2
  <1>12. IsSeq(PD) /\ HasDs(PD, Len(P) + 1, m.ds)
    <2>1. IsSeq(P) /\ PD = P \o D
      BY <1>4, <1>11
    <2>2. IsSeq(PD)
      BY <1>8, <2>1, Concat
    <2>3. HasDs(PD, Len(P) + 1, m.ds)
      BY <1>8, <2>1, DsLater
    <2>4. QED
      BY <2>2, <2>3
  <1>13. IsSeq(H) /\ HasDs(H, Len(P) + 1, m.ds)
    <2>1. Len(P) + 1 \in Nat \ {0}
      BY <1>5, <1>11
    <2>2. H = PD \o K /\ IsSeq(K)
      BY <1>6, <1>4
    <2>3. IsSeq(H)
      BY <1>12, <2>2, Concat
    <2>4. HasDs(H, Len(P) + 1, m.ds)
      BY <1>12, <2>1, <2>2, DsEarlier
    <2>5. QED
      BY <2>3, <2>4
  <1>14. HasDs(b, Len(T) + (Len(P) + 1), m.ds)
    <2>1. Len(P) + 1 \in Nat \ {0}
      BY <1>5, <1>11
    <2>2. b = T \o H /\ IsSeq(T)
      BY <1>6, <1>4
    <2>3. QED
      BY <1>13, <2>1, <2>2, DsLater
  <1>15. Ds(b, DsAt) = m.ds
    <2>1. Len(T) + (Len(P) + 1) = DsAt
      BY <1>5, <1>7, <1>11 DEF DsAt
    <2>2. QED
      BY <1>14, <2>1, DsFound
  <1>16. Value("type", Part(b, 1, 1)) = "SERVER_HELLO"
    <2>1. b = T \o H /\ T = WriteInt("type", "SERVER_HELLO") /\ IsSeq(H)
      BY <1>2, <1>4, <1>13
    <2>2. QED
      BY <2>1, TypeReadBack
  <1>17. QED
    <2>1. ReadMessage(b) = NULL \/ ReadMessage(b) = ReadHello("SERVER_HELLO", b)
      BY <1>16 DEF ReadMessage
    <2>2. \/ ReadHello("SERVER_HELLO", b) = NULL
          \/ /\ ReadHello("SERVER_HELLO", b).type = "SERVER_HELLO"
             /\ ReadHello("SERVER_HELLO", b).ds = m.ds
      BY <1>15 DEF ReadHello
    <2>3. QED
      BY <1>1, <2>1, <2>2

(* The caller's hello: only its type is needed.                            *)
LEMMA ClientHelloReadBack ==
  ASSUME NEW m, m.type = "CLIENT_HELLO"
  PROVE  \/ ReadMessage(Write(m)) = NULL
         \/ ReadMessage(Write(m)).type = "CLIENT_HELLO"
  <1> DEFINE T == WriteInt("type", "CLIENT_HELLO")
             N == WriteInt("u32", m.nonce)
             U == WriteUsername(m.my_id)
             V == WriteUsername(m.other_id)
             e == <<>>
             K == WriteInt("key", m.eph_key)
             NU == N \o U
             P == NU \o V
             PE == P \o e
             H == PE \o K
             b == T \o H
  <1>1. Write(m) = b
    BY DEF Write, WriteHello, WriteBuf, WriteInt
  <1>2. T = WriteInt("type", "CLIENT_HELLO")
    OBVIOUS
  <1>3. IsSeq(N) /\ IsSeq(U) /\ IsSeq(V) /\ IsSeq(K) /\ IsSeq(e)
    <2>1. "u32" \in DOMAIN Width /\ "key" \in DOMAIN Width
      BY WidthsPositive
    <2>2. QED
      BY <2>1, FieldReadBack, NameIsSeq, EmptyIsSeq
  <1>4. NU = N \o U /\ P = NU \o V /\ PE = P \o e /\ H = PE \o K /\ b = T \o H
    OBVIOUS
  <1> HIDE DEF T, N, U, V, e, K, NU, P, PE, H, b
  <1>5. IsSeq(NU)
    BY <1>3, <1>4, Concat
  <1>6. IsSeq(P)
    BY <1>3, <1>4, <1>5, Concat
  <1>7. IsSeq(PE)
    BY <1>3, <1>4, <1>6, Concat
  <1>8. IsSeq(H)
    BY <1>3, <1>4, <1>7, Concat
  <1>9. Value("type", Part(b, 1, 1)) = "CLIENT_HELLO"
    BY <1>2, <1>4, <1>8, TypeReadBack
  <1>10. ReadMessage(b) = NULL \/ ReadMessage(b) = ReadHello("CLIENT_HELLO", b)
    BY <1>9 DEF ReadMessage
  <1>11. \/ ReadHello("CLIENT_HELLO", b) = NULL
         \/ ReadHello("CLIENT_HELLO", b).type = "CLIENT_HELLO"
    BY DEF ReadHello
  <1>12. QED
    BY <1>1, <1>10, <1>11

-----------------------------------------------------------------------------
(* Any message is its fields one behind the other, and each is found where *)
(* it lies.                                                                *)
Lies(s, b, i) == IsSeq(s) /\ i + Len(s) - 1 <= Len(b) /\ Part(b, i, Len(s)) = s

LEMMA LiesWhole == ASSUME NEW a, IsSeq(a) PROVE Lies(a, a, 1)
  <1>1. Len(a) \in Nat
    BY DEF IsSeq
  <1>2. QED
    BY <1>1, PartAll DEF Lies

LEMMA LiesLeft ==
  ASSUME NEW a, NEW x, IsSeq(a), IsSeq(x), NEW s, NEW i \in Nat \ {0}, Lies(s, a, i)
  PROVE  Lies(s, a \o x, i)
  <1>1. Len(s) \in Nat /\ Len(a) \in Nat /\ Len(x) \in Nat
    BY DEF IsSeq, Lies
  <1>2. Len(a \o x) = Len(a) + Len(x)
    BY Concat
  <1>3. i + Len(s) - 1 <= Len(a) /\ Part(a, i, Len(s)) = s /\ IsSeq(s)
    BY DEF Lies
  <1>4. Part(a \o x, i, Len(s)) = Part(a, i, Len(s))
    BY <1>1, <1>3, PartLeft
  <1>5. i + Len(s) - 1 <= Len(a \o x)
    BY <1>1, <1>2, <1>3
  <1>6. QED
    BY <1>3, <1>4, <1>5 DEF Lies

LEMMA LiesRight ==
  ASSUME NEW a, NEW x, IsSeq(a), IsSeq(x), NEW s, NEW i \in Nat \ {0}, Lies(s, x, i)
  PROVE  Lies(s, a \o x, Len(a) + i)
  <1>1. Len(s) \in Nat /\ Len(a) \in Nat /\ Len(x) \in Nat
    BY DEF IsSeq, Lies
  <1>2. Len(a \o x) = Len(a) + Len(x)
    BY Concat
  <1>3. i + Len(s) - 1 <= Len(x) /\ Part(x, i, Len(s)) = s /\ IsSeq(s)
    BY DEF Lies
  <1>4. Part(a \o x, Len(a) + i, Len(s)) = Part(x, i, Len(s))
    BY <1>1, <1>3, PartRight
  <1>5. Len(a) + i + Len(s) - 1 <= Len(a \o x)
    BY <1>1, <1>2, <1>3
  <1>6. QED
    BY <1>3, <1>4, <1>5 DEF Lies

(* The bytes b, when x is put behind a.                                    *)
LEMMA Appended ==
  ASSUME NEW a, NEW x, IsSeq(a), IsSeq(x), NEW b, b = a \o x, NEW n, n = Len(a) + 1
  PROVE  /\ IsSeq(b) /\ Len(b) = Len(a) + Len(x)
         /\ Lies(x, b, n)
         /\ \A s : \A i \in Nat \ {0} : Lies(s, a, i) => Lies(s, b, i)
  <1>1. IsSeq(b) /\ Len(b) = Len(a) + Len(x)
    BY Concat
  <1>2. Lies(x, b, Len(a) + 1)
    BY LiesWhole, LiesRight
  <1>3. QED
    BY <1>1, <1>2, LiesLeft

(* ... and when it is put behind a type.                                   *)
LEMMA BehindType ==
  ASSUME NEW t, NEW x, IsSeq(x), NEW b, b = WriteInt("type", t) \o x
  PROVE  /\ IsSeq(b) /\ Len(b) = 1 + Len(x)
         /\ Value("type", Part(b, 1, 1)) = t
         /\ Lies(x, b, 2)
         /\ \A s : \A i \in Nat \ {0} : Lies(s, x, i) => Lies(s, b, i + 1)
  <1> DEFINE T == WriteInt("type", t)
  <1>0. "type" \in DOMAIN Width /\ Width["type"] = 1
    BY WidthsPositive
  <1>1. IsSeq(T) /\ Len(T) = 1
    BY <1>0, FieldReadBack
  <1>2. T = WriteInt("type", t) /\ b = T \o x
    OBVIOUS
  <1> HIDE DEF T
  <1>3. Value("type", Part(b, 1, 1)) = t /\ Len(b) = 1 + Len(x) /\ IsSeq(b)
    BY <1>2, TypeReadBack
  <1>4. ASSUME NEW s, NEW i \in Nat \ {0}, Lies(s, x, i) PROVE Lies(s, b, i + 1)
    <2>1. Lies(s, T \o x, Len(T) + i)
      BY <1>1, <1>4, LiesRight
    <2>2. Len(T) + i = i + 1
      BY <1>1
    <2>3. QED
      BY <1>2, <2>1, <2>2
  <1>5. Lies(x, b, 2)
    <2>1. Lies(x, b, 1 + 1)
      BY <1>4, LiesWhole
    <2>2. QED
      BY <2>1
  <1>6. QED
    BY <1>3, <1>4, <1>5

LEMMA LiesField ==
  ASSUME NEW k \in DOMAIN Width, NEW v, NEW b, NEW i \in Nat \ {0}, Lies(WriteInt(k, v), b, i)
  PROVE  Get(k, b, i) = v /\ Fits(k, b, i)
  <1> DEFINE W == WriteInt(k, v)
  <1>1. Len(W) = Width[k] /\ Value(k, W) = v
    BY FieldReadBack
  <1>2. i + Len(W) - 1 <= Len(b) /\ Part(b, i, Len(W)) = W
    BY DEF Lies
  <1> HIDE DEF W
  <1>3. QED
    BY <1>1, <1>2 DEF Get, Fits

(* The first bytes of what lies at i.                                      *)
LEMMA LiesPart ==
  ASSUME NEW s, NEW b, IsSeq(b), NEW i \in Nat \ {0}, Lies(s, b, i), NEW n \in Nat, n <= Len(s)
  PROVE  Part(b, i, n) = Part(s, 1, n)
  <1>1. Len(s) \in Nat /\ i + Len(s) - 1 <= Len(b) /\ IsSeq(s) /\ Part(b, i, Len(s)) = s /\ Len(b) \in Nat
    BY DEF Lies, IsSeq
  <1>2. Part(b, i, Len(s)) = [j \in 1 .. Len(s) |-> b[j + i - 1]]
    BY <1>1, PartInside
  <1>3. \A j \in 1 .. Len(s) : s[j] = b[j + i - 1]
    <2> DEFINE f == [j \in 1 .. Len(s) |-> b[j + i - 1]]
    <2>1. s = f
      BY <1>1, <1>2
    <2>2. \A j \in 1 .. Len(s) : f[j] = b[j + i - 1]
      OBVIOUS
    <2> HIDE DEF f
    <2>3. QED
      BY <2>1, <2>2
  <1>4. i + n - 1 <= Len(b) /\ 1 + n - 1 <= Len(s)
    BY <1>1
  <1>5. Part(b, i, n) = [j \in 1 .. n |-> b[j + i - 1]]
    BY <1>1, <1>4, PartInside
  <1>6. Part(s, 1, n) = [j \in 1 .. n |-> s[j + 1 - 1]]
    <2> DEFINE one == 1
    <2>1. one \in Nat \ {0} /\ one + n - 1 <= Len(s)
      BY <1>4
    <2> HIDE DEF one
    <2>2. Part(s, one, n) = [j \in 1 .. n |-> s[j + one - 1]]
      BY <1>1, <2>1, PartInside
    <2>3. QED
      BY <2>2 DEF one
  <1>7. \A j \in 1 .. n : s[j + 1 - 1] = b[j + i - 1]
    BY <1>1, <1>3
  <1>8. [j \in 1 .. n |-> s[j + 1 - 1]] = [j \in 1 .. n |-> b[j + i - 1]]
    BY <1>7, Zenon
  <1>9. QED
    BY <1>5, <1>6, <1>8, Zenon

LEMMA LiesName ==
  ASSUME NEW s, NEW b, IsSeq(b), NEW i \in Nat \ {0}, Lies(WriteUsername(s), b, i)
  PROVE  ReadUsername(b, i) = ReadUsername(WriteUsername(s), 1)
  <1>1. /\ MAX_USERNAME_LENGTH \in Nat /\ MAX_USERNAME_LENGTH <= NameSize
        /\ Len(WriteUsername(s)) = NameSize
    BY NameIsSeq, MessagesAssumption DEF NameSize
  <1>2. Part(b, i, MAX_USERNAME_LENGTH) = Part(WriteUsername(s), 1, MAX_USERNAME_LENGTH)
    BY <1>1, LiesPart
  <1>3. QED
    BY <1>2 DEF ReadUsername

-----------------------------------------------------------------------------
(* Text ends before the first NUL.                                         *)
LEMMA TextIs ==
  ASSUME NEW s, IsSeq(s), NEW n \in Nat, n <= Len(s), \A i \in 1 .. n : s[i] # NUL,
         n = Len(s) \/ s[n + 1] = NUL
  PROVE  /\ IsSeq(Text(s)) /\ Len(Text(s)) = n
         /\ \A i \in 1 .. n : Text(s)[i] = s[i]
  <1> DEFINE I == {i \in 1 .. Len(s) : s[i] = NUL}
             end == SelectInSeq(s, LAMBDA ch : ch = NUL)
  <1>0. Len(s) \in Nat /\ s = [i \in 1 .. Len(s) |-> s[i]]
    BY DEF IsSeq
  <1>1. end = IF I # {} THEN Min(I) ELSE 0
    BY DEF SelectInSeq
  <1>2. Text(s) = IF end = 0 THEN s ELSE SubSeq(s, 1, end - 1)
    BY DEF Text
  <1>3. CASE n = Len(s)
    <2>1. I = {}
      BY <1>3
    <2>2. Text(s) = s
      BY <1>1, <1>2, <2>1
    <2>3. QED
      BY <1>3, <2>2
  <1>4. CASE n < Len(s)
    <2>1. n + 1 \in I /\ \A j \in I : n + 1 <= j
      BY <1>0, <1>4
    <2>2. Min(I) = n + 1
      BY <2>1 DEF Min
    <2> HIDE DEF I, end
    <2>3. end = n + 1
      BY <1>1, <2>1, <2>2
    <2>4. Text(s) = SubSeq(s, 1, n)
      BY <1>2, <2>3
    <2>5. SubSeq(s, 1, n) = [i \in 1 .. n |-> s[i]]
      <3>1. SubSeq(s, 1, n) = [i \in 1 .. (n - 1 + 1) |-> s[1 + i - 1]]
        OBVIOUS
      <3>2. n - 1 + 1 = n /\ \A i \in 1 .. n : 1 + i - 1 = i
        OBVIOUS
      <3>3. QED
        BY <3>1, <3>2
    <2>6. /\ Text(s) = [i \in 1 .. n |-> Text(s)[i]]
          /\ \A i \in 1 .. n : Text(s)[i] = s[i]
      BY <2>4, <2>5
    <2>7. QED
      BY <2>6, FunctionIsSeq
  <1>5. QED
    BY <1>0, <1>3, <1>4

(* There is such a place in every sequence.                                *)
LEMMA TextEnds ==
  ASSUME NEW s, IsSeq(s)
  PROVE  \E n \in Nat : /\ n <= Len(s) /\ \A i \in 1 .. n : s[i] # NUL
                        /\ n = Len(s) \/ s[n + 1] = NUL
  <1> DEFINE E == {n \in Nat : n <= Len(s) /\ (n = Len(s) \/ s[n + 1] = NUL)}
  <1>1. Len(s) \in E
    BY DEF IsSeq
  <1>2. PICK n \in E : \A k \in E : ~(<<k, n>> \in OpToRel(<, Nat))
    BY <1>1, NatLessThanWellFounded, WFMin, Zenon
  <1>3. ASSUME NEW i \in 1 .. n, s[i] = NUL PROVE FALSE
    <2>1. i - 1 \in E /\ i - 1 < n /\ n \in Nat
      BY <1>3 DEF IsSeq
    <2>2. <<i - 1, n>> \in OpToRel(<, Nat)
      BY <2>1 DEF OpToRel
    <2>3. QED
      BY <1>2, <2>1, <2>2
  <1>4. QED
    BY <1>3

(* A name is read as its first characters.                                 *)
LEMMA NameText ==
  ASSUME NEW S, NEW s \in Seq(S), NUL \notin S, NEW R, R = ReadUsername(WriteUsername(s), 1)
  PROVE  /\ IsSeq(R) /\ Len(R) = UsernameLength(s)
         /\ \A i \in 1 .. UsernameLength(s) : R[i] = s[i]
  <1> DEFINE n == UsernameLength(s)
             W == WriteUsername(s)
             P == Part(W, 1, MAX_USERNAME_LENGTH)
             C == ReadChars(P)
             M == MAX_USERNAME_LENGTH
  <1>0. M \in Nat /\ NameSize = M + 1 /\ Len(s) \in Nat /\ \A i \in 1 .. Len(s) : s[i] # NUL
    BY MessagesAssumption, LenProperties, ElementOfSeq DEF NameSize
  <1>1. n \in Nat /\ n <= M /\ n <= Len(s) /\ (n = M \/ n = Len(s))
    BY <1>0 DEF UsernameLength, Min
  <1>2. /\ IsSeq(W) /\ Len(W) = M + 1
        /\ \A i \in 1 .. M + 1 : W[i] = <<"char", 1, IF i <= n THEN s[i] ELSE NUL>>
    BY <1>0, NameIsSeq DEF WriteUsername, WriteChars
  <1> HIDE DEF W, n, M
  <1>3. /\ IsSeq(P) /\ Len(P) = M
        /\ \A i \in 1 .. M : P[i] = W[i]
    <2> DEFINE one == 1
    <2>1. one \in Nat \ {0} /\ one + M - 1 <= Len(W)
      BY <1>0, <1>2
    <2> HIDE DEF one
    <2>2. /\ Part(W, one, M) = [j \in 1 .. M |-> W[j + one - 1]]
          /\ IsSeq(Part(W, one, M)) /\ Len(Part(W, one, M)) = M
      BY <1>0, <1>2, <2>1, PartInside
    <2>3. \A j \in 1 .. M : j + 1 - 1 = j
      BY <1>0
    <2>4. QED
      BY <2>2, <2>3 DEF M, one
  <1> HIDE DEF P
  <1>4. /\ IsSeq(C) /\ Len(C) = M
        /\ \A i \in 1 .. M : C[i] = IF i <= n THEN s[i] ELSE NUL
    <2>1. DOMAIN P = 1 .. M
      BY <1>3 DEF IsSeq
    <2>2. C = [i \in 1 .. M |-> IF P[i][1] = "char" THEN P[i][3] ELSE Garbage]
      BY <2>1 DEF ReadChars
    <2>3. \A i \in 1 .. M : P[i] = <<"char", 1, IF i <= n THEN s[i] ELSE NUL>>
      BY <1>0, <1>2, <1>3
    <2>4. \A i \in 1 .. M : C[i] = IF i <= n THEN s[i] ELSE NUL
      BY <2>2, <2>3
    <2>5. C = [i \in 1 .. M |-> C[i]]
      BY <2>2
    <2> HIDE DEF C
    <2>6. QED
      BY <1>0, <2>4, <2>5, FunctionIsSeq
  <1>5. R = Text(C)
    BY DEF ReadUsername, W, P, M
  <1> HIDE DEF C
  <1>6. /\ n <= Len(C) /\ \A i \in 1 .. n : C[i] # NUL
        /\ n = Len(C) \/ C[n + 1] = NUL
    BY <1>0, <1>1, <1>4
  <1>7. /\ IsSeq(R) /\ Len(R) = n
        /\ \A i \in 1 .. n : R[i] = C[i]
    BY <1>1, <1>4, <1>5, <1>6, TextIs
  <1>8. QED
    BY <1>0, <1>1, <1>4, <1>7 DEF n

LEMMA NameSeen ==
  ASSUME NEW S, NEW s \in Seq(S), NUL \notin S
  PROVE  Part(ReadUsername(WriteUsername(s), 1), 1, MAX_USERNAME_LENGTH)
           = Part(s, 1, MAX_USERNAME_LENGTH)
  <1> DEFINE n == UsernameLength(s)
             R == ReadUsername(WriteUsername(s), 1)
             M == MAX_USERNAME_LENGTH
  <1>0. M \in Nat /\ Len(s) \in Nat /\ IsSeq(s)
    BY MessagesAssumption, LenProperties, SeqIsSeq
  <1>1. n \in Nat /\ n <= M /\ n <= Len(s) /\ Min({1 + M - 1, Len(s)}) = n
    BY <1>0 DEF UsernameLength, Min
  <1>2. IsSeq(R) /\ Len(R) = n /\ \A i \in 1 .. n : R[i] = s[i]
    BY NameText
  <1> HIDE DEF n, R, M
  <1>3. Min({1 + M - 1, Len(R)}) = n
    BY <1>0, <1>1, <1>2 DEF Min
  <1>4. Part(R, 1, M) = SubSeq(R, 1, n) /\ Part(s, 1, M) = SubSeq(s, 1, n)
    BY <1>1, <1>3 DEF Part
  <1>5. SubSeq(R, 1, n) = [i \in 1 .. n |-> R[i]] /\ SubSeq(s, 1, n) = [i \in 1 .. n |-> s[i]]
    <2>1. ASSUME NEW x, NEW k \in Nat PROVE SubSeq(x, 1, k) = [i \in 1 .. k |-> x[i]]
      <3>1. SubSeq(x, 1, k) = [i \in 1 .. (k - 1 + 1) |-> x[1 + i - 1]]
        OBVIOUS
      <3>2. k - 1 + 1 = k /\ \A i \in 1 .. k : 1 + i - 1 = i
        OBVIOUS
      <3>3. QED
        BY <3>1, <3>2
    <2>2. QED
      BY <1>1, <2>1
  <1>6. QED
    BY <1>2, <1>4, <1>5 DEF R, M

-----------------------------------------------------------------------------
(* Lists are padded, never cut, when they fit.                             *)
LEMMA RoundedUp ==
  ASSUME NEW k \in Nat \ {0}, NEW x \in Nat
  PROVE  (x \div k) * k \in Nat /\ x < (x \div k) * k + k
  <1>1. x = k * (x \div k) + (x % k) /\ x \div k \in Nat /\ 0 <= x % k /\ x % k < k
    OBVIOUS
  <1>2. k * (x \div k) = (x \div k) * k /\ k * (x \div k) \in Nat
    BY <1>1
  <1> DEFINE p == k * (x \div k)
  <1>3. x = p + (x % k) /\ p = (x \div k) * k /\ p \in Nat
    BY <1>1, <1>2
  <1>4. x % k \in Nat
    BY <1>1
  <1> HIDE DEF p
  <1>5. QED
    BY <1>1, <1>3, <1>4

LEMMA Sizes ==
  /\ NameSize \in Nat \ {0} /\ NameSize = MAX_USERNAME_LENGTH + 1
  /\ MAX_USERNAME_LENGTH \in Nat
  /\ NameSize * MAX_USERS \in Nat
  BY MessagesAssumption DEF NameSize

LEMMA Padded ==
  ASSUME NEW n \in Nat PROVE PaddedSize(n) \in Nat /\ n <= PaddedSize(n)
  <1> DEFINE x == n + MAX_USERNAME_LENGTH
             k == NameSize
             p == (x \div k) * k
  <1>1. x \in Nat /\ k \in Nat \ {0} /\ x + 1 = n + k
    BY Sizes
  <1>2. p = PaddedSize(n)
    BY DEF PaddedSize
  <1> HIDE DEF x, k
  <1>3. p \in Nat /\ x < p + k
    BY <1>1, RoundedUp
  <1> HIDE DEF p
  <1>4. QED
    BY <1>1, <1>2, <1>3

(* A list that fits, as it is written.                                     *)
LEMMA ListWritten ==
  ASSUME NEW s, IsSeq(s), Len(s) <= NameSize * MAX_USERS, NEW W, W = WriteUsernames(s)
  PROVE  /\ IsSeq(W) /\ Len(W) = PaddedSize(Len(s)) + 1
         /\ \A i \in 1 .. Len(W) : W[i] = <<"char", 1, IF i <= Len(s) THEN s[i] ELSE NUL>>
  <1> DEFINE n == Len(s)
             z == PaddedSize(n) + 1
             f == [i \in 1 .. z |-> <<"char", 1, IF i <= n THEN s[i] ELSE NUL>>]
  <1>1. n \in Nat
    BY DEF IsSeq
  <1>2. ListSize(s) = n
    BY <1>1, Sizes DEF ListSize, Min
  <1>3. W = f
    BY <1>2 DEF WriteUsernames, WriteChars
  <1>4. z \in Nat
    BY <1>1, Padded
  <1>5. W = [i \in 1 .. z |-> W[i]]
    BY <1>3
  <1>6. \A i \in 1 .. z : W[i] = <<"char", 1, IF i <= n THEN s[i] ELSE NUL>>
    BY <1>3
  <1> HIDE DEF z, n, f
  <1>7. IsSeq(W) /\ Len(W) = z
    BY <1>4, <1>5, FunctionIsSeq
  <1>8. QED
    BY <1>6, <1>7 DEF z, n

(* What there is of b from i, and no more.                                 *)
LEMMA PartClipped ==
  ASSUME NEW b, IsSeq(b), NEW i \in Nat \ {0}, NEW n \in Nat, NEW k \in Nat,
         i - 1 + k <= Len(b), k = n \/ (k < n /\ i - 1 + k = Len(b))
  PROVE  Part(b, i, n) = Part(b, i, k)
  <1>1. Len(b) \in Nat
    BY DEF IsSeq
  <1>2. CASE k = n
    BY <1>2
  <1>3. CASE k < n /\ i - 1 + k = Len(b)
    <2>1. Min({i + n - 1, Len(b)}) = Len(b) /\ Min({i + k - 1, Len(b)}) = Len(b)
      BY <1>1, <1>3 DEF Min
    <2>2. QED
      BY <2>1 DEF Part
  <1>4. QED
    BY <1>2, <1>3

LEMMA LiesList ==
  ASSUME NEW W, NEW b, IsSeq(b), Len(b) = 1 + Len(W), Lies(W, b, 2)
  PROVE  ReadUsernames(b, 2) = ReadUsernames(W, 1)
  <1> DEFINE N == NameSize * MAX_USERS
             k == IF N <= Len(W) THEN N ELSE Len(W)
  <1>0. N \in Nat /\ IsSeq(W) /\ Len(W) \in Nat
    BY Sizes DEF Lies, IsSeq
  <1>1. k \in Nat /\ k <= Len(W) /\ (k = N \/ (k < N /\ k = Len(W)))
    BY <1>0
  <1>2. N = NameSize * MAX_USERS
    OBVIOUS
  <1> HIDE DEF N, k
  <1>3. Part(b, 2, k) = Part(W, 1, k)
    BY <1>1, LiesPart
  <1>4. 2 - 1 + k <= Len(b) /\ (k = N \/ (k < N /\ 2 - 1 + k = Len(b)))
    BY <1>0, <1>1
  <1>5. Part(b, 2, N) = Part(b, 2, k)
    BY <1>0, <1>1, <1>4, PartClipped
  <1>6. 1 - 1 + k <= Len(W) /\ (k = N \/ (k < N /\ 1 - 1 + k = Len(W)))
    BY <1>0, <1>1
  <1>7. Part(W, 1, N) = Part(W, 1, k)
    BY <1>0, <1>1, <1>6, PartClipped
  <1>8. QED
    BY <1>2, <1>3, <1>5, <1>7 DEF ReadUsernames

(* Its text is that of the list.                                           *)
LEMMA ListSeen ==
  ASSUME NEW s, IsSeq(s), Len(s) <= NameSize * MAX_USERS
  PROVE  Text(ReadUsernames(WriteUsernames(s), 1)) = Text(s)
  <1> DEFINE W == WriteUsernames(s)
             N == NameSize * MAX_USERS
             k == IF N <= Len(W) THEN N ELSE Len(W)
             P == Part(W, 1, N)
             C == ReadChars(P)
  <1>0. N \in Nat /\ Len(s) \in Nat /\ Len(s) <= N
    BY Sizes DEF IsSeq
  <1>1. /\ IsSeq(W) /\ Len(W) = PaddedSize(Len(s)) + 1
        /\ \A i \in 1 .. Len(W) : W[i] = <<"char", 1, IF i <= Len(s) THEN s[i] ELSE NUL>>
    BY ListWritten
  <1>2. Len(W) \in Nat /\ Len(s) < Len(W)
    BY <1>0, <1>1, Padded
  <1>4. C = ReadUsernames(W, 1)
    BY DEF ReadUsernames
  <1> HIDE DEF W, N
  <1>5. /\ k \in Nat /\ k <= Len(W) /\ (k = N \/ (k < N /\ 1 - 1 + k = Len(W)))
        /\ Len(s) <= k
    BY <1>0, <1>2
  <1> HIDE DEF k
  <1>6. IsSeq(P) /\ Len(P) = k /\ \A i \in 1 .. k : P[i] = W[i]
    <2> DEFINE one == 1
    <2>1. one \in Nat \ {0} /\ one + k - 1 <= Len(W) /\ one - 1 + k <= Len(W)
          /\ (k = N \/ (k < N /\ one - 1 + k = Len(W)))
      BY <1>5, <1>2
    <2>2. P = Part(W, one, N)
      OBVIOUS
    <2> HIDE DEF one, P
    <2>3. P = Part(W, one, k)
      BY <1>0, <1>1, <1>5, <2>1, <2>2, PartClipped
    <2>4. /\ Part(W, one, k) = [j \in 1 .. k |-> W[j + one - 1]]
          /\ IsSeq(Part(W, one, k)) /\ Len(Part(W, one, k)) = k
      BY <1>1, <1>5, <2>1, PartInside
    <2>5. \A j \in 1 .. k : j + 1 - 1 = j
      BY <1>5
    <2>6. QED
      BY <2>3, <2>4, <2>5 DEF one
  <1> HIDE DEF P
  <1>7. IsSeq(C) /\ Len(C) = k /\ \A i \in 1 .. k : C[i] = IF i <= Len(s) THEN s[i] ELSE NUL
    <2>1. DOMAIN P = 1 .. k
      BY <1>6 DEF IsSeq
    <2>2. C = [i \in 1 .. k |-> IF P[i][1] = "char" THEN P[i][3] ELSE Garbage]
      BY <2>1 DEF ReadChars
    <2>3. \A i \in 1 .. k : P[i] = <<"char", 1, IF i <= Len(s) THEN s[i] ELSE NUL>>
      BY <1>1, <1>2, <1>5, <1>6
    <2>4. \A i \in 1 .. k : C[i] = IF i <= Len(s) THEN s[i] ELSE NUL
      BY <2>2, <2>3
    <2>5. C = [i \in 1 .. k |-> C[i]]
      BY <2>2
    <2> HIDE DEF C
    <2>6. QED
      BY <1>5, <2>4, <2>5, FunctionIsSeq
  <1> HIDE DEF C
  <1>8. PICK n \in Nat : /\ n <= Len(s) /\ \A i \in 1 .. n : s[i] # NUL
                         /\ n = Len(s) \/ s[n + 1] = NUL
    BY TextEnds
  <1>9. IsSeq(Text(s)) /\ Len(Text(s)) = n /\ \A i \in 1 .. n : Text(s)[i] = s[i]
    BY <1>8, TextIs
  <1>10. /\ n <= Len(C) /\ \A i \in 1 .. n : C[i] # NUL
         /\ n = Len(C) \/ C[n + 1] = NUL
    BY <1>0, <1>5, <1>7, <1>8
  <1>11. IsSeq(Text(C)) /\ Len(Text(C)) = n /\ \A i \in 1 .. n : Text(C)[i] = C[i]
    BY <1>7, <1>10, TextIs
  <1>12. \A i \in 1 .. n : Text(C)[i] = Text(s)[i]
    BY <1>0, <1>5, <1>7, <1>8, <1>9, <1>11
  <1>13. Text(C) = Text(s)
    BY <1>9, <1>11, <1>12, SameSeq
  <1>14. QED
    BY <1>4, <1>13 DEF W

(* What a receiver can see of a message is what its sender had.            *)
LEMMA SeenAsRead ==
  ASSUME NEW m, Sendable(m) PROVE Seen(AsRead(m)) = Seen(m)
  <1> DEFINE R == AsRead(m)
             names == {"username", "my_id", "other_id"}
  <1>1. DOMAIN R = DOMAIN m
        /\ \A f \in DOMAIN m : R[f] = CASE f \in names -> ReadUsername(WriteUsername(m[f]), 1)
                                     [] f = "usernames" -> ReadUsernames(WriteUsernames(m[f]), 1)
                                     [] OTHER -> m[f]
    BY DEF AsRead
  <1> HIDE DEF R
  <1> DEFINE S(x, f) == CASE f \in names -> Part(x[f], 1, MAX_USERNAME_LENGTH)
                          [] f = "usernames" -> Text(x[f])
                          [] OTHER -> x[f]
  <1>2. Seen(R) = [f \in DOMAIN m |-> S(R, f)] /\ Seen(m) = [f \in DOMAIN m |-> S(m, f)]
    BY <1>1 DEF Seen
  <1>3. ASSUME NEW f \in DOMAIN m PROVE S(R, f) = S(m, f)
    <2>1. CASE f \in names
      <3>1. m[f] \in Seq(Range(m[f]) \ {NUL}) /\ NUL \notin Range(m[f]) \ {NUL}
        BY <2>1 DEF Sendable
      <3>2. R[f] = ReadUsername(WriteUsername(m[f]), 1)
        BY <1>1, <2>1
      <3>3. Part(R[f], 1, MAX_USERNAME_LENGTH) = Part(m[f], 1, MAX_USERNAME_LENGTH)
        BY <3>1, <3>2, NameSeen
      <3>4. QED
        BY <2>1, <3>3
    <2>2. CASE f = "usernames"
      <3>1. m.type = "USERS_LIST"
        <4>1. m.type \in MessageType /\ "usernames" \in {"type"} \cup Fields(m.type)
          BY <2>2 DEF Sendable, IsMessage
        <4>2. QED
          BY <4>1 DEF MessageType, Fields, PlayFields, LobbyFields, ChannelFields
      <3>2. IsSeq(m[f]) /\ Len(m[f]) <= NameSize * MAX_USERS
        BY <2>2, <3>1, SeqIsSeq DEF Sendable
      <3>3. R[f] = ReadUsernames(WriteUsernames(m[f]), 1)
        BY <1>1, <2>2
      <3>4. Text(R[f]) = Text(m[f])
        BY <3>2, <3>3, ListSeen
      <3>5. QED
        BY <2>2, <3>4
    <2>3. CASE f \notin names /\ f # "usernames"
      BY <1>1, <2>3
    <2>4. QED
      BY <2>1, <2>2, <2>3
  <1> HIDE DEF S
  <1>4. [f \in DOMAIN m |-> S(R, f)] = [f \in DOMAIN m |-> S(m, f)]
    BY <1>3
  <1>5. QED
    BY <1>2, <1>4 DEF R

-----------------------------------------------------------------------------
(* Every message that is sent is read as what it is, all fields of it.     *)
Names == {"username", "my_id", "other_id"}

LEMMA IsAsRead ==
  ASSUME NEW m, NEW r, NEW D, DOMAIN m = D, r = [f \in D |-> r[f]],
         \A f \in D : /\ f \in Names => r[f] = ReadUsername(WriteUsername(m[f]), 1)
                      /\ f = "usernames" => r[f] = ReadUsernames(WriteUsernames(m[f]), 1)
                      /\ f \notin Names \cup {"usernames"} => r[f] = m[f]
  PROVE  r = AsRead(m)
  <1> DEFINE A == AsRead(m)
  <1>1. A = [f \in D |-> A[f]]
    BY DEF AsRead
  <1>2. ASSUME NEW f \in D PROVE r[f] = A[f]
    <2>1. CASE f \in Names
      BY <2>1 DEF AsRead, Names
    <2>2. CASE f = "usernames"
      BY <2>2 DEF AsRead
    <2>3. CASE f \notin Names \cup {"usernames"}
      BY <2>3 DEF AsRead, Names
    <2>4. QED
      BY <2>1, <2>2, <2>3
  <1> HIDE DEF A
  <1>3. [f \in D |-> r[f]] = [f \in D |-> A[f]]
    BY <1>2
  <1>4. QED
    BY <1>1, <1>3 DEF A

(* The fields that a message has.                                          *)
LEMMA FieldsAre ==
  ASSUME NEW m, IsMessage(m)
  PROVE  /\ m.type \in {"START_GAME_PEER", "GAME_END", "CERT_REQ"} => DOMAIN m = {"type"}
         /\ m.type = "MOVE" => DOMAIN m = {"type", "col"}
         /\ m.type \in {"REGISTER", "CHALLENGE", "CHALLENGE_FWD", "GAME_CANCEL"}
              => DOMAIN m = {"type", "username"}
         /\ m.type = "USERS_LIST" => DOMAIN m = {"type", "usernames"}
         /\ m.type = "USERS_LIST_REQ" => DOMAIN m = {"type", "offset"}
         /\ m.type = "CHALLENGE_RESP" => DOMAIN m = {"type", "username", "response", "listen_port"}
         /\ m.type = "GAME_START" => DOMAIN m = {"type", "username", "addr", "cert"}
         /\ m.type = "CLIENT_HELLO" => DOMAIN m = {"type", "eph_key", "nonce", "my_id", "other_id"}
         /\ m.type = "SERVER_HELLO"
              => DOMAIN m = {"type", "eph_key", "nonce", "my_id", "other_id", "ds"}
         /\ m.type = "CLIENT_VERIFY" => DOMAIN m = {"type", "ds"}
         /\ m.type = "CERTIFICATE" => DOMAIN m = {"type", "cert"}
  <1>1. DOMAIN m = {"type"} \cup Fields(m.type)
    BY DEF IsMessage
  <1>2. /\ Fields("START_GAME_PEER") = {} /\ Fields("GAME_END") = {} /\ Fields("CERT_REQ") = {}
        /\ Fields("MOVE") = {"col"} /\ Fields("USERS_LIST") = {"usernames"}
        /\ Fields("USERS_LIST_REQ") = {"offset"}
    BY DEF Fields, PlayFields, LobbyFields, ChannelFields
  <1>3. /\ Fields("REGISTER") = {"username"} /\ Fields("CHALLENGE") = {"username"}
        /\ Fields("CHALLENGE_FWD") = {"username"} /\ Fields("GAME_CANCEL") = {"username"}
    BY DEF Fields, PlayFields, LobbyFields, ChannelFields
  <1>4. /\ Fields("CHALLENGE_RESP") = {"username", "response", "listen_port"}
        /\ Fields("GAME_START") = {"username", "addr", "cert"}
    BY DEF Fields, PlayFields, LobbyFields, ChannelFields
  <1>5. /\ Fields("CLIENT_HELLO") = {"eph_key", "nonce", "my_id", "other_id"}
        /\ Fields("SERVER_HELLO") = {"eph_key", "nonce", "my_id", "other_id", "ds"}
        /\ Fields("CLIENT_VERIFY") = {"ds"} /\ Fields("CERTIFICATE") = {"cert"}
    BY DEF Fields, PlayFields, LobbyFields, ChannelFields
  <1>6. QED
    BY <1>1, <1>2, <1>3, <1>4, <1>5

Faithful(m) == ReadMessage(Write(m)) = AsRead(m) /\ IsSeq(Write(m))

(* Nothing but a type.                                                     *)
LEMMA BareReadBack ==
  ASSUME NEW m, Sendable(m), m.type # Garbage,
         m.type \in {"START_GAME_PEER", "GAME_END", "CERT_REQ"}
  PROVE  Faithful(m)
  <1> DEFINE b == Write(m)
             e == <<>>
             t == m.type
             r == [type |-> t]
  <1>1. b = WriteInt("type", t) \o e
    BY DEF Write, WritePlay, WriteRequest, WriteProof
  <1>2. IsSeq(e)
    BY EmptyIsSeq
  <1> HIDE DEF b, e
  <1>3. IsSeq(b) /\ Value("type", Part(b, 1, 1)) = t
    BY <1>1, <1>2, BehindType
  <1>4. ReadMessage(b) = r
    BY <1>3 DEF ReadMessage, ReadPlay, ReadRequest, ReadProof
  <1>5. DOMAIN m = {"type"}
    BY FieldsAre DEF Sendable
  <1>6. r = AsRead(m)
    <2>1. r = [f \in {"type"} |-> r[f]] /\ r["type"] = m["type"]
      OBVIOUS
    <2> HIDE DEF r
    <2>2. QED
      BY <1>5, <2>1, IsAsRead DEF Names
  <1>7. QED
    BY <1>3, <1>4, <1>6 DEF b, Faithful

(* A column, as a signed char.                                             *)
LEMMA CharOfUInt8 ==
  ASSUME NEW k \in -128 .. 127 PROVE Char(UInt8(k)) = k
  <1>1. 2^8 = 256 /\ 2^7 = 128
    OBVIOUS
  <1>2. QED
    BY <1>1 DEF Char, UInt8

LEMMA ColumnReadBack ==
  ASSUME NEW m, Sendable(m), m.type # Garbage, m.type = "MOVE"
  PROVE  Faithful(m)
  <1> DEFINE b == Write(m)
             B == WriteInt("u8", UInt8(m.col))
             r == [type |-> "MOVE", col |-> m.col]
  <1>0. "u8" \in DOMAIN Width
    BY WidthsPositive
  <1>1. b = WriteInt("type", "MOVE") \o B
    BY DEF Write, WritePlay
  <1>2. IsSeq(B) /\ Lies(B, B, 1)
    BY <1>0, FieldReadBack, LiesWhole
  <1>3. B = WriteInt("u8", UInt8(m.col))
    OBVIOUS
  <1> HIDE DEF b, B
  <1>4. IsSeq(b) /\ Value("type", Part(b, 1, 1)) = "MOVE" /\ Lies(B, b, 2)
    BY <1>1, <1>2, BehindType
  <1>5. Get("u8", b, 2) = UInt8(m.col) /\ Fits("u8", b, 2)
    BY <1>0, <1>3, <1>4, LiesField
  <1>6. Char(Get("u8", b, 2)) = m.col
    <2>1. m.col \in -128 .. 127
      BY DEF Sendable
    <2>2. QED
      BY <1>5, <2>1, CharOfUInt8
  <1>7. ReadMessage(b) = r
    BY <1>4, <1>5, <1>6 DEF ReadMessage, ReadPlay
  <1>8. DOMAIN m = {"type", "col"}
    BY FieldsAre DEF Sendable
  <1>9. r = AsRead(m)
    <2>1. r = [f \in {"type", "col"} |-> r[f]] /\ r["type"] = m["type"] /\ r["col"] = m["col"]
      OBVIOUS
    <2> HIDE DEF r
    <2>2. QED
      BY <1>8, <2>1, IsAsRead DEF Names
  <1>10. QED
    BY <1>4, <1>7, <1>9 DEF b, Faithful

(* Nothing but a name.                                                     *)
LEMMA NamedReadBack ==
  ASSUME NEW m, Sendable(m), m.type # Garbage,
         m.type \in {"REGISTER", "CHALLENGE", "CHALLENGE_FWD", "GAME_CANCEL"}
  PROVE  Faithful(m)
  <1> DEFINE b == Write(m)
             U == WriteUsername(m.username)
             t == m.type
             r == [type |-> t, username |-> ReadUsername(b, 2)]
  <1>1. b = WriteInt("type", t) \o U
    BY DEF Write, WriteRequest, WriteAnswer
  <1>2. IsSeq(U) /\ Lies(U, U, 1)
    BY NameIsSeq, LiesWhole
  <1>3. U = WriteUsername(m.username)
    OBVIOUS
  <1> HIDE DEF b, U
  <1>4. IsSeq(b) /\ Value("type", Part(b, 1, 1)) = t /\ Lies(U, b, 2)
    BY <1>1, <1>2, BehindType
  <1>5. ReadUsername(b, 2) = ReadUsername(U, 1)
    BY <1>3, <1>4, LiesName
  <1>6. ReadMessage(b) = r
    BY <1>4 DEF ReadMessage, ReadRequest, ReadAnswer
  <1>7. DOMAIN m = {"type", "username"}
    BY FieldsAre DEF Sendable
  <1>8. r = AsRead(m)
    <2>1. r = [f \in {"type", "username"} |-> r[f]] /\ r["type"] = m["type"]
          /\ r["username"] = ReadUsername(U, 1)
      BY <1>5
    <2> HIDE DEF r
    <2>2. QED
      BY <1>3, <1>7, <2>1, IsAsRead DEF Names
  <1>9. QED
    BY <1>4, <1>6, <1>8 DEF b, Faithful

(* A list of users, and what asks for one.                                 *)
LEMMA ListReadBack ==
  ASSUME NEW m, Sendable(m), m.type # Garbage, m.type = "USERS_LIST"
  PROVE  Faithful(m)
  <1> DEFINE b == Write(m)
             W == WriteUsernames(m.usernames)
             r == [type |-> "USERS_LIST", usernames |-> ReadUsernames(b, 2)]
  <1>1. b = WriteInt("type", "USERS_LIST") \o W
    BY DEF Write, WriteRequest
  <1>2. IsSeq(m.usernames) /\ Len(m.usernames) <= NameSize * MAX_USERS
    BY SeqIsSeq DEF Sendable
  <1>3. W = WriteUsernames(m.usernames)
    OBVIOUS
  <1> HIDE DEF b, W
  <1>4. IsSeq(W) /\ Lies(W, W, 1) /\ Len(W) \in Nat /\ Len(W) >= 1
    <2>1. IsSeq(W) /\ Len(W) = PaddedSize(Len(m.usernames)) + 1
      BY <1>2, <1>3, ListWritten
    <2>2. Len(m.usernames) \in Nat
      BY <1>2 DEF IsSeq
    <2>3. QED
      BY <2>1, <2>2, LiesWhole, Padded
  <1>5. IsSeq(b) /\ Value("type", Part(b, 1, 1)) = "USERS_LIST" /\ Lies(W, b, 2)
        /\ Len(b) = 1 + Len(W)
    BY <1>1, <1>4, BehindType
  <1>6. ReadUsernames(b, 2) = ReadUsernames(W, 1)
    BY <1>5, LiesList
  <1>7. ReadMessage(b) = r
    BY <1>4, <1>5 DEF ReadMessage, ReadRequest
  <1>8. DOMAIN m = {"type", "usernames"}
    BY FieldsAre DEF Sendable
  <1>9. r = AsRead(m)
    <2>1. r = [f \in {"type", "usernames"} |-> r[f]] /\ r["type"] = m["type"]
          /\ r["usernames"] = ReadUsernames(W, 1)
      BY <1>6
    <2> HIDE DEF r
    <2>2. QED
      BY <1>3, <1>8, <2>1, IsAsRead DEF Names
  <1>10. QED
    BY <1>5, <1>7, <1>9 DEF b, Faithful

(* One field of fixed width.                                               *)
LEMMA OffsetReadBack ==
  ASSUME NEW m, Sendable(m), m.type # Garbage, m.type = "USERS_LIST_REQ"
  PROVE  Faithful(m)
  <1> DEFINE b == Write(m)
             B == WriteInt("u32", m.offset)
             r == [type |-> "USERS_LIST_REQ", offset |-> m.offset]
  <1>0. "u32" \in DOMAIN Width
    BY WidthsPositive
  <1>1. b = WriteInt("type", "USERS_LIST_REQ") \o B
    BY DEF Write, WriteRequest
  <1>2. IsSeq(B) /\ Lies(B, B, 1)
    BY <1>0, FieldReadBack, LiesWhole
  <1>3. B = WriteInt("u32", m.offset)
    OBVIOUS
  <1> HIDE DEF b, B
  <1>4. IsSeq(b) /\ Value("type", Part(b, 1, 1)) = "USERS_LIST_REQ" /\ Lies(B, b, 2)
    BY <1>1, <1>2, BehindType
  <1>5. Get("u32", b, 2) = m.offset /\ Fits("u32", b, 2)
    BY <1>0, <1>3, <1>4, LiesField
  <1>7. ReadMessage(b) = r
    BY <1>4, <1>5 DEF ReadMessage, ReadRequest
  <1>8. DOMAIN m = {"type", "offset"}
    BY FieldsAre DEF Sendable
  <1>9. r = AsRead(m)
    <2>1. r = [f \in {"type", "offset"} |-> r[f]] /\ r["type"] = m["type"] /\ r["offset"] = m["offset"]
      OBVIOUS
    <2> HIDE DEF r
    <2>2. QED
      BY <1>8, <2>1, IsAsRead DEF Names
  <1>10. QED
    BY <1>4, <1>7, <1>9 DEF b, Faithful

LEMMA CertificateReadBack ==
  ASSUME NEW m, Sendable(m), m.type # Garbage, m.type = "CERTIFICATE"
  PROVE  Faithful(m)
  <1> DEFINE b == Write(m)
             B == WriteInt("cert", m.cert)
             r == [type |-> "CERTIFICATE", cert |-> m.cert]
  <1>0. "cert" \in DOMAIN Width
    BY WidthsPositive
  <1>1. b = WriteInt("type", "CERTIFICATE") \o B
    BY DEF Write, WriteProof, WriteBuf, WriteInt
  <1>2. IsSeq(B) /\ Lies(B, B, 1)
    BY <1>0, FieldReadBack, LiesWhole
  <1>3. B = WriteInt("cert", m.cert)
    OBVIOUS
  <1> HIDE DEF b, B
  <1>4. IsSeq(b) /\ Value("type", Part(b, 1, 1)) = "CERTIFICATE" /\ Lies(B, b, 2)
    BY <1>1, <1>2, BehindType
  <1>5. Get("cert", b, 2) = m.cert /\ Fits("cert", b, 2)
    BY <1>0, <1>3, <1>4, LiesField
  <1>7. ReadMessage(b) = r
    BY <1>4, <1>5 DEF ReadMessage, ReadProof
  <1>8. DOMAIN m = {"type", "cert"}
    BY FieldsAre DEF Sendable
  <1>9. r = AsRead(m)
    <2>1. r = [f \in {"type", "cert"} |-> r[f]] /\ r["type"] = m["type"] /\ r["cert"] = m["cert"]
      OBVIOUS
    <2> HIDE DEF r
    <2>2. QED
      BY <1>8, <2>1, IsAsRead DEF Names
  <1>10. QED
    BY <1>4, <1>7, <1>9 DEF b, Faithful

(* The proof of who one is: a signature behind its size.                   *)
LEMMA ProofReadBack ==
  ASSUME NEW m, Sendable(m), m.type # Garbage, m.type = "CLIENT_VERIFY"
  PROVE  Faithful(m)
  <1> DEFINE b == Write(m)
             D == WriteInt("u32", Width["sig"]) \o WriteInt("sig", m.ds)
             T == WriteInt("type", "CLIENT_VERIFY")
             r == [type |-> "CLIENT_VERIFY", ds |-> m.ds]
  <1>0. "type" \in DOMAIN Width /\ Width["type"] = 1
    BY WidthsPositive
  <1>1. b = T \o D /\ b = WriteInt("type", "CLIENT_VERIFY") \o D
    BY DEF Write, WriteProof, WriteBuf, WriteInt
  <1>2. IsSeq(D) /\ HasDs(D, 1, m.ds)
    BY DsWritten
  <1>3. IsSeq(T) /\ Len(T) = 1
    BY <1>0, FieldReadBack
  <1> HIDE DEF b, D, T
  <1>4. IsSeq(b) /\ Value("type", Part(b, 1, 1)) = "CLIENT_VERIFY"
    BY <1>1, <1>2, BehindType
  <1>5. HasDs(b, Len(T) + 1, m.ds)
    <2>1. b = T \o D /\ IsSeq(T)
      BY <1>1, <1>3
    <2>2. QED
      BY <1>2, <2>1, DsLater
  <1>6. Ds(b, 2) = m.ds
    BY <1>3, <1>5, DsFound
  <1>7. DOMAIN m = {"type", "ds"}
    BY FieldsAre DEF Sendable
  <1>8. m.ds # NULL
    BY <1>7 DEF Sendable
  <1>9. ReadMessage(b) = r
    BY <1>4, <1>6, <1>8 DEF ReadMessage, ReadProof
  <1>10. r = AsRead(m)
    <2>1. r = [f \in {"type", "ds"} |-> r[f]] /\ r["type"] = m["type"] /\ r["ds"] = m["ds"]
      OBVIOUS
    <2> HIDE DEF r
    <2>2. QED
      BY <1>7, <2>1, IsAsRead DEF Names
  <1>11. QED
    BY <1>4, <1>9, <1>10 DEF b, Faithful

(* What lies in what lies in b.                                            *)
LEMMA LiesWithin ==
  ASSUME NEW s, NEW x, NEW b, IsSeq(b), NEW i \in Nat \ {0}, NEW j \in Nat \ {0},
         Lies(s, x, i), Lies(x, b, j)
  PROVE  Lies(s, b, i + j - 1)
  <1> DEFINE k == i + j - 1
  <1>1. /\ Len(s) \in Nat /\ IsSeq(s) /\ i + Len(s) - 1 <= Len(x) /\ Part(x, i, Len(s)) = s
        /\ Len(x) \in Nat /\ IsSeq(x) /\ j + Len(x) - 1 <= Len(b) /\ Part(b, j, Len(x)) = x
        /\ Len(b) \in Nat
    BY DEF Lies, IsSeq
  <1>2. k \in Nat \ {0} /\ k + Len(s) - 1 <= Len(b) /\ k = i + j - 1
    BY <1>1
  <1> HIDE DEF k
  <1>3. \A n \in 1 .. Len(x) : x[n] = b[n + j - 1]
    <2> DEFINE l == Len(x)
               f == [n \in 1 .. l |-> b[n + j - 1]]
    <2>1. l \in Nat /\ j + l - 1 <= Len(b) /\ Part(b, j, l) = x
      BY <1>1
    <2>2. \A n \in 1 .. l : f[n] = b[n + j - 1]
      OBVIOUS
    <2> HIDE DEF l
    <2>3. x = f
      BY <2>1, PartInside
    <2> HIDE DEF f
    <2>4. QED
      BY <2>2, <2>3 DEF l
  <1>4. s = [n \in 1 .. Len(s) |-> x[n + i - 1]]
    <2> DEFINE l == Len(s)
    <2>1. l \in Nat /\ i + l - 1 <= Len(x) /\ Part(x, i, l) = s /\ IsSeq(x)
      BY <1>1
    <2> HIDE DEF l
    <2>2. Part(x, i, l) = [n \in 1 .. l |-> x[n + i - 1]]
      BY <2>1, PartInside
    <2>3. QED
      BY <2>1, <2>2 DEF l
  <1>5. ASSUME NEW n \in 1 .. Len(s) PROVE x[n + i - 1] = b[n + k - 1]
    <2> DEFINE l == n + i - 1
    <2>1. l \in 1 .. Len(x) /\ l + j - 1 = n + k - 1
      BY <1>1, <1>2
    <2> HIDE DEF l
    <2>2. x[l] = b[l + j - 1]
      BY <1>3, <2>1
    <2>3. QED
      BY <2>1, <2>2 DEF l
  <1>6. [n \in 1 .. Len(s) |-> x[n + i - 1]] = [n \in 1 .. Len(s) |-> b[n + k - 1]]
    BY <1>5, Zenon
  <1>7. Part(b, k, Len(s)) = [n \in 1 .. Len(s) |-> b[n + k - 1]]
    <2> DEFINE l == Len(s)
    <2>1. l \in Nat /\ k \in Nat \ {0} /\ k + l - 1 <= Len(b)
      BY <1>1, <1>2
    <2> HIDE DEF l
    <2>2. Part(b, k, l) = [n \in 1 .. l |-> b[n + k - 1]]
      BY <2>1, PartInside
    <2>3. QED
      BY <2>2 DEF l
  <1>8. QED
    BY <1>1, <1>2, <1>4, <1>6, <1>7, Zenon DEF Lies, k

(* Three pieces one behind the other.                                      *)
ThreeIn(b, at, A, B, C) ==
  /\ Lies(A, b, at) /\ Lies(B, b, at + Len(A)) /\ Lies(C, b, at + (Len(A) + Len(B)))

LEMMA ThreePieces ==
  ASSUME NEW A, NEW B, NEW C, IsSeq(A), IsSeq(B), IsSeq(C), NEW x, x = (A \o B) \o C
  PROVE  /\ IsSeq(x) /\ Len(x) = Len(A) + Len(B) + Len(C)
         /\ ThreeIn(x, 1, A, B, C)
  <1>0. Len(A) \in Nat /\ Len(B) \in Nat /\ Len(C) \in Nat
    BY DEF IsSeq
  <1> DEFINE y == A \o B
             j == Len(A) + 1
             k == Len(y) + 1
  <1>1. y = A \o B /\ x = y \o C /\ j = Len(A) + 1 /\ k = Len(y) + 1
    OBVIOUS
  <1> HIDE DEF y, j, k
  <1>2. IsSeq(y) /\ Len(y) = Len(A) + Len(B) /\ Lies(B, y, j)
    BY <1>1, Appended
  <1>3. Lies(A, y, 1)
    BY <1>1, LiesWhole, LiesLeft
  <1>4. IsSeq(x) /\ Len(x) = Len(y) + Len(C) /\ Lies(C, x, k)
    BY <1>1, <1>2, Appended
  <1>5. Lies(A, x, 1) /\ Lies(B, x, j)
    <2>1. j \in Nat \ {0}
      BY <1>0, <1>1
    <2>2. QED
      BY <1>1, <1>2, <1>3, <2>1, LiesLeft
  <1>6. j = 1 + Len(A) /\ k = 1 + (Len(A) + Len(B))
    BY <1>0, <1>1, <1>2
  <1>7. QED
    BY <1>0, <1>2, <1>4, <1>5, <1>6 DEF ThreeIn

LEMMA ThreeWithin ==
  ASSUME NEW A, NEW B, NEW C, NEW x, NEW b, IsSeq(b), NEW i \in Nat \ {0}, Lies(x, b, i),
         ThreeIn(x, 1, A, B, C)
  PROVE  ThreeIn(b, i, A, B, C)
  <1>0. Len(A) \in Nat /\ Len(B) \in Nat
    BY DEF IsSeq, Lies, ThreeIn
  <1> DEFINE one == 1
             j == 1 + Len(A)
             k == 1 + (Len(A) + Len(B))
             l == i + Len(A)
             n == i + (Len(A) + Len(B))
  <1>1. Lies(A, x, one) /\ Lies(B, x, j) /\ Lies(C, x, k)
    BY DEF ThreeIn
  <1>2. /\ one \in Nat \ {0} /\ j \in Nat \ {0} /\ k \in Nat \ {0}
        /\ i = one + i - 1 /\ l = j + i - 1 /\ n = k + i - 1
    BY <1>0
  <1>3. l = i + Len(A) /\ n = i + (Len(A) + Len(B))
    OBVIOUS
  <1> HIDE DEF one, j, k, l, n
  <1>4. Lies(A, b, i)
    BY <1>1, <1>2, LiesWithin
  <1>5. Lies(B, b, l)
    BY <1>1, <1>2, LiesWithin
  <1>6. Lies(C, b, n)
    BY <1>1, <1>2, LiesWithin
  <1>7. QED
    BY <1>3, <1>4, <1>5, <1>6 DEF ThreeIn

LEMMA TypeAndThree ==
  ASSUME NEW t, NEW A, NEW B, NEW C, IsSeq(A), IsSeq(B), IsSeq(C),
         NEW x, x = (A \o B) \o C, NEW b, b = WriteInt("type", t) \o x
  PROVE  IsSeq(x) /\ ThreeIn(b, 2, A, B, C)
  <1>2. IsSeq(x) /\ ThreeIn(x, 1, A, B, C)
    BY ThreePieces
  <1>3. IsSeq(b) /\ Lies(x, b, 2)
    BY <1>2, BehindType
  <1>4. QED
    BY <1>2, <1>3, ThreeWithin

(* An acceptance or a rejection: two fields of fixed width and a name.     *)
LEMMA AnswerReadBack ==
  ASSUME NEW m, Sendable(m), m.type # Garbage, m.type = "CHALLENGE_RESP"
  PROVE  Faithful(m)
  <1> DEFINE b == Write(m)
             R == WriteInt("bool", m.response)
             P == WriteInt("u16", m.listen_port)
             U == WriteUsername(m.username)
             x == (R \o P) \o U
             r == [type |-> "CHALLENGE_RESP", response |-> m.response,
                   listen_port |-> m.listen_port, username |-> ReadUsername(U, 1)]
  <1>0. "bool" \in DOMAIN Width /\ "u16" \in DOMAIN Width /\ Width["bool"] = 1 /\ Width["u16"] = 2
    BY DEF Width
  <1>1. b = WriteInt("type", "CHALLENGE_RESP") \o x
    BY DEF Write, WriteAnswer
  <1>2. x = (R \o P) \o U
    OBVIOUS
  <1>3. R = WriteInt("bool", m.response) /\ P = WriteInt("u16", m.listen_port)
        /\ U = WriteUsername(m.username)
    OBVIOUS
  <1>4. IsSeq(R) /\ IsSeq(P) /\ IsSeq(U)
    BY <1>0, FieldReadBack, NameIsSeq
  <1>5. Len(R) = 1 /\ Len(P) = 2
    BY <1>0, FieldReadBack
  <1> HIDE DEF b, x, R, P, U
  <1>6. IsSeq(x) /\ ThreeIn(b, 2, R, P, U)
    BY <1>1, <1>2, <1>4, TypeAndThree
  <1>13. IsSeq(b) /\ Value("type", Part(b, 1, 1)) = "CHALLENGE_RESP"
    BY <1>1, <1>6, BehindType
  <1>7. Lies(R, b, 2) /\ Lies(P, b, 3) /\ Lies(U, b, 5)
    BY <1>5, <1>6 DEF ThreeIn
  <1>8. /\ Get("bool", b, 2) = m.response /\ Fits("bool", b, 2)
        /\ Get("u16", b, 3) = m.listen_port /\ Fits("u16", b, 3)
        /\ ReadUsername(b, 5) = ReadUsername(U, 1)
    BY <1>0, <1>3, <1>13, <1>7, LiesField, LiesName
  <1>9. ReadMessage(b) = r
    BY <1>13, <1>8 DEF ReadMessage, ReadAnswer
  <1>10. DOMAIN m = {"type", "username", "response", "listen_port"}
    BY FieldsAre DEF Sendable
  <1>11. r = AsRead(m)
    <2>1. /\ r = [f \in {"type", "username", "response", "listen_port"} |-> r[f]]
          /\ r["type"] = m["type"] /\ r["response"] = m["response"]
          /\ r["listen_port"] = m["listen_port"] /\ r["username"] = ReadUsername(U, 1)
      OBVIOUS
    <2> HIDE DEF r
    <2>2. QED
      BY <1>3, <1>10, <2>1, IsAsRead DEF Names
  <1>12. QED
    BY <1>13, <1>9, <1>11 DEF b, Faithful

(* The start of a game: address, name and certificate of the opponent.     *)
LEMMA GameStartReadBack ==
  ASSUME NEW m, Sendable(m), m.type # Garbage, m.type = "GAME_START"
  PROVE  Faithful(m)
  <1> DEFINE b == Write(m)
             R == WriteInt("addr", m.addr)
             U == WriteUsername(m.username)
             P == WriteInt("cert", m.cert)
             x == (R \o U) \o P
             r == [type |-> "GAME_START", addr |-> m.addr,
                   username |-> ReadUsername(U, 1), cert |-> m.cert]
  <1>0. "addr" \in DOMAIN Width /\ "cert" \in DOMAIN Width /\ Width["addr"] = 6
    BY DEF Width
  <1>1. b = WriteInt("type", "GAME_START") \o x
    BY DEF Write, WriteAnswer, WriteBuf, WriteInt
  <1>2. x = (R \o U) \o P
    OBVIOUS
  <1>3. R = WriteInt("addr", m.addr) /\ P = WriteInt("cert", m.cert)
        /\ U = WriteUsername(m.username)
    OBVIOUS
  <1>4. IsSeq(R) /\ IsSeq(P) /\ IsSeq(U)
    BY <1>0, FieldReadBack, NameIsSeq
  <1>5. Len(R) = 6 /\ Len(U) = NameSize /\ CertAt = 2 + (6 + NameSize) /\ CertAt \in Nat \ {0}
    <2>1. Len(R) = 6 /\ Len(U) = NameSize
      BY <1>0, FieldReadBack, NameIsSeq
    <2>2. QED
      BY <2>1, Sizes DEF CertAt
  <1> HIDE DEF b, x, R, P, U
  <1>6. IsSeq(x) /\ ThreeIn(b, 2, R, U, P)
    BY <1>1, <1>2, <1>4, TypeAndThree
  <1>7. IsSeq(b) /\ Value("type", Part(b, 1, 1)) = "GAME_START"
    BY <1>1, <1>6, BehindType
  <1>8. Lies(R, b, 2) /\ Lies(U, b, 8) /\ Lies(P, b, CertAt)
    BY <1>5, <1>6, Sizes DEF ThreeIn
  <1>9. /\ Get("addr", b, 2) = m.addr /\ Fits("addr", b, 2)
        /\ Get("cert", b, CertAt) = m.cert /\ Fits("cert", b, CertAt)
        /\ ReadUsername(b, 8) = ReadUsername(U, 1)
    BY <1>0, <1>3, <1>5, <1>7, <1>8, LiesField, LiesName
  <1>10. ReadMessage(b) = r
    BY <1>7, <1>9 DEF ReadMessage, ReadAnswer
  <1>11. DOMAIN m = {"type", "username", "addr", "cert"}
    BY FieldsAre DEF Sendable
  <1>12. r = AsRead(m)
    <2>1. /\ r = [f \in {"type", "username", "addr", "cert"} |-> r[f]]
          /\ r["type"] = m["type"] /\ r["addr"] = m["addr"]
          /\ r["cert"] = m["cert"] /\ r["username"] = ReadUsername(U, 1)
      OBVIOUS
    <2> HIDE DEF r
    <2>2. QED
      BY <1>3, <1>11, <2>1, IsAsRead DEF Names
  <1>13. QED
    BY <1>7, <1>10, <1>12 DEF b, Faithful

(* A signature where it lies behind its size.                              *)
LEMMA TwoPieces ==
  ASSUME NEW A, NEW B, IsSeq(A), IsSeq(B), NEW x, x = A \o B, NEW j, j = 1 + Len(A)
  PROVE  /\ IsSeq(x) /\ Len(x) = Len(A) + Len(B)
         /\ Lies(A, x, 1) /\ Lies(B, x, j)
  <1>1. Len(A) \in Nat /\ j = Len(A) + 1
    BY DEF IsSeq
  <1>2. IsSeq(x) /\ Len(x) = Len(A) + Len(B) /\ Lies(B, x, j)
    BY <1>1, Appended
  <1>3. Lies(A, x, 1)
    BY LiesWhole, LiesLeft
  <1>4. QED
    BY <1>2, <1>3

LEMMA DsLies ==
  ASSUME NEW ds, NEW D, Lies(WriteInt("u32", Width["sig"]), D, 1), Lies(WriteInt("sig", ds), D, 5),
         NEW b, IsSeq(b), NEW i \in Nat \ {0}, Lies(D, b, i)
  PROVE  Ds(b, i) = ds
  <1>1. "u32" \in DOMAIN Width /\ "sig" \in DOMAIN Width
    BY WidthsPositive
  <1> DEFINE one == 1
             five == 5
             k == one + i - 1
             l == five + i - 1
  <1>2. /\ one \in Nat \ {0} /\ five \in Nat \ {0}
        /\ k = i /\ l = i + 4 /\ l \in Nat \ {0}
    OBVIOUS
  <1>3. Lies(WriteInt("u32", Width["sig"]), D, one) /\ Lies(WriteInt("sig", ds), D, five)
    OBVIOUS
  <1> HIDE DEF one, five
  <1>4. Lies(WriteInt("u32", Width["sig"]), b, k) /\ Lies(WriteInt("sig", ds), b, l)
    BY <1>2, <1>3, LiesWithin
  <1> HIDE DEF k, l
  <1>5. Get("u32", b, i) = Width["sig"] /\ Fits("u32", b, i)
    BY <1>1, <1>2, <1>4, LiesField
  <1>6. Get("sig", b, l) = ds /\ Fits("sig", b, l)
    BY <1>1, <1>2, <1>4, LiesField
  <1>7. QED
    BY <1>2, <1>5, <1>6, DsFound DEF HasDs

(* What a hello has between the names and the key: its signature, or       *)
(* nothing.                                                                *)
HelloDs(m) == IF m.type = "SERVER_HELLO"
                THEN WriteInt("u32", Width["sig"]) \o WriteInt("sig", m.ds) ELSE <<>>

(* The fields of a hello, around a signature or nothing.                   *)
LEMMA HelloPieces ==
  ASSUME NEW m, m.type \in {"CLIENT_HELLO", "SERVER_HELLO"}, NEW b, b = Write(m),
         NEW D, D = HelloDs(m), IsSeq(D)
  PROVE  /\ IsSeq(b) /\ Value("type", Part(b, 1, 1)) = m.type
         /\ Get("u32", b, 2) = m.nonce /\ Fits("u32", b, 2)
         /\ ReadUsername(b, 6) = ReadUsername(WriteUsername(m.my_id), 1)
         /\ ReadUsername(b, 6 + NameSize) = ReadUsername(WriteUsername(m.other_id), 1)
         /\ Lies(D, b, DsAt)
         /\ Get("key", b, DsAt + Len(D)) = m.eph_key /\ Fits("key", b, DsAt + Len(D))
  <1> DEFINE t == m.type
             N == WriteInt("u32", m.nonce)
             U == WriteUsername(m.my_id)
             V == WriteUsername(m.other_id)
             K == WriteInt("key", m.eph_key)
             P == (N \o U) \o V
             H == (P \o D) \o K
  <1>0. /\ "u32" \in DOMAIN Width /\ "key" \in DOMAIN Width /\ Width["u32"] = 4
        /\ Len(D) \in Nat /\ NameSize \in Nat
    BY WidthsPositive, Sizes DEF IsSeq
  <1>1. b = WriteInt("type", t) \o H
    BY DEF Write, WriteHello, HelloDs, WriteBuf, WriteInt
  <1>2. P = (N \o U) \o V /\ H = (P \o D) \o K
    OBVIOUS
  <1>3. /\ N = WriteInt("u32", m.nonce) /\ U = WriteUsername(m.my_id)
        /\ V = WriteUsername(m.other_id) /\ K = WriteInt("key", m.eph_key)
    OBVIOUS
  <1>4. IsSeq(N) /\ IsSeq(U) /\ IsSeq(V) /\ IsSeq(K)
    BY <1>0, FieldReadBack, NameIsSeq
  <1>5. Len(N) = 4 /\ Len(U) = NameSize /\ Len(V) = NameSize
    BY <1>0, FieldReadBack, NameIsSeq
  <1> HIDE DEF N, U, V, K, P, H
  <1>6. IsSeq(P) /\ Len(P) = Len(N) + Len(U) + Len(V) /\ ThreeIn(P, 1, N, U, V)
    <2>1. P = (N \o U) \o V
      BY <1>2
    <2>2. /\ IsSeq((N \o U) \o V) /\ Len((N \o U) \o V) = Len(N) + Len(U) + Len(V)
          /\ ThreeIn((N \o U) \o V, 1, N, U, V)
      BY <1>4, ThreePieces
    <2>3. QED
      BY <2>1, <2>2, Zenon
  <1>7. IsSeq(H) /\ ThreeIn(b, 2, P, D, K)
    BY <1>1, <1>2, <1>4, <1>6, TypeAndThree
  <1>8. IsSeq(b) /\ Value("type", Part(b, 1, 1)) = t
    BY <1>1, <1>7, BehindType
  <1>9. Lies(P, b, 2)
    BY <1>7 DEF ThreeIn
  <1>10. ThreeIn(b, 2, N, U, V)
    BY <1>6, <1>8, <1>9, ThreeWithin
  <1>11. 2 + Len(P) = DsAt /\ 2 + (Len(P) + Len(D)) = DsAt + Len(D) /\ DsAt \in Nat \ {0}
    BY <1>0, <1>5, <1>6 DEF DsAt
  <1>12. 2 + Len(N) = 6 /\ 2 + (Len(N) + Len(U)) = 6 + NameSize /\ 6 + NameSize \in Nat \ {0}
    BY <1>5, Sizes
  <1>13. Lies(N, b, 2) /\ Lies(U, b, 6) /\ Lies(V, b, 6 + NameSize)
    BY <1>10, <1>12 DEF ThreeIn
  <1>14. Lies(D, b, DsAt) /\ Lies(K, b, DsAt + Len(D))
    BY <1>7, <1>11 DEF ThreeIn
  <1>15. /\ Get("u32", b, 2) = m.nonce /\ Fits("u32", b, 2)
         /\ ReadUsername(b, 6) = ReadUsername(U, 1)
    BY <1>0, <1>3, <1>8, <1>13, LiesField, LiesName
  <1>16. ReadUsername(b, 6 + NameSize) = ReadUsername(V, 1)
    <2> DEFINE i == 6 + NameSize
    <2>1. i \in Nat \ {0} /\ Lies(WriteUsername(m.other_id), b, i)
      BY <1>3, <1>12, <1>13
    <2> HIDE DEF i
    <2>2. ReadUsername(b, i) = ReadUsername(WriteUsername(m.other_id), 1)
      BY <1>8, <2>1, LiesName
    <2>3. QED
      BY <1>3, <2>2 DEF i
  <1>17. Get("key", b, DsAt + Len(D)) = m.eph_key /\ Fits("key", b, DsAt + Len(D))
    <2> DEFINE i == DsAt + Len(D)
    <2>1. i \in Nat \ {0} /\ Lies(WriteInt("key", m.eph_key), b, i)
      BY <1>0, <1>3, <1>11, <1>14
    <2> HIDE DEF i
    <2>2. Get("key", b, i) = m.eph_key /\ Fits("key", b, i)
      BY <1>0, <2>1, LiesField
    <2>3. QED
      BY <2>2 DEF i
  <1>18. QED
    BY <1>3, <1>8, <1>14, <1>15, <1>16, <1>17

LEMMA CallerHelloReadBack ==
  ASSUME NEW m, Sendable(m), m.type # Garbage, m.type = "CLIENT_HELLO"
  PROVE  Faithful(m)
  <1> DEFINE b == Write(m)
             D == HelloDs(m)
             r == [type |-> "CLIENT_HELLO", nonce |-> m.nonce,
                   my_id |-> ReadUsername(WriteUsername(m.my_id), 1),
                   other_id |-> ReadUsername(WriteUsername(m.other_id), 1),
                   eph_key |-> m.eph_key]
  <1>1. IsSeq(D) /\ Len(D) = 0
    BY EmptyIsSeq DEF HelloDs
  <1>2. DsAt \in Nat /\ DsAt + Len(D) = DsAt
    BY <1>1, Sizes DEF DsAt
  <1>3. D = HelloDs(m)
    OBVIOUS
  <1>4. b = Write(m) /\ m.type \in {"CLIENT_HELLO", "SERVER_HELLO"}
    OBVIOUS
  <1> HIDE DEF b, D, r
  <1>5. /\ IsSeq(b) /\ Value("type", Part(b, 1, 1)) = m.type
        /\ Get("u32", b, 2) = m.nonce /\ Fits("u32", b, 2)
        /\ ReadUsername(b, 6) = ReadUsername(WriteUsername(m.my_id), 1)
        /\ ReadUsername(b, 6 + NameSize) = ReadUsername(WriteUsername(m.other_id), 1)
        /\ Get("key", b, DsAt) = m.eph_key /\ Fits("key", b, DsAt)
    <2>1. IsSeq(D)
      BY <1>1
    <2>2. /\ IsSeq(b) /\ Value("type", Part(b, 1, 1)) = m.type
          /\ Get("u32", b, 2) = m.nonce /\ Fits("u32", b, 2)
          /\ ReadUsername(b, 6) = ReadUsername(WriteUsername(m.my_id), 1)
          /\ ReadUsername(b, 6 + NameSize) = ReadUsername(WriteUsername(m.other_id), 1)
          /\ Get("key", b, DsAt + Len(D)) = m.eph_key /\ Fits("key", b, DsAt + Len(D))
      BY <1>3, <1>4, <2>1, HelloPieces
    <2>3. QED
      BY <1>2, <2>2
  <1>6. ReadHello("CLIENT_HELLO", b) = r
    <2>1. ~(~Fits("u32", b, 2) \/ ~Fits("key", b, DsAt))
      BY <1>5
    <2>2. [type |-> "CLIENT_HELLO", nonce |-> Get("u32", b, 2), my_id |-> ReadUsername(b, 6),
           other_id |-> ReadUsername(b, 6 + NameSize),
           eph_key |-> Get("key", b, DsAt)] = r
      BY <1>5 DEF r
    <2>3. QED
      BY <2>1, <2>2 DEF ReadHello
  <1>7. ReadMessage(b) = r
    BY <1>5, <1>6 DEF ReadMessage
  <1>8. DOMAIN m = {"type", "eph_key", "nonce", "my_id", "other_id"}
    BY FieldsAre DEF Sendable
  <1>9. r = AsRead(m)
    <2>1. /\ r = [f \in {"type", "eph_key", "nonce", "my_id", "other_id"} |-> r[f]]
          /\ r["type"] = m["type"] /\ r["nonce"] = m["nonce"] /\ r["eph_key"] = m["eph_key"]
          /\ r["my_id"] = ReadUsername(WriteUsername(m.my_id), 1)
          /\ r["other_id"] = ReadUsername(WriteUsername(m.other_id), 1)
      BY DEF r
    <2>2. QED
      BY <1>8, <2>1, IsAsRead DEF Names
  <1>10. QED
    BY <1>5, <1>7, <1>9 DEF b, Faithful

LEMMA HostHelloReadBack ==
  ASSUME NEW m, Sendable(m), m.type # Garbage, m.type = "SERVER_HELLO"
  PROVE  Faithful(m)
  <1> DEFINE b == Write(m)
             D == HelloDs(m)
             h == [type |-> "SERVER_HELLO", nonce |-> m.nonce,
                   my_id |-> ReadUsername(WriteUsername(m.my_id), 1),
                   other_id |-> ReadUsername(WriteUsername(m.other_id), 1),
                   eph_key |-> m.eph_key]
             r == [f \in DOMAIN h \cup {"ds"} |-> IF f = "ds" THEN m.ds ELSE h[f]]
  <1>0. "u32" \in DOMAIN Width /\ "sig" \in DOMAIN Width /\ Width["u32"] = 4
        /\ Width["sig"] \in Nat
    BY WidthsPositive
  <1>2. /\ IsSeq(D) /\ Len(D) = 4 + Width["sig"]
        /\ Lies(WriteInt("u32", Width["sig"]), D, 1) /\ Lies(WriteInt("sig", m.ds), D, 5)
    <2> DEFINE S == WriteInt("u32", Width["sig"])
               G == WriteInt("sig", m.ds)
               j == 1 + Len(S)
    <2>1. IsSeq(S) /\ IsSeq(G)
      BY <1>0, FieldReadBack
    <2>2. Len(S) = 4 /\ Len(G) = Width["sig"]
      BY <1>0, FieldReadBack
    <2>3. D = S \o G
      BY DEF HelloDs
    <2>4. j = 1 + Len(S)
      OBVIOUS
    <2> HIDE DEF S, G, D, j
    <2>5. IsSeq(D) /\ Len(D) = Len(S) + Len(G) /\ Lies(S, D, 1) /\ Lies(G, D, j)
      BY <2>1, <2>3, <2>4, TwoPieces
    <2>6. j = 5
      BY <2>2, <2>4
    <2>7. QED
      BY <2>2, <2>5, <2>6 DEF S, G
  <1>3. D = HelloDs(m)
    OBVIOUS
  <1>4. b = Write(m) /\ m.type \in {"CLIENT_HELLO", "SERVER_HELLO"}
    OBVIOUS
  <1> HIDE DEF b, D, h, r
  <1>6. /\ IsSeq(b) /\ Value("type", Part(b, 1, 1)) = m.type
        /\ Get("u32", b, 2) = m.nonce /\ Fits("u32", b, 2)
        /\ ReadUsername(b, 6) = ReadUsername(WriteUsername(m.my_id), 1)
        /\ ReadUsername(b, 6 + NameSize) = ReadUsername(WriteUsername(m.other_id), 1)
        /\ Lies(D, b, DsAt)
        /\ Get("key", b, DsAt + Len(D)) = m.eph_key /\ Fits("key", b, DsAt + Len(D))
    <2>1. IsSeq(D)
      BY <1>2
    <2>2. QED
      BY <1>3, <1>4, <2>1, HelloPieces
  <1>7. DsAt \in Nat \ {0} /\ DsAt + Len(D) = DsAt + 4 + Width["sig"]
    BY <1>0, <1>2, Sizes DEF DsAt
  <1>8. Ds(b, DsAt) = m.ds
    <2>1. IsSeq(b) /\ DsAt \in Nat \ {0} /\ Lies(D, b, DsAt)
      BY <1>6, <1>7
    <2>2. QED
      BY <1>2, <2>1, DsLies
  <1>9. DOMAIN m = {"type", "eph_key", "nonce", "my_id", "other_id", "ds"}
    BY FieldsAre DEF Sendable
  <1>10. m.ds # NULL
    BY <1>9 DEF Sendable
  <1>11. ReadHello("SERVER_HELLO", b) = r
    BY <1>6, <1>7, <1>8, <1>10 DEF ReadHello, r, h
  <1>12. ReadMessage(b) = r
    BY <1>6, <1>11 DEF ReadMessage
  <1>13. r = AsRead(m)
    <2>1. DOMAIN h = {"type", "eph_key", "nonce", "my_id", "other_id"}
      BY DEF h
    <2>2. /\ h["type"] = m["type"] /\ h["nonce"] = m["nonce"] /\ h["eph_key"] = m["eph_key"]
          /\ h["my_id"] = ReadUsername(WriteUsername(m.my_id), 1)
          /\ h["other_id"] = ReadUsername(WriteUsername(m.other_id), 1)
      BY DEF h
    <2>3. /\ r = [f \in {"type", "eph_key", "nonce", "my_id", "other_id", "ds"} |-> r[f]]
          /\ r["type"] = m["type"] /\ r["nonce"] = m["nonce"] /\ r["eph_key"] = m["eph_key"]
          /\ r["my_id"] = ReadUsername(WriteUsername(m.my_id), 1)
          /\ r["other_id"] = ReadUsername(WriteUsername(m.other_id), 1)
          /\ r["ds"] = m["ds"]
      BY <2>1, <2>2 DEF r
    <2>4. QED
      BY <1>9, <2>3, IsAsRead DEF Names
  <1>14. QED
    BY <1>6, <1>12, <1>13 DEF b, Faithful

(* All of them.                                                            *)
LEMMA AllReadBack ==
  ASSUME Garbage \notin MessageType, NEW m, Sendable(m)
  PROVE  ReadMessage(Write(m)) = AsRead(m) /\ IsSeq(Write(m))
  <1>1. m.type \in MessageType /\ m.type # Garbage /\ m.type # "SECURE_MESSAGE"
    BY DEF Sendable, IsMessage
  <1>2. \/ m.type \in {"START_GAME_PEER", "GAME_END", "CERT_REQ"}
        \/ m.type \in {"MOVE", "USERS_LIST", "USERS_LIST_REQ", "CHALLENGE_RESP", "GAME_START",
                       "CLIENT_HELLO", "SERVER_HELLO", "CLIENT_VERIFY", "CERTIFICATE"}
        \/ m.type \in {"REGISTER", "CHALLENGE", "CHALLENGE_FWD", "GAME_CANCEL"}
    BY <1>1 DEF MessageType, PlayFields, LobbyFields, ChannelFields
  <1>3. Faithful(m)
    BY <1>1, <1>2, BareReadBack, ColumnReadBack, NamedReadBack, ListReadBack, OffsetReadBack,
       AnswerReadBack, GameStartReadBack, CallerHelloReadBack, HostHelloReadBack,
       ProofReadBack, CertificateReadBack
  <1>4. QED
    BY <1>3 DEF Faithful

(* Whatever the program sends is read as a message with the same fields,   *)
(* of which only the ends of long names and the padding of lists differ    *)
(* (the write and read methods of messages.cpp).                           *)
THEOREM WrittenIsRead ==
  ASSUME Garbage \notin MessageType, NEW m, Sendable(m)
  PROVE  /\ ReadMessage(Write(m)) = AsRead(m) /\ AsRead(m) # NULL
         /\ Seen(AsRead(m)) = Seen(m)
  BY AllReadBack, SeenAsRead DEF Sendable
=============================================================================
