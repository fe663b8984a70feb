------------------------------- MODULE Messages -------------------------------
(***************************************************************************)
(* The messages and what they look like on a connection                    *)
(* (include/network/messages.h, src/network/messages.cpp, and the          *)
(* functions of src/utils/buffer_io.cpp they call).                        *)
(*                                                                         *)
(* A byte is <<kind, i, v>>: the i-th of the bytes that a value v of that  *)
(* kind occupies.  Bytes put together again in the right order give the    *)
(* value back; any other run of bytes gives Garbage.  Reading at a wrong   *)
(* offset, or over the end of a message, therefore shows.                  *)
(***************************************************************************)
EXTENDS Integers, SequencesExt

CONSTANTS
  MAX_MSG_SIZE,         \* bytes in the buffers of a SocketWrapper
  MAX_USERNAME_LENGTH,  \* characters of a username that are transmitted
  MAX_USERS,            \* bound on the users in a list
  BlobSize,             \* bytes of a key, certificate, signature or tag
  Garbage,              \* what misplaced bytes are read as
  NULL

ASSUME MessagesAssumption ==
  /\ MAX_MSG_SIZE \in Nat /\ MAX_MSG_SIZE < 2^16
  /\ MAX_USERNAME_LENGTH \in Nat \ {0} /\ MAX_USERS \in Nat \ {0}
  /\ BlobSize \in Nat \ {0}

Width ==
  [len |-> 2, type |-> 1, u8 |-> 1, bool |-> 1, u16 |-> 2, u32 |-> 4, addr |-> 6,
   char |-> 1, key |-> BlobSize, cert |-> BlobSize, sig |-> BlobSize, tag |-> BlobSize]

(* The part of b of n bytes that starts at byte i, or what there is of it. *)
Part(b, i, n) == SubSeq(b, i, Min({i + n - 1, Len(b)}))

(* Integers of fixed width, in network order; and fixed runs of bytes.     *)
WriteInt(kind, v) == [i \in 1 .. Width[kind] |-> <<kind, i, v>>]
WriteBuf(kind, v) == [i \in 1 .. Width[kind] |-> <<kind, i, v>>]

Value(kind, b) ==
  IF b # <<>> /\ b = WriteInt(kind, b[1][3]) THEN b[1][3] ELSE Garbage

Fits(kind, b, at) == at + Width[kind] - 1 <= Len(b)
Get(kind, b, at)  == Value(kind, Part(b, at, Width[kind]))

UInt8(n) == n % 2^8
Char(n)  == IF n \in 2^7 .. 2^8 - 1 THEN n - 2^8 ELSE n   \* a signed char

-----------------------------------------------------------------------------
(* Usernames, as sequences of characters, fill MAX_USERNAME_LENGTH + 1     *)
(* bytes: what is longer is cut, what is shorter is filled with NUL.       *)
NUL == "NUL"
NameSize == MAX_USERNAME_LENGTH + 1

WriteChars(s, from, size) ==
  [i \in 1 .. size |-> <<"char", 1, IF i <= from THEN s[i] ELSE NUL>>]
ReadChars(b) == [i \in DOMAIN b |-> IF b[i][1] = "char" THEN b[i][3] ELSE Garbage]

UsernameLength(s) == Min({Len(s), MAX_USERNAME_LENGTH})
WriteUsername(s)  == WriteChars(s, UsernameLength(s), NameSize)

(* The characters before the first NUL.                                    *)
Text(s) == LET end == SelectInSeq(s, LAMBDA ch : ch = NUL)
           IN IF end = 0 THEN s ELSE SubSeq(s, 1, end - 1)
ReadUsername(b, at) == Text(ReadChars(Part(b, at, MAX_USERNAME_LENGTH)))

(* A list of users is padded to whole usernames, and one NUL more.         *)
ListSize(s) == Min({Len(s), NameSize * MAX_USERS})
PaddedSize(n) == ((n + MAX_USERNAME_LENGTH) \div NameSize) * NameSize
WriteUsernames(s) == WriteChars(s, ListSize(s), PaddedSize(ListSize(s)) + 1)
ReadUsernames(b, at) == ReadChars(Part(b, at, NameSize * MAX_USERS))

-----------------------------------------------------------------------------
(* The classes and their data members.                                     *)
PlayFields ==
  [START_GAME_PEER |-> {}, MOVE |-> {"col"}, REGISTER |-> {"username"},
   CHALLENGE |-> {"username"}, GAME_END |-> {}, USERS_LIST |-> {"usernames"}]
LobbyFields ==
  [USERS_LIST_REQ |-> {"offset"}, CHALLENGE_FWD |-> {"username"},
   CHALLENGE_RESP |-> {"username", "response", "listen_port"},
   GAME_CANCEL |-> {"username"}, GAME_START |-> {"username", "addr", "cert"}]
ChannelFields ==
  [SECURE_MESSAGE |-> {"ct", "tag"},
   CLIENT_HELLO |-> {"eph_key", "nonce", "my_id", "other_id"},
   CLIENT_VERIFY |-> {"ds"},
   SERVER_HELLO |-> {"eph_key", "nonce", "my_id", "other_id", "ds"},
   CERT_REQ |-> {}, CERTIFICATE |-> {"cert"}]

MessageType == DOMAIN PlayFields \cup DOMAIN LobbyFields \cup DOMAIN ChannelFields

Fields(type) == CASE type \in DOMAIN PlayFields    -> PlayFields[type]
                  [] type \in DOMAIN LobbyFields   -> LobbyFields[type]
                  [] type \in DOMAIN ChannelFields -> ChannelFields[type]

(* A message whose fields are there and hold what somebody wrote.          *)
IsMessage(m) ==
  /\ m.type \in MessageType /\ DOMAIN m = {"type"} \cup Fields(m.type)
  /\ \A f \in Fields(m.type) : m[f] # Garbage

-----------------------------------------------------------------------------
(* What write puts after the byte of the type.  The first three are the    *)
(* messages whose bodies are a move, a username, or nothing.               *)
WritePlay(m) == IF m.type = "MOVE" THEN WriteInt("u8", UInt8(m.col)) ELSE <<>>

WriteRequest(m) ==
  CASE m.type \in {"REGISTER", "CHALLENGE"} -> WriteUsername(m.username)
    [] m.type = "GAME_END"       -> <<>>
    [] m.type = "USERS_LIST"     -> WriteUsernames(m.usernames)
    [] m.type = "USERS_LIST_REQ" -> WriteInt("u32", m.offset)

WriteAnswer(m) ==
  CASE m.type \in {"CHALLENGE_FWD", "GAME_CANCEL"} -> WriteUsername(m.username)
    [] m.type = "CHALLENGE_RESP" -> WriteInt("bool", m.response)
                                    \o WriteInt("u16", m.listen_port)
                                    \o WriteUsername(m.username)
    [] m.type = "GAME_START"     -> WriteBuf("addr", m.addr)
                                    \o WriteUsername(m.username)
                                    \o WriteBuf("cert", m.cert)

WriteSecure(m) == m.ct \o WriteBuf("tag", m.tag)

WriteHello(m) ==
  WriteInt("u32", m.nonce) \o WriteUsername(m.my_id) \o WriteUsername(m.other_id)
  \o (IF m.type = "SERVER_HELLO"
        THEN WriteInt("u32", Width["sig"]) \o WriteBuf("sig", m.ds) ELSE <<>>)
  \o WriteBuf("key", m.eph_key)

WriteProof(m) ==
  CASE m.type = "CLIENT_VERIFY" -> WriteInt("u32", Width["sig"]) \o WriteBuf("sig", m.ds)
    [] m.type = "CERT_REQ"      -> <<>>
    [] m.type = "CERTIFICATE"   -> WriteBuf("cert", m.cert)

Write(m) ==
  WriteInt("type", m.type) \o
  CASE m.type \in {"START_GAME_PEER", "MOVE"}         -> WritePlay(m)
    [] m.type \in {"REGISTER", "CHALLENGE", "GAME_END",
                   "USERS_LIST", "USERS_LIST_REQ"}    -> WriteRequest(m)
    [] m.type \in {"CHALLENGE_FWD", "CHALLENGE_RESP",
                   "GAME_CANCEL", "GAME_START"}       -> WriteAnswer(m)
    [] m.type = "SECURE_MESSAGE"                      -> WriteSecure(m)
    [] m.type \in {"CLIENT_HELLO", "SERVER_HELLO"}    -> WriteHello(m)
    [] OTHER                                          -> WriteProof(m)

-----------------------------------------------------------------------------
(* What read makes of the bytes b, of which the first is the type.  A      *)
(* field that does not fit makes it fail; a username is not tested.        *)
ReadPlay(type, b) ==
  CASE type = "START_GAME_PEER"               -> [type |-> type]
    [] type = "MOVE" /\ Fits("u8", b, 2)      -> [type |-> type, col |-> Char(Get("u8", b, 2))]
    [] OTHER                                  -> NULL

ReadRequest(type, b) ==
  CASE type \in {"REGISTER", "CHALLENGE"} ->
         [type |-> type, username |-> ReadUsername(b, 2)]
    [] type = "GAME_END" -> [type |-> type]
    [] type = "USERS_LIST" /\ Len(b) > 1 ->
         [type |-> type, usernames |-> ReadUsernames(b, 2)]
    [] type = "USERS_LIST_REQ" /\ Fits("u32", b, 2) ->
         [type |-> type, offset |-> Get("u32", b, 2)]
    [] OTHER -> NULL

(* Where the certificate of a GAME_START begins; before it, the bug of      *)
(* forgetting the NUL after the username.                                  *)
CertAtShort == 8 + MAX_USERNAME_LENGTH
CertAt      == 8 + NameSize

ReadAnswer(type, b) ==
  CASE type \in {"CHALLENGE_FWD", "GAME_CANCEL"} ->
         [type |-> type, username |-> ReadUsername(b, 2)]
    [] type = "CHALLENGE_RESP" /\ Fits("bool", b, 2) /\ Fits("u16", b, 3) ->
         [type |-> type, response |-> Get("bool", b, 2),
          listen_port |-> Get("u16", b, 3), username |-> ReadUsername(b, 5)]
    [] type = "GAME_START" /\ Fits("addr", b, 2) /\ Fits("cert", b, CertAt) ->
         [type |-> type, addr |-> Get("addr", b, 2), username |-> ReadUsername(b, 8),
          cert |-> Get("cert", b, CertAt)]
    [] OTHER -> NULL

(* The ciphertext is everything before the tag.                            *)
ReadSecure(type, b) ==
  LET ctSize == Len(b) - 1 - Width["tag"] IN
  IF ctSize < 0 THEN NULL
  ELSE [type |-> type, ct |-> Part(b, 2, ctSize), tag |-> Get("tag", b, 2 + ctSize)]

(* In a server hello, the size of the signature stands before it.          *)
DsAt  == 6 + 2 * NameSize
Ds(b, at) == LET size == Get("u32", b, at) IN
             IF size = Width["sig"] /\ Fits("sig", b, at + 4)
               THEN Get("sig", b, at + 4) ELSE NULL

ReadHello(type, b) ==
  LET keyAt == IF type = "CLIENT_HELLO" THEN DsAt ELSE DsAt + 4 + Width["sig"]
      hello == [type |-> type, nonce |-> Get("u32", b, 2), my_id |-> ReadUsername(b, 6),
                other_id |-> ReadUsername(b, 6 + NameSize),
                eph_key |-> Get("key", b, keyAt)]
  IN
  IF ~Fits("u32", b, 2) \/ ~Fits("key", b, keyAt) THEN NULL
  ELSE IF type = "CLIENT_HELLO" THEN hello
  ELSE IF Ds(b, DsAt) = NULL THEN NULL
  ELSE [f \in DOMAIN hello \cup {"ds"} |-> IF f = "ds" THEN Ds(b, DsAt) ELSE hello[f]]

ReadProof(type, b) ==
  CASE type = "CLIENT_VERIFY" /\ Ds(b, 2) # NULL      -> [type |-> type, ds |-> Ds(b, 2)]
    [] type = "CERT_REQ"                              -> [type |-> type]
    [] type = "CERTIFICATE" /\ Fits("cert", b, 2)     -> [type |-> type, cert |-> Get("cert", b, 2)]
    [] OTHER                                          -> NULL

ReadMessage(b) ==
  LET type == Value("type", Part(b, 1, 1)) IN
  CASE type = Garbage                              -> NULL
    [] type \in {"START_GAME_PEER", "MOVE"}        -> ReadPlay(type, b)
    [] type \in {"REGISTER", "CHALLENGE", "GAME_END",
                 "USERS_LIST", "USERS_LIST_REQ"}   -> ReadRequest(type, b)
    [] type \in {"CHALLENGE_FWD", "CHALLENGE_RESP",
                 "GAME_CANCEL", "GAME_START"}      -> ReadAnswer(type, b)
    [] type = "SECURE_MESSAGE"                     -> ReadSecure(type, b)
    [] type \in {"CLIENT_HELLO", "SERVER_HELLO"}   -> ReadHello(type, b)
    [] OTHER                                       -> ReadProof(type, b)

-----------------------------------------------------------------------------
(* A packet is a message behind its length, which counts its own bytes.    *)
(* Writing fails, and nothing is sent, if the message does not fit.        *)
LenSize == Width["len"]
CanWrite(m) == Len(Write(m)) <= MAX_MSG_SIZE
Packet(m) == WriteInt("len", Len(Write(m)) + LenSize) \o Write(m)

MsgLen(b) == Get("len", b, 1)
TooBig(b) == MsgLen(b) \notin 0 .. MAX_MSG_SIZE
Payload(b) == Part(b, LenSize + 1, MsgLen(b) - LenSize)

(* What a receiver should see of m: the first characters of usernames, and *)
(* the text of a list without its padding.                                 *)
Seen(m) ==
  [f \in DOMAIN m |->
     CASE f \in {"username", "my_id", "other_id"} -> Part(m[f], 1, MAX_USERNAME_LENGTH)
       [] f = "usernames"                         -> Text(m[f])
       [] OTHER                                   -> m[f]]

(* What m is read as: numbers and runs of bytes as they are, and names and *)
(* lists by themselves as they would be from the middle of a message.      *)
AsRead(m) ==
  [f \in DOMAIN m |->
     CASE f \in {"username", "my_id", "other_id"} -> ReadUsername(WriteUsername(m[f]), 1)
       [] f = "usernames"                         -> ReadUsernames(WriteUsernames(m[f]), 1)
       [] OTHER                                   -> m[f]]

(* What the program has to send.  A name is a C string, so no NUL is in    *)
(* it; a list of users is one that fits; the column of a move is a char.   *)
(* NULL stands for no message and is none.                                 *)
Sendable(m) ==
  /\ IsMessage(m) /\ IsMessage(Seen(m)) /\ m.type # "SECURE_MESSAGE"
  /\ \A f \in DOMAIN m \cap {"username", "my_id", "other_id"} :
       m[f] \in Seq(Range(m[f]) \ {NUL})
  /\ m.type = "USERS_LIST" => /\ m.usernames \in Seq(Range(m.usernames))
                              /\ Len(m.usernames) <= NameSize * MAX_USERS
  /\ m.type = "MOVE" => m.col \in -128 .. 127
  /\ NULL \notin {m[f] : f \in DOMAIN m} /\ NULL # AsRead(m)
=============================================================================
