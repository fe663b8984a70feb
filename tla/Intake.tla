-------------------------------- MODULE Intake --------------------------------
(***************************************************************************)
(* How messages get from the bytes of a connection to the program          *)
(* (src/network/socket_wrapper.cpp), and at the server into the queue (the *)
(* reading part of main in src/server/server.cpp).  TCP delivers a stream  *)
(* of bytes.  The main thread of the server reads whatever there is of one *)
(* message (readPartMsg) and keeps it in the connection's buffer until the *)
(* message is complete; a client waits for all of it (receiveAnyMsg).      *)
(*                                                                         *)
(* A lane is one direction of a connection.  Which ready descriptor the    *)
(* main thread reads next is left open here; its select loop is in Server. *)
(***************************************************************************)
EXTENDS MessageQueue, Messages

CONSTANTS
  ToServer,  \* lanes that end at the server's main thread
  ToClient,  \* lanes that end at a client
  Scripts    \* what the senders may have to send: functions from Lane

Lane == ToServer \cup ToClient

(* What goes over a connection in clear; every other message goes inside a *)
(* SECURE_MESSAGE.  AES-GCM keeps lengths, so the plaintext stands for the *)
(* ciphertext here; SecureSocket has the encryption itself.                *)
InClear == {"CLIENT_HELLO", "SERVER_HELLO", "CLIENT_VERIFY", "CERT_REQ", "CERTIFICATE"}

Outer(m) == IF m.type \in InClear THEN m
            ELSE [type |-> "SECURE_MESSAGE", ct |-> Write(m), tag |-> "tag"]
Inner(m) == IF m # NULL /\ m.type = "SECURE_MESSAGE" THEN ReadMessage(m.ct) ELSE m

(* Every script is a sequence, for each lane, of messages the program      *)
(* sends.                                                                  *)
ASSUME IntakeAssumption ==
  /\ ToServer \cap ToClient = {}
  /\ Garbage \notin MessageType
  /\ \A s \in Scripts :
       /\ DOMAIN s = Lane
       /\ \A l \in Lane : /\ s[l] \in Seq(Range(s[l]))
                          /\ \A m \in Range(s[l]) :
                               Sendable(m) /\ NULL # Outer(m)

VARIABLES
  todo,    \* what each sender has still to send
  wire,    \* the bytes in flight on each lane
  buffer,  \* buffer_in up to buf_idx, at the server
  closed,  \* lanes whose sender has closed the connection
  lost,    \* lanes of which bytes in flight were lost with the connection
  ended,   \* lanes whose receiver has given up: end of file, or an error
  sent,    \* history: the messages sent, as their receiver should see them
  got      \* history: the messages that came out of the stream, as seen

netVars    == <<todo, wire, buffer, closed, lost, ended, sent, got>>
intakeVars == <<queueVars, netVars>>

IntakeInit ==
  /\ Init
  /\ todo \in Scripts
  /\ wire = [l \in Lane |-> <<>>] /\ buffer = [l \in ToServer |-> <<>>]
  /\ lost = {}
  /\ closed = {l \in Lane : todo[l] = <<>>} /\ ended = closed   \* not connected
  /\ sent = [l \in Lane |-> <<>>] /\ got = [l \in Lane |-> <<>>]

-----------------------------------------------------------------------------
(* sendMsg.  A message that cannot be written is not sent; bytes sent to a *)
(* receiver that has closed the connection vanish.                         *)
SendMsg(l) ==
  LET m == Head(todo[l]) IN
  /\ todo[l] # <<>> /\ l \notin closed
  /\ todo' = [todo EXCEPT ![l] = Tail(@)]
  /\ IF CanWrite(Outer(m)) /\ l \notin ended
       THEN /\ wire' = [wire EXCEPT ![l] = @ \o Packet(Outer(m))]
            /\ sent' = [sent EXCEPT ![l] = Append(@, Seen(m))]
       ELSE UNCHANGED <<wire, sent>>
  /\ UNCHANGED <<queueVars, buffer, closed, lost, ended, got>>

(* The sender exits.  What is in flight still arrives, unless the          *)
(* connection is reset: then only the first k bytes of it do.              *)
Close(l) ==
  /\ l \notin closed
  /\ closed' = closed \cup {l}
  /\ \/ UNCHANGED <<wire, lost>>
     \/ \E k \in 0 .. Len(wire[l]) - 1 :
          /\ wire' = [wire EXCEPT ![l] = SubSeq(@, 1, k)]
          /\ lost' = lost \cup {l}
  /\ UNCHANGED <<queueVars, todo, buffer, ended, sent, got>>

-----------------------------------------------------------------------------
(* readPartMsg asks for the two bytes of the length first, and for the     *)
(* rest of the message once it knows the length.                           *)
Wanted(b) == IF Len(b) < LenSize THEN LenSize - Len(b) ELSE MsgLen(b) - Len(b)

(* What the buffer becomes when a message has been taken from it; the      *)
(* first is the bug of not setting buf_idx back.                           *)
NotReset(b) == b
Reset(b) == <<>>

(* The message goes to the queue under its connection, unless its type is  *)
(* unknown or its reading failed; what pushSignal returns is ignored.      *)
Enqueue(l, b) ==
  \E outer \in {ReadMessage(Payload(b))} : \E m \in {Inner(outer)} :
  /\ buffer' = [buffer EXCEPT ![l] = Reset(b)]
  /\ IF m = NULL THEN UNCHANGED <<queueVars, got>>
     ELSE /\ got' = [got EXCEPT ![l] = Append(@, Seen(m))]
          /\ PushSignal(<<l, m.type>>)
  /\ UNCHANGED ended

(* One call of readPartMsg on a connection with something to read: it gets *)
(* one byte or more, and at most what it asks for.                         *)
ReadPart(l) ==
  \E n \in 1 .. Min({Wanted(buffer[l]), Len(wire[l])}) :
  \E b \in {buffer[l] \o SubSeq(wire[l], 1, n)} :
    /\ l \notin ended
    /\ wire' = [wire EXCEPT ![l] = SubSeq(@, n + 1, Len(@))]
    /\ \/ /\ Len(b) >= LenSize /\ TooBig(b)          \* throws
          /\ ended' = ended \cup {l}
          /\ UNCHANGED <<queueVars, buffer, got>>
       \/ /\ Len(b) < LenSize \/ (~TooBig(b) /\ Len(b) # MsgLen(b))
          /\ buffer' = [buffer EXCEPT ![l] = b]
          /\ UNCHANGED <<queueVars, ended, got>>
       \/ /\ Len(b) >= LenSize /\ ~TooBig(b) /\ Len(b) = MsgLen(b)
          /\ Enqueue(l, b)
    /\ UNCHANGED <<todo, closed, lost, sent>>

(* read returns 0: "Connection lost", and the user is disconnected.        *)
ReadEof(l) ==
  /\ l \in closed \ ended /\ wire[l] = <<>>
  /\ ended' = ended \cup {l}
  /\ UNCHANGED <<queueVars, todo, wire, buffer, closed, lost, sent, got>>

-----------------------------------------------------------------------------
(* receiveAnyMsg blocks until the whole message is there.  When the stream *)
(* ends before that, it returns NULL, and its next call finds the end.     *)
Complete(b) == Len(b) >= LenSize /\ ~TooBig(b) /\ Len(b) >= MsgLen(b)

ReceiveAnyMsg(l) ==
  /\ l \notin ended /\ Complete(wire[l])
  /\ wire' = [wire EXCEPT ![l] = SubSeq(@, MsgLen(@) + 1, Len(@))]
  /\ \E p \in {Payload(wire[l])} : \E outer \in {ReadMessage(p)} : \E m \in {Inner(outer)} :
       got' = IF m = NULL THEN got ELSE [got EXCEPT ![l] = Append(@, Seen(m))]
  /\ UNCHANGED <<queueVars, todo, buffer, closed, lost, ended, sent>>

ReceiveEof(l) ==
  /\ l \in closed \ ended /\ ~Complete(wire[l])
  /\ wire' = [wire EXCEPT ![l] = <<>>]
  /\ ended' = ended \cup {l}
  /\ UNCHANGED <<queueVars, todo, buffer, closed, lost, sent, got>>

(* The workers: see MessageQueue.                                          *)
Work(c) == PullWait(c) /\ UNCHANGED netVars

IntakeNext ==
  \/ \E l \in Lane : SendMsg(l) \/ Close(l)
  \/ \E l \in ToServer : ReadPart(l) \/ ReadEof(l)
  \/ \E l \in ToClient : ReceiveAnyMsg(l) \/ ReceiveEof(l)
  \/ \E c \in Consumer : Work(c) \/ (SpuriousWakeup(c) /\ UNCHANGED netVars)

(* The scan of the main thread visits every readable descriptor, a client  *)
(* that waits for a message goes on when it is there, and workers come     *)
(* back for the next item.                                                 *)
IntakeSpec ==
  /\ IntakeInit /\ [][IntakeNext]_intakeVars
  /\ \A l \in ToServer : WF_intakeVars(ReadPart(l) \/ ReadEof(l))
  /\ \A l \in ToClient : WF_intakeVars(ReceiveAnyMsg(l) \/ ReceiveEof(l))
  /\ \A c \in Consumer : WF_intakeVars(Work(c))

-----------------------------------------------------------------------------
(* IntakeTypeOK: what comes out of a stream is a message of a known type   *)
(* with all its fields, and the length in the buffer never exceeds         *)
(* MAX_MSG_SIZE when readPartMsg comes back to a message it has begun      *)
(* ("must not happen", socket_wrapper.cpp:37).                             *)
IntakeTypeOK ==
  /\ \A l \in Lane : \A i \in DOMAIN got[l] : IsMessage(got[l][i])
  /\ \A l \in ToServer : Len(buffer[l]) >= LenSize => ~TooBig(buffer[l])
  /\ closed \subseteq Lane /\ lost \subseteq closed /\ ended \subseteq Lane

(* SameMessages: however the stream is cut into pieces, whatever the       *)
(* pieces of other connections that are read in between, the receiver gets *)
(* the messages that were sent, in their order and nothing else, as far as *)
(* fields can show them (long usernames are cut, lists are padded), and,   *)
(* unless bytes are lost with the connection, gets all of them             *)
(* (socket_wrapper.cpp:24-121, messages.cpp).                              *)
CH == INSTANCE Channel WITH
        Message <- UNION {{Seen(s[l][i]) : i \in DOMAIN s[l]} : s \in Scripts, l \in Lane},
        cut <- lost

SameMessages == CH!FairSpec
=============================================================================
