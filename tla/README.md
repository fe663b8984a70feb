# four-in-a-row in TLA+

four-in-a-row is a C++ program for playing Connect Four over a network. A
*server* authenticates users, lists who is free and pairs two users for a game;
*clients* log in, challenge each other, and then play directly with one another
over a connection of their own. These modules model the part of it that is
concurrent or distributed: the server's threads, the data they share, the clients
as the server sees them, the way of a message from one program to another (its
format, its bytes on a connection, its encryption), and how two clients set up a
connection and play with one another.

## 1. Inventory

All paths are below `src/` of the repository.

| Component | State | Operations | Where | Status |
|---|---|---|---|---|
| User list and users | two maps (by name, by descriptor), a reference count per user; in each `User` its name, state, opponent's name, mutex | `add`, `get`, `exists`, `yield`, `listAvailableFromTo`; `setState`, `setUsername` | `src/server/user_list.*`, `src/server/user.h` | modelled but for the listing |
| Message queue | a bounded `std::queue`, a mutex, a condition variable | `pushSignal`, `pullWait` (`push`, `pull` unused) | `include/utils/message_queue.h` | modelled but for the unused two |
| Server | the main thread's descriptor sets; the workers' stacks | select loop, worker loop, one handler per message, `doubleLock`, `doubleUnlock` | `src/server/server.cpp` | modelled but for start-up |
| Client, towards the server | what it waits for, its send counter | log in, list, challenge, answer, game end, quit | `src/client/server.cpp`, `server_lobby.cpp`, `client.cpp` | modelled as the server's environment |
| Secure channel | certificates, nonces, ephemeral keys, derived keys, two sequence numbers | handshake of both roles, `encryptMsg`, `decryptMsg`, `handleMsg`, `receiveMsg` | `src/security/secure_socket_wrapper.cpp` | modelled |
| Crypto and certificates | none | key agreement, derivation, signatures, AES-GCM, verification of certificates | `src/security/crypto*.cpp` | modelled by what they promise |
| Socket framing | a partly filled buffer per connection | `sendMsg`, `readPartMsg`, `receiveAnyMsg` | `src/network/socket_wrapper.cpp` | modelled |
| Message formats | none | `write` and `read` of 17 messages | `include/network/messages.h`, `src/network/messages.cpp`, `src/utils/buffer_io.cpp` | modelled |
| Board | an array of cells, a flag for a full board | `play`, `checkWin` | `src/client/connect4.cpp` | modelled |
| Game between peers | at each peer a board, the turn, the last result; the connection | `waitForPeer`, `connectToPeer`, `playWithPlayer` | `src/client/multi_player.cpp` | modelled |
| Single-player game | a board | `playSinglePlayer` | `src/client/single_player.cpp` | not modelled |
| Hosts, utilities, tests | none of interest | | `src/network/host.cpp`, `src/utils/args.cpp`, ... | not modelled (section 8) |

**How they interact.** The main thread waits in `select`, accepts connections
(making a `User` and adding it to the list under its descriptor), reads
messages and pushes each with the *descriptor* it came from. A worker pulls an
entry, looks the user up by descriptor, locks the user's mutex, lets the secure
channel check or decrypt the message, and runs the handler its type and the
user's state call for; a handler of a challenge looks the opponent up by name
and locks it too. Every pointer that `get` returned is given back with `yield`,
and the last `yield` of a DISCONNECTED user erases it from both maps and
destroys it, which closes its socket and frees the descriptor for the next
connection.

When a challenge is accepted the two clients are told to connect to one another.
The challenged one listens and accepts one connection, the challenger calls, up to ten
times; they run the handshake of the secure channel, in which each has been given the
other's certificate by the server. From then on each places the tokens of both on a board of its own; they exchange
nothing but columns, and each works out for itself who has won.

**What is hard in it.**

* Two or more workers and the main thread share the users. `User::state` is
  written under the user's mutex by handlers, but without it by the main thread
  on an end of file and by a worker after a failed handler.
* A handler about two users gives up the first mutex to take both in the order of
  the names, so what it saw before may be stale.
* Users die by reference count while maps, queue entries and the main thread's
  descriptor sets still name their descriptor or username.
* Messages of one client may be handled by two workers out of order.
* Sends fail, clients quit at any moment, the queue refuses messages.
* A client that waits for one type of message may be sent another first.
* A message reaches the main thread in pieces, between pieces of others.
* Two ends of a connection must agree on nonces, keys and message numbers they
  never compare, while either may vanish and somebody else may call.

**What makes it correct**, component by component:

* user list: nobody uses a destroyed user; maps and users agree; a disconnected
  user is destroyed in the end by somebody;
* queue: its length is bounded and no message waits while all workers sleep;
* server: no deadlock among mutexes; every handler ends; what a handler holds is
  what its code needs; two users in a challenge agree about it; a message is
  handled for the user that sent it; only the authenticated owner of a
  connection gets its user listed;
* clients: nobody waits for an answer that nobody will send, and a wait is not ended by
  another message (neither holds: section 6);
* framing and formats: what comes out of a stream is what was put in, in order, once;
* secure channel: who is taken for authenticated is the right user, both ends have the
  same keys, no key and vector serve twice, messages arrive in order and once;
* setting up a game: two players who call each other end up in the game or with an
  error;
* board and game: two boards that only exchange columns are the board of one game
  played by the rules (not if somebody types column 0: section 6), the peers agree on the
  result, and nobody waits for a move that does not come.

`PROJECT.json` lists under `hazards` the lines where each of these bites.

## 2. Modules

```
MessageQueue ──┐                         MessageQueueProofs  (theorems)
               ├── Server ── System ── SystemInvariant ── MCSystem
UserList ──────┘                         SystemProofs, HandlerProofs
   │                                                         (theorems)
   └── MCUserList: the list alone        UserListProofs      (theorems)

MessageQueue ──┐
Messages ──────┴── Intake ── MCIntake    MessagesProofs, IntakeProofs
   │                 └── implements Channel                  (theorems)
   └─┐
Crypto ── SecureSocket ── PeerSession ── PeerSessionInvariant ── MCPeerSession
                             └── implements Channel
                                         PeerSessionProofs   (theorems)

Connect4 ── Match ── MCMatch
Game ────────┘ (what Match implements)   MatchProofs         (theorems)
```

`Server` uses `UserList` and `MessageQueue` through `INSTANCE`: every access of
a thread to the list or the queue is an action of those modules, conjoined
with the thread's own control. What is proved of the list for *any* use by *any*
threads is therefore about the same actions the server takes. `SystemInvariant` and
`PeerSessionInvariant` hold the inductive invariants, apart from the proofs so that TLC can
check them.

**UserList.** `heap[u]` says whether the `User` object is unborn, live or
deleted; `byName` and `byFd` are `user_map_by_username` and `user_map_by_fd`;
`refs` are the counts in the map entries; `uname`, `ustate`, `fdOf` are fields of
`User`. `held` maps each pointer variable of each thread to the user it points
to: a ghost of the threads' stacks, needed to say "in use". Each method
runs under the list's mutex and is one action: `Accept` (the constructor and
the first `add`), `AddNamed` (the second `add`, when a user registers),
`GetByName`, `GetByFd`, `Yield`. `SetStates` and `SetUsername` are the plain
writes. `Forget` is a thread leaving a scope without `yield`, which two handlers
of the server do.

**MessageQueue.** `PushSignal`, `PullItem`, `PullSleep` (one pass of
`pullWait`'s loop with or without an item) and `SpuriousWakeup`. A thread gives
up the queue's mutex only by sleeping, so each is atomic in the code too.

**Server.** One connection has one `User`, and both have the same name in the
model. The main thread's place is `mpc`: `select`, `scan` (with `cursor`, the loop
variable), `check` (state read), `drop`, `read`, `yield`, `exists`, and `crashed` after
the null pointer is used. A worker's place is `wpc[w]`: `pull`, `get`, `lock`, `dispatch`, the
name of the message while its handler begins, then the handler's later
steps (`dl*` and `du*` in `doubleLock` and `doubleUnlock`, `chl_*`, `rsp_*`,
`reg_*`), `unlock`, `fail`, `yield`. A step ends at every call to the list or queue, at every lock
and unlock, and between an unlocked read of a state and the write that depends on it;
between those points no other thread can observe or disturb the thread.
`inbox` and `outbox` are what is in flight on each connection.
An uninitialized result (a rejected challenge, or a GAME_START whose send
failed for the sender alone) is either value.

**System.** Adds the clients: `phase[c]` is where client `c` is, and `Awaited` which messages
it waits for there. `receiveMsg` ends after the first message: if it is of another type it
returns NULL, the callers take that for an error, and the client closes the connection
(`GiveUp`); the lobby throws such messages away (`Discard`). The person at the
keyboard may ask for the list, challenge any name (its own included), accept, reject, end a
game, or quit at any moment, where `MayList`, `MaxOps` and `MayQuit` allow it. A game that cannot be
played (`FailGame`, where `MayFail` allows it) sends nothing to the server, as in `client.cpp`. What a run starts
from is its `Scenarios`: who has logged in (`Before`), whether clients are `Paced`, and
how many requests each makes (`MaxOps`).

**Messages** is the format of every message, translated from `write` and `read`: the order and width
of fields, the offsets at which they are read back, usernames cut and padded, lists padded.
A byte is `<<kind, i, v>>`, the i-th byte of a value: bytes read back in place give
the value, misplaced ones give `Garbage`, so an offset that is one off shows. `Seen(m)` is what a
receiver can see of m, by its getters. `Packet` adds the length prefix.

**Intake** moves those bytes: `SendMsg` puts a packet on a lane (one direction of a
connection), `ReadPart` is one call of `readPartMsg` that gets any number of the bytes it asks for,
`Enqueue` what the main thread does with a whole message, `ReceiveAnyMsg` the blocking read of
a client, and `Close` the end of the sender, which may lose the last bytes. The queue and
the workers are those of MessageQueue.

**Crypto** has the primitives as terms: equal only if built from equal things.
**SecureSocket** has the methods of `SecureSocketWrapper` as functions of a
record with its fields: what the handshake derives and signs, how a number becomes a
vector, what is authenticated besides the text, and what `handleMsg` and `receiveMsg` make of a message.

**PeerSession** is `waitForPeer`, `connectToPeer` and the exchange of moves over SecureSocket, with whole messages on
the lanes. `pc[u]` is where each program is, `tries` counts the calls in vain. A third user, `Stranger`, may
call too. `Stores` are the sets of certificates that verify, so that each verification fails in some
behaviour. `Leave` ends a program and loses any suffix of what it had sent.

**Channel** is the promise that both keep: per lane, what was sent is delivered
unchanged, once, in order, and all of it unless the lane is cut. In Intake a lane is cut when bytes are
lost with the connection; in PeerSession also when its receiver's program has stopped. What is sent and
delivered are serialized messages there and decrypted ones here.

**Connect4** is the board as the program has it: `PlayToken(b, before, j, p)` is `play`, from
a board, the byte before its cells, a column and a mark to the new board and byte and the returned code, and
`CheckWin` counts around the last token with `CountNexts`, as the code does. `play` does not refuse column -1:
`cells_[i*cols_-1]` is the last column one row higher, and in row 0 the byte before the array (`Off`).

**Match** is `playWithPlayer` in both peers. `board`, `turn` and `result` are its local
variables in each (`c`, `turn`, and what `win` means), `before` the byte before each one's cells, which the
program does not initialize: zero or `Junk`, any other value, which is no token in `play` (a byte that happens to be a
token is no different: it is only ever compared with zero).
`moves` is the connection and `gone` the set of
peers whose program has ended, which is what closes it (`client.cpp` never
closes the connection itself). `Typed` are the numbers that the players type, of those that are accepted: 0 up to the number of
columns. `zero` is a ghost: somebody has typed 0. `MyMove` places the token and then sends the column, in the order of
the code; the report has it the other way round (implementation.tex:249-252).
The code lets a player place a token on its own board although the send then
fails, and so does the model. A choice that `play` refuses (a full column) changes
nothing and is left out.

**Game** is what is promised: one board of column stacks, turns, and a line
anywhere on the board. `Match` implements it, until somebody types 0, under the mapping `TheGame`: the
game being played is on the board of the peer that is ahead.

**What the models abstract.** Server and System take whole messages, and decide by `Legible`
what SecureSocket would make of them: a secure message is legible if it was made by this
connection's client and carries the next sequence number; a signature is valid if it covers this
connection's own hello. PeerSession and Intake are where those are looked into. In Intake the plaintext
stands for the ciphertext (AES-GCM keeps lengths). Two nonces are never equal nor zero, and calls into OpenSSL succeed. Every username has a
certificate at the server, so `cert_map` lookups succeed. SIGPIPE, which ends a
program when it writes twice to a reset connection, only cuts behaviours
short. The answer to a list request has no content in System. The host's second and third callers stay
in the backlog, because `waitForPeer` accepts once and never closes the listening socket.

## 3. Runs

| Run | Instance | Question | Distinct states |
|---|---|---|---|
| `user_list` | 3 users, 2 places and 2 names (so the list fills, names collide and descriptors are reused), 2 pointers | use after free, dangling or wrong index entries, users nobody can clean up | 15 000 |
| `clients` | 2 clients and 2 workers; either both log in, unpaced, one of them without the certificate, or both are in the lobby and challenge once each; one may ask for the list, one may quit; a queue of 2 | does the handshake authenticate whatever the order of handling, with queue overflow; do pairs agree with disconnections and failed sends; do mutexes exclude, and do states change two at a time, with clients that are not paced | 1 240 000 |
| `pairing` | 3 users logged in, two of whom challenge anybody, themselves included; 2 workers | do the locks of two users embrace; are pointers kept and given back; do challenges that cross leave users paired consistently, two at a time | 938 000 |
| `return` | 2 users logged in, each challenges once, fair threads | does every handler end | 144 000 |
| `match` | a board of 4 rows and 3 columns, 3 in a row win; players type all that is accepted, 0 included; either peer may leave at any moment | do two peers that exchange only columns play one game by the rules, do they agree, does it end | 878 800 |
| `intake` | 2 connections to the server and 1 from it, 7 scripts with every type of message; pieces of any size; 2 workers, a queue of 2 | do messages survive being written, cut up, interleaved, put together and read; does the queue serve them | 17 200 |
| `session` | host, guest and stranger, 3 stores of certificates, 2 tries, 2 moves each; anybody may leave at any moment | who is authenticated to whom, with which keys; are vectors fresh; do records arrive in order; does the set-up end | 15 100 |
| `lock_leak`, `ghost`, `wrong_type`, `no_answer`, `relogin` | one or two connections | section 6 | found in seconds |

**Bounds, and why they are enough.** Two workers are enough for every race of
two handlers and, with the main thread, for three writers of one user's
state. They are not enough for a circle of three workers that wait for each
other; `NoDeadlyEmbrace` is stated for any circle, and the proof covers those that the run
does not. Two or three connections are enough for a third party to interfere with a
pair, and for one descriptor to pass to another connection. `MaxOps` bounds
how many lists and challenges each client requests; answers, game ends and
quitting are not bounded. `MayFail` is empty in `pairing` to keep the third
client within reach, and is the one who stays in `clients`. The queue has two places, so it overflows. Runs about
the lobby start from `LoggedIn(Before)`, the state that the logins of those
connections one after the other lead to, so that the budget is spent on the lobby.
A login that is refused because the name is taken is reached in `relogin` only.

On the board of `match` three in a row fit upwards in two places, sideways in one and
diagonally in two ways each, away from the corners too; games end by a win of either peer, by a
draw on a full board, and by a peer that leaves before, between and after the
moves. Smaller boards have no diagonal below another. The last column is also filled from above, through
column 0, and past the top into the byte before the cells, which is zero in none, one or both of the programs.
The proofs cover every size of board and
every length of row. `session` sends the columns -1 and 6 encrypted.

In `intake` a name has at most two characters, a key, certificate or signature one byte and a message at most 20 bytes,
so that every cut of every stream is tried; the scripts have names that are shorter than the limit, fill it and exceed it, lists of one and
of two names, numbers at the ends of their ranges, and one message more than the queue
holds. Every message fits the buffer, as in the code, whose lists have at most MAX_USERS_IN_MESSAGE names: that a
length beyond it is refused is modelled, and no sender of the run announces one; the proofs cover those that do. Likewise
`ReadUsername` and the test on the size of an encrypted message differ from the code only at sizes that no sender of the model produces. In `session` two tries are enough for one to fail before the host listens, and for all to fail; two moves each
(`MaxMoves`) use message numbers 0, 1 and 2 in one direction, 0 and 1 in the other.

`Paced` in the scenarios of the lobby means that a client sends nothing while
an earlier message of its is still unread, queued or being handled. It
excludes exactly what `lock_leak` shows: two messages
of one client handled out of order leave a mutex locked for ever. Those runs
ask what else can go wrong. Logins are not paced.

`CHECK_DEADLOCK FALSE` stands in the runs of `System` because the system really
stops: clients are done, or the main thread has crashed; in `match`, because games end; in
`session`, because programs do. `intake` checks for deadlock: workers can always be woken spuriously or go
back to sleep. The symmetry is over the
workers, which are interchangeable, in safety runs only (the action properties `PairsMoveTogether` and `StatesMoveTogether` included). In `MCUserList` a state
constraint bounds the reference count, which `Forget` raises without limit.

**Fairness.** `FairSpec` of System assumes weak fairness of the main thread
and of each worker: the operating system schedules threads, and a mutex wait is a
step that is enabled when the mutex is free. Nothing is assumed of clients.
`WorkersReturn` needs no strong fairness on mutexes in this instance, since no
mutex is taken over and over while somebody waits. It exempts the crash of the main
thread, which ends the process. It holds when clients are paced; `lock_leak` shows that it fails when they are not.
`LiveSpec` adds that a client reads what has arrived, and that the person answers a challenge and
finishes a game: the finding `no_answer` does not depend on somebody who walks away from the keyboard.

`IntakeSpec` assumes that a readable connection is read in the end (the main thread's scan visits all
ready descriptors), that a client that waits goes on when its message is there, and that workers run.
`SessionSpec` assumes that a program that can go on does; not that anybody
calls, moves or leaves, except that the guest, whose program is in `connectToPeer`, goes on trying.
In Match `PlayersGoOn` says
that a player whose turn it is types in the end a number that is played, if there is one (`play` tells of a full column, and the
program asks again), and that a program
that waits in a receive gets a message, or the end of the connection, that is there.

## 4. Properties

* `NoLostWakeup`, `WorkIsServed` (MessageQueue): signalling only on the step from
  empty to one is enough.
* `HeldAlive`, `IndexSound`, `HeldIndexed`, `NoZombie` (UserList): reference
  counts protect every pointer, both indexes are right, and somebody is always left
  to clean up.
* `NoDeadlyEmbrace` (Server): no set of workers waits in a circle.
* `PointersKept` (Server): workers obey the contract of the list.
* `PairsAgree` (Server): a CHALLENGED user whose client is connected names an opponent that is CHALLENGED by
  it, or that is disconnected.
* `PairsMoveTogether` (Server): users become CHALLENGED two at a time, by each other and from being neither
  challenged nor playing, and start a game two at a time, after having been challenged by each other. It is checked where nobody disconnects:
  with disconnections the race of the finding `ghost` breaks it.
* `StatesMoveTogether` (Server): the same as far as it holds of every client there can be: users
  become CHALLENGED two at a time and by each other, and PLAYING two at a time, and the states that were seen under
  both locks are the ones that are changed, but for a DISCONNECTED that another thread wrote without a lock.
* `MutualExclusion` (SystemInvariant): two workers never use one mutex, with `doubleLock` and `doubleUnlock` giving
  mutexes up in between. (Who owns a mutex is one thing, which mutexes a place in the code uses is another.)
* `AuthenticSession` (System): authentication belongs to the connection whose
  client took part in it, and so does the name it is listed under. It is about this program's clients,
  which register the name they have authenticated with: the server does not bind the one to the other
  (server.cpp:79-84 compares the registered name with the server's own).
* `WorkersReturn` (System): every handler ends.
* `SameMessages` (Intake): the refinement of `Channel` by bytes. `IntakeTypeOK` includes the comment
  "must not happen" of `readPartMsg`, and that whatever comes out is a whole message.
* `Agreement` (PeerSession): whoever takes the peer for authenticated is connected to that user, with the
  same nonces and crosswise keys.
* `FreshIVs` (PeerSession): a key and vector serve one message between two peers. (What the server sends to a user after
  a failed send to it is not covered.)
* `RecordsInOrder` (PeerSession): the refinement of `Channel` by encrypted messages.
* `Settles` (PeerSession): the set-up of a game ends for both players, unless the host has accepted the stranger.
* `OneGame` (Match): the refinement of `Game`; `checkWin` looks around the last token
  only, and each peer for itself, and still the rules of one game are kept. It is stated up to the first 0
  that somebody types: that move is none of the game (section 6).
* `PeersAgree` (Match): boards and results differ by at most the move on its way, with 0 typed or not; excepted are
  matches in which one program has put a token into the byte before its cells and the other finds that byte in use (not `Alike`).
* `MatchEnds` (Match): nobody waits for ever, not even when the other leaves, if the byte before the cells is zero in both.

Each has in `PROJECT.json` a mutant: a plausible bug in one definition, which
stands beside the right one in the module, and under which TLC refutes the
property in the same run.

## 5. Proofs

TLAPS checks the following for every value of the constants: any number of connections,
workers, names, columns, moves and tries, any size of board, queue and list. What is assumed of them:

| Assumption | of |
|---|---|
| `QueueAssumption`, `UserListAssumption`, `ServerAssumption` | sets of threads, users and pointers are finite or not empty, limits are naturals, NULL is none of them, the main thread is not a worker |
| `SystemAssumption` | the scenarios of a run are what they are meant to be: nobody logs in twice, budgets are naturals |
| `NoMessageAssumption` | NULL is not a message |
| `BoardAssumption`, `MatchAssumption` | sizes are positive, players type numbers from 0 to the number of columns, `Junk` is neither a token nor zero |
| `MessagesAssumption` | limits and widths are naturals, a message's length fits two bytes |
| `IntakeAssumption` | a lane ends at the server or at a client; what senders have to send are messages of known types whose names hold no NUL, whose lists fit and whose columns fit a char; NULL is none of them, and what is read from misplaced bytes is no type |
| `SessionAssumption` | the three users are different, no two draw the same nonce, none of which is zero, stores hold users' certificates |
| `SignedAssumption` | the usernames of the callers differ in what `buildMsgToSign` signs of them; a column fits its byte; the longest message of a game fits into an encrypted one |

Every inductive invariant was an INVARIANT of a run of TLC on the instances of section 3 before it was
proved; the runs keep the properties that follow from them. The exception is `IntakeInv`, which says that
messages exist that no set of the model bounds: TLC checks only what follows from it.

* **MessageQueueProofs**: `QueueTypeCorrect` (the length never passes MaxSize) and
  `NoWakeupIsLost`. The inductive invariant is the two properties together: a
  push onto an empty queue wakes one consumer, a push onto any other finds one awake
  already, and a consumer only goes to sleep when it finds the queue empty.
* **UserListProofs**: `UserListTypeCorrect`, `NoUseAfterFree`, `IndexNeverDangles`,
  `UsersInUseStayListed`, `DisconnectedUsersAreReclaimable`. The inductive invariant
  is `UserListInv`: to the properties it adds `RefsCover` (the count of a
  user is at least the number of pointers to it) and `FreshUsers`. `HeldAlive` needs
  `RefsCover` because `yield` destroys on the count and not on the pointers;
  `RefsCover` needs the cardinalities of the sets of pointers before and after each
  step (`HoldersAfterTake`, `HoldersAfterDrop`); `HeldIndexed` and `IndexSound` need each
  other because entries are erased by key. There is one lemma per operation, and `StepKeepsInv`
  combines them.
* **MatchProofs**: `MatchTypeCorrect` and `PeersAlwaysAgree`. The inductive invariant is
  `MatchInv`. That the peers agree is not inductive: it needs that while a move is on its
  way its sender makes no other (`AwaitsReading`), that between moves at most one peer
  believes it is its turn, that a peer that has gone does not play, and that the bytes before the cells are equal
  unless one was in use from the start (`SameUnlessJunk`). The argument is that both peers apply the same function
  to the same board, column and mark. Of `PlayToken` it needs only its type (`PlayTokenType`) and that two different bytes before the cells
  lead to the same board and code as long as neither program puts a token there that the other cannot (`SamePlay`); once one has, the
  exception stays (`AlikeBefore`).
  `OneGameIsPlayed` says that every step until somebody types 0 is one of Game or a stutter, and needs all of what `play` computes in the columns of
  the board, where the byte before it plays no part (`OnTheBoard`). The inductive invariant
  `GameInv` adds to `MatchInv` that no token is off the board, that tokens lie on one another (`Fallen`), that a board on which the game
  goes on has neither a line nor a full top row (`OpenBoard`), that the number of tokens says whose turn
  it is, and that one peer, the one whose board `TheGame` shows, is level with the other or one move ahead. The steps
  from the array to the columns are `ColumnsAfter` (a token that falls into the array is appended to its column),
  `SameLines` (a line of the columns is a line of the array), and `CheckWinSound` and `CheckWinComplete`: counting
  in two opposite directions from the last token, up to the first other cell, finds a row of N exactly if
  there is one through that token (`NewLine`: there was none before, so every line goes through it).
* **SystemProofs**: `SystemTypeCorrect`, `SessionsAreAuthentic`, `PointersAreKept`, `MutexesExclude`,
  and two refinements: `ListIsUsedProperly`, every step of the threads and of the clients is an operation of
  UserList that its contract allows or leaves the list alone, from which `ServerUsesNoFreedUser` follows by the
  theorems of UserListProofs; and `ServerImplementsQueue`. The inductive invariant is `SystemInv`. None
  of the properties is inductive alone. That a worker may use the opponent it points to needs that
  pointers are kept, that the reference counts cover them (`UserListInv`), and that no other worker
  changes what it relies on; and this is where mutual exclusion comes in (`LocksHeld`): the
  steps of the other workers are harmless because they hold other mutexes. Authentication needs to know
  where every message that is queued or on its way came from (`MessagesGenuine`), since a descriptor is
  used again while messages under it are queued, and that a registration is not overtaken by a second one
  (`RegisteredOnce`).
* **HandlerProofs**: `NoDeadlockOfWorkers` and, on `SeenUnderBothLocks`, `ChallengesAndGamesAreForTwo`.
  Among users of different names the order of names excludes a circle:
  of the names that a circle waits for, one is greatest (`MaximumExists`), and who uses that mutex does not wait.
  The order does not decide between users of one name, of whom there may be several while a list
  entry is being replaced. There it is the map by name: all who look up a name find the same user, and that
  one never looks for its own name (`LockOrderInv`). Then the states: a handler looks at two of them in one step and
  changes them in another; `StatesStillAsSeen` says that they are in between what they were, except that the main
  thread, which takes no lock, may have written DISCONNECTED.
* **MessagesProofs**: `WrittenIsRead`, for every message the program sends and all widths: `read` takes what `write`
  made of it for a message of the same type with the same fields, of which only the ends of names that are too
  long and the padding of lists differ. The bytes of a message are its fields one behind the other; that one *lies* at a
  place (`Lies`) is kept when bytes are put before or behind (`LiesLeft`, `LiesRight`, `LiesWithin`), so there is one lemma per
  body and none per offset. That a cut name or a padded list is still seen as what it was needs where its text ends (`TextIs`,
  `NameText`, `ListSeen`). Beside them, without any assumption about the fields, what is read back of the messages that
  PeerSession sends.
* **IntakeProofs**: `IntakeTyped` and `IntakeImplementsChannel`: every step of senders and receivers, however the
  streams are cut, is one of Channel or a stutter. The inductive invariant `IntakeInv` says of each lane
  that what has come out is a beginning of what was sent, and of a lane that is still read that the bytes in the
  buffer and on the wire bring the other messages (`Brings`): they are the packets of those messages, all of them, or
  a beginning of them if bytes were lost. That a message is taken from the right place (`MessageBrought`) rests
  on its first two bytes alone, which say how long it is whatever lies behind them (`PacketIs`, `MsgLenLeft`), and
  on two ways of cutting the same bytes at the same place being one (`SamePieces`). `readPartMsg` never comes back to a
  length that does not fit because it gives up the connection in the call that completes such a length.
* **PeerSessionProofs**: `EndsAgree`, `IVsAreFresh`, `SessionTypeCorrect`, and `RecordsImplementChannel`: every step of
  a session is one of Channel on the encrypted messages or a stutter. The inductive invariant is
  `SessionInv`. Its core is `WiresGenuine`: whatever is on a lane is the hello, the proof or one of the
  encrypted messages of the program at the other end, made from the fields that this program has *now*; so every
  step must leave alone what earlier messages were made from (`Kept`). From there the argument rests on signatures and
  tags and not on the connection: who accepts a signature has the peer's nonces and public keys
  (`CallerOK`, `HostOK`), hence its keys, crosswise (`SameSigned`); who can decrypt a message has the key it was
  made with, and its number is the next one (`NumbersOK`), so it is the next message of the history. For
  vectors, `MadeBy` says that a tag's number has been counted by its maker, or that its send failed and the program
  has stopped; keys of the two directions differ because the label of the derivation does (`KeysDiffer`).

**Left to TLC**, and why. Liveness under fairness is out of the prover's reach: `WorkIsServed`, `WorkersReturn`,
`Settles`, `MatchEnds`, and the fairness in `SameMessages` and `RecordsInOrder`, of which the safety parts are
proved. Induction is by least elements where it is needed (where a text ends, where a row of tokens ends).
`PairsMoveTogether` fails wherever somebody disconnects at the wrong moment; what remains of it in general is
`StatesMoveTogether`, which is proved. `PairsAgree` has no proof yet: it also depends on which messages a
client still sends after it was challenged, of which the inductive invariant says nothing, and would need every
client to have a name of its own, which no other proof does. TLC found no
counterexample in the runs, nor in larger instances: three clients that do not wait for answers, and two of which
both may leave. No module has RECURSIVE operators.

## 6. Findings

Each is a run in which TLC shows the code doing otherwise than a document or
comment in the repository says; `PROJECT.json` quotes the lines.

* `lock_leak` / `MutexesReleased`: when the secure channel rejects a message,
  `handleMessage` returns with the user's mutex locked. A well-behaved client
  gets there: CLIENT_VERIFY and REGISTER are sent back to back and two workers
  can take them in the wrong order.
* `ghost` / `DisconnectedIsFinal`: a state written without the mutex is
  overwritten by a handler that had already looked, and a disconnected user
  comes back as CHALLENGED.
* `wrong_type` / `OthersIgnored`: `receiveMsg` gives up after a message of another type instead of
  ignoring it, as its comment says: a user who is challenged while waiting for the list loses the connection to the server. The same
  happens when two users challenge each other at once.
* `no_answer` / `ChallengeAnswered`: when a challenged user's connection is lost nobody tells the challenger, who
  waits for ever; the report says that a cancellation is sent.
* `relogin` / `NamedAreFound`: a second login under a taken name is refused, and
  destroying its `User` erases the first user's entry by name.

More departures were met while modelling and have no run of their own.

The test on a player's input (multi_player.cpp:55) accepts 0, which is played and sent as column -1
(multi_player.cpp:57-61), although the report has only a valid column sent (implementation.tex:249-250). On an empty board the
token lands on the last column in the row above the bottom, with nothing below it. `OneGame` is false of such a move, and
therefore stops at it. Both programs do the same, so they still agree on the board (`PeersAgree`). What follows, found by TLC when the
properties were stated without their conditions: the
top place of the last column, filled in this way, is not noticed to fill the board, so that no draw is declared; if then the byte
before the cells is not zero, no number is played any more and the game never ends (which is why `MatchEnds` assumes it to be
zero); and if it is zero in one program only, a 0 typed there puts a token into that byte which the other program refuses as in
a full column, so that one may see a row where the other sees none (why `PeersAgree` exempts it).

A user who challenges
himself leaks a reference (`Forget`, server.cpp:103-107), and is never destroyed; the
model does the same. A connection beyond MAX_USERS is accepted and not
listed: the same scan takes its descriptor out of the set (server.cpp:543-550), unless that is a number below the listening one, and the
connection is neither served nor closed. The main thread uses `get(i)` without a test for NULL after a worker destroyed
the user of a ready descriptor (server.cpp:517; `mpc = "crashed"`). A queued message of a connection that was closed is
looked up for the next connection with that descriptor (server.cpp:398); `AuthenticSession` shows that nobody is
authenticated or listed by it, as far as clients register the name they authenticated with: `handleRegisterMessage`
compares the registered name with the one in the server's own certificate (server.cpp:79-84), and the clients of the model are this program's. `handshakeServer` uses a NULL message when the caller leaves between its two messages
(secure_socket_wrapper.cpp:514-516; `Crash` in PeerSession). A silent stranger keeps the host, and so the guest, waiting (`Settles` exempts it).

## 7. Plan

The modules the plan named are written, and their safety properties are proved but for
`PairsAgree` and `PairsMoveTogether` (section 5). What is left:

1. `PairsAgree`: an invariant that says what a challenged client may still send.
2. The pages of `listAvailableFromTo` against the list they should show.

## 8. Not modelled

What OpenSSL computes, reading keys and certificates from files and `hmac` (Crypto has what
the primitives promise), addresses and hosts (pure input and output), command
lines and logging, the screen of the client, the pages of
`listAvailableFromTo`, `push` and `pull` of the queue, start-up and fatal exits of the
server, the single-player game, and the tests.
