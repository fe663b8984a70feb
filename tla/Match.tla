-------------------------------- MODULE Match -------------------------------
(***************************************************************************)
(* Two clients play with one another (playWithPlayer in                    *)
(* src/client/multi_player.cpp).  Each has a board of its own and works    *)
(* out the result for itself; all they exchange is the columns they chose, *)
(* over a connection that delivers them in order.  The one that waited for *)
(* the connection moves first.                                             *)
(***************************************************************************)
EXTENDS Connect4, Sequences

CONSTANTS
  Host, Guest,  \* the peer that waited, and the one that connected
  Typed,        \* the numbers that players type for a column
  Junk,         \* a byte that is not zero and no token
  MayLeave      \* the peers whose program may end at any moment

Peer         == {Host, Guest}
Adversary(p) == IF p = Host THEN Guest ELSE Host

(* The program accepts a number from 0 to the number of columns and takes  *)
(* one off it, so that 0 is played as column -1.                           *)
ASSUME MatchAssumption ==
  /\ Host # Guest /\ NULL \notin Peer
  /\ Junk \notin Peer \cup {NULL}
  /\ Typed \subseteq 0 .. Cols
  /\ MayLeave \subseteq Peer

VARIABLES
  board,   \* c, each peer's Connect4
  before,  \* the byte before the cells: NULL (zero), Junk, or a token
  turn,    \* whose turn each peer thinks it is: "mine" or "theirs"
  result,  \* what its last play() meant: "none", "won", "lost", "draw"
  phase,   \* "playing", "over" (returned 0), "failed" (returned 1)
  moves,   \* for each peer, the columns sent to it that it has not read
  gone,    \* peers whose program has ended, which closes the connection
  zero     \* 0 has been typed and played (nowhere in the program)

vars == <<board, before, turn, result, phase, moves, gone, zero>>

Board == [cells : [Cell -> Peer \cup {NULL}], full : BOOLEAN]

MatchTypeOK ==
  /\ board \in [Peer -> Board]
  /\ before \in [Peer -> Peer \cup {NULL, Junk}]
  /\ turn \in [Peer -> {"mine", "theirs"}]
  /\ result \in [Peer -> {"none", "won", "lost", "draw"}]
  /\ phase \in [Peer -> {"playing", "over", "failed"}]
  /\ moves \in [Peer -> Seq(-1 .. Cols - 1)]
  /\ gone \subseteq Peer
  /\ zero \in BOOLEAN

(* The cells are set to zero; the byte before them is not the program's,   *)
(* and may hold anything.                                                  *)
Init ==
  /\ board  = [p \in Peer |-> EmptyBoard]
  /\ before \in [Peer -> {NULL, Junk}]
  /\ turn   = [p \in Peer |-> IF p = Host THEN "mine" ELSE "theirs"]
  /\ result = [p \in Peer |-> "none"]
  /\ phase  = [p \in Peer |-> "playing"]
  /\ moves  = [p \in Peer |-> <<>>]
  /\ gone   = {}
  /\ zero   = FALSE

-----------------------------------------------------------------------------
(* The game goes on after a move into a full column and after one that     *)
(* ends nothing.                                                           *)
Ends(win) == win \in {1, -2}

Meaning(win, ifWin) == CASE win = 1 -> ifWin [] win = -2 -> "draw" [] OTHER -> "none"

(* The column that is sent for a typed number; before it, the bug of       *)
(* sending what was typed.                                                 *)
SentAsTyped(k) == k
Sent(k) == k - 1

(* A token is placed and then sent.  Sending to a peer that has gone may   *)
(* fail, and does not lead anywhere if it does not.                        *)
MyMove(p, k) ==
  LET q == Adversary(p) IN
  /\ phase[p] = "playing" /\ turn[p] = "mine"
  /\ \E r \in {PlayToken(board[p], before[p], k - 1, p)}, sent \in IF q \in gone THEN BOOLEAN ELSE {TRUE} :
       /\ r.win # -1
       /\ board' = [board EXCEPT ![p] = r.board]
       /\ before' = [before EXCEPT ![p] = r.before]
       /\ result' = [result EXCEPT ![p] = Meaning(r.win, "won")]
       /\ moves' = IF q \in gone THEN moves ELSE [moves EXCEPT ![q] = Append(@, Sent(k))]
       /\ phase' = [phase EXCEPT ![p] = IF ~sent THEN "failed"
                                        ELSE IF Ends(r.win) THEN "over" ELSE @]
       /\ turn' = [turn EXCEPT ![p] = IF sent /\ ~Ends(r.win) THEN "theirs" ELSE @]
  /\ zero' = (zero \/ k = 0)
  /\ UNCHANGED gone

(* Whose turn it is after a move of the adversary; before it, the bug of   *)
(* leaving it with the adversary.                                          *)
NoTurnBack == "theirs"
TurnBack == "mine"

(* Whose token a received move places; before it, a mixed-up mark.         *)
OwnMark(p) == p
TheirMark(p) == Adversary(p)

TheirMove(p) ==
  /\ phase[p] = "playing" /\ turn[p] = "theirs"
  /\ moves[p] # <<>>
  /\ moves' = [moves EXCEPT ![p] = Tail(@)]
  /\ \E r \in {PlayToken(board[p], before[p], Head(moves[p]), TheirMark(p))} :
       /\ board' = [board EXCEPT ![p] = r.board]
       /\ before' = [before EXCEPT ![p] = r.before]
       /\ result' = [result EXCEPT ![p] = Meaning(r.win, "lost")]
       /\ phase' = [phase EXCEPT ![p] = IF Ends(r.win) THEN "over" ELSE @]
  /\ turn' = [turn EXCEPT ![p] = TurnBack]
  /\ UNCHANGED <<gone, zero>>

(* The connection is closed and everything sent before has been read.      *)
ReceiveFails(p) ==
  /\ phase[p] = "playing" /\ turn[p] = "theirs"
  /\ moves[p] = <<>> /\ Adversary(p) \in gone
  /\ phase' = [phase EXCEPT ![p] = "failed"]
  /\ UNCHANGED <<board, before, turn, result, moves, gone, zero>>

Leave(p) ==
  /\ p \in MayLeave \ gone
  /\ gone' = gone \cup {p}
  /\ phase' = [phase EXCEPT ![p] = IF @ = "playing" THEN "failed" ELSE @]
  /\ UNCHANGED <<board, before, turn, result, moves, zero>>

Next ==
  \/ \E p \in Peer, k \in Typed : MyMove(p, k)
  \/ \E p \in Peer : TheirMove(p)
  \/ \E p \in Peer : ReceiveFails(p)
  \/ \E p \in Peer : Leave(p)

Spec == Init /\ [][Next]_vars

(* p's player may type a number that is played, or p's program waits for a *)
(* message or the end of the connection and has it there.                  *)
CanGoOn(p) ==
  /\ phase[p] = "playing"
  /\ \/ turn[p] = "mine" /\ \E k \in Typed : PlayToken(board[p], before[p], k - 1, p).win # -1
     \/ turn[p] = "theirs" /\ (moves[p] # <<>> \/ Adversary(p) \in gone)

(* While somebody can go on, somebody does in the end.  (Weak fairness of  *)
(* all steps but Leave, with their guards written out for TLC.  Every such *)
(* step brings the match nearer to its end, so this is no less than weak   *)
(* fairness of each peer.)                                                 *)
PlayersGoOn == <>[](\E p \in Peer : CanGoOn(p)) => []<><<UNCHANGED gone>>_vars

FairSpec == Spec /\ PlayersGoOn

-----------------------------------------------------------------------------
(* The game that is being played is on the board of the peer that has made *)
(* the last move, and its outcome is the result that this peer worked out. *)
Tokens(b) == {k \in Cell : b.cells[k] # NULL}
Ahead     == IF Tokens(board[Guest]) \subseteq Tokens(board[Host]) THEN Host ELSE Guest

ColumnOf(b, c) ==
  LET height == Cardinality({i \in 0 .. Rows - 1 : b.cells[At(i, c - 1)] # NULL})
  IN [r \in 1 .. height |-> b.cells[At(Rows - r, c - 1)]]

TheGame == INSTANCE Game WITH
  First   <- Host,
  Second  <- Guest,
  column  <- [c \in 1 .. Cols |-> ColumnOf(board[Ahead], c)],
  next    <- IF Cardinality(Tokens(board[Ahead])) % 2 = 0 THEN Host ELSE Guest,
  outcome <- CASE result[Ahead] = "won"  -> Ahead
               [] result[Ahead] = "lost" -> Adversary(Ahead)
               [] result[Ahead] = "draw" -> "draw"
               [] OTHER -> "open"

(* OneGame: two programs that see only each other's columns, each of which *)
(* looks for a row around the last token alone, play one game by the rules *)
(* of Game, whether or not one of them leaves (multi_player.cpp:42-107,    *)
(* connect4.cpp:31-117) - until somebody types 0.  That number is not      *)
(* refused, and the move it makes is none of the game.                     *)
OneGame == TheGame!Init /\ [][zero' \/ TheGame!Next]_(TheGame!gameVars)

(* Nothing is on its way, and the peers see the same board and result.     *)
SameResult == [none |-> "none", won |-> "lost", lost |-> "won", draw |-> "draw"]

Settled ==
  /\ \A p \in Peer : moves[p] = <<>>
  /\ board[Host] = board[Guest]
  /\ result[Guest] = SameResult[result[Host]]

(* The adversary's last move is on its way to p: making it is possible and *)
(* gives the board and the result that the adversary has.                  *)
OnItsWay(p) ==
  /\ moves[Adversary(p)] = <<>>
  /\ Len(moves[p]) = 1
  /\ turn[p] = "theirs"
  /\ LET r == PlayToken(board[p], before[p], moves[p][1], Adversary(p))
     IN /\ r.win # -1
        /\ r.board = board[Adversary(p)]
        /\ Meaning(r.win, "won") = result[Adversary(p)]

(* No program has put a token in the byte before its cells while the other *)
(* finds that byte in use: from there on their boards are two.             *)
Alike == \A p \in Peer : before[p] = Junk => before[Adversary(p)] \notin Peer

(* PeersAgree: the peers' boards and results differ by at most the one     *)
(* move that is on its way, so nothing has to be resynchronized, a move    *)
(* that one can make the other can make, and they never disagree on who    *)
(* has won (multi_player.cpp:60-69, 86-104).  A typed 0 does not change    *)
(* that: where it puts a token the board of the other has it too, unless   *)
(* it is put off the board, in a byte that only one of them finds empty.   *)
PeersAgree == gone = {} /\ Alike => Settled \/ \E p \in Peer : OnItsWay(p)

(* What makes it so.  While a move is on its way its sender does nothing,  *)
(* and between moves it is one peer's turn; a peer that has gone is out.   *)
(* The bytes before the cells are the same unless one was in use.          *)
SameUnlessJunk(u, v) == u = v \/ Junk \in {u, v}

AwaitsReading(p) ==
  LET q == Adversary(p) IN
  /\ OnItsWay(p)
  /\ SameUnlessJunk(PlayToken(board[p], before[p], moves[p][1], q).before, before[q])
  /\ phase[q] = "playing" => turn[q] = "theirs"
  /\ result[q] = "none" /\ gone = {} => turn[q] = "theirs"

Agreed ==
  /\ \A p \in Peer : moves[p] # <<>> => AwaitsReading(p)
  /\ gone = {} /\ (\A p \in Peer : moves[p] = <<>>) =>
       /\ Settled
       /\ SameUnlessJunk(before[Host], before[Guest])
       /\ \A p \in Peer : phase[p] = "playing" /\ turn[p] = "mine" =>
                           turn[Adversary(p)] = "theirs"

MatchInv ==
  /\ MatchTypeOK
  /\ Alike => Agreed
  /\ \A p \in gone : phase[p] # "playing"

(* MatchEnds: no player waits for ever for a move that does not come, even *)
(* if the other's program has ended (multi_player.cpp:42-105).  Only where *)
(* the byte before the cells is zero: the top place of the last column,    *)
(* filled through column 0, is not noticed to fill the board, and then the *)
(* only number that is played, and that ends the game, is another 0.       *)
MatchEnds == (\A p \in Peer : before[p] = NULL) => <>(\A p \in Peer : phase[p] # "playing")
=============================================================================
