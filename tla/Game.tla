-------------------------------- MODULE Game --------------------------------
(***************************************************************************)
(* What a game of two players is meant to be: one board, on which First    *)
(* and Second drop tokens in turns until one has N in a row or the board   *)
(* is full.  A column is the sequence of the tokens in it, lowest first,   *)
(* and a line is looked for anywhere on the board.  Match shows that the   *)
(* program's two boards and two sets of results amount to this.            *)
(***************************************************************************)
EXTENDS Integers, Sequences

CONSTANTS
  First, Second,  \* the players
  Rows, Cols,     \* the size of the board
  N               \* N_IN_A_ROW

VARIABLES
  column,   \* for each column, its tokens
  next,     \* who is to move
  outcome   \* the winner, "draw", or "open"

gameVars == <<column, next, outcome>>

Player   == {First, Second}
Other(p) == IF p = First THEN Second ELSE First

Init ==
  /\ column  = [c \in 1 .. Cols |-> <<>>]
  /\ next    = First
  /\ outcome = "open"

(* p has N tokens in a row, upwards, sideways or diagonally.               *)
HasLine(cs, p) ==
  LET Holds(c, r) == /\ c \in 1 .. Cols /\ r \in DOMAIN cs[c]
                     /\ cs[c][r] = p
  IN \E c \in 1 .. Cols, r \in 1 .. Rows, d \in {<<0, 1>>, <<1, 0>>, <<1, 1>>, <<1, -1>>} :
       \A k \in 0 .. N - 1 : Holds(c + k * d[1], r + k * d[2])

IsFull(cs) == \A c \in 1 .. Cols : Len(cs[c]) = Rows

Move(p, c) ==
  LET dropped == [column EXCEPT ![c] = Append(@, p)] IN
  /\ outcome = "open"
  /\ next = p
  /\ Len(column[c]) < Rows
  /\ column' = dropped
  /\ next' = Other(p)
  /\ outcome' = IF HasLine(dropped, p) THEN p
                ELSE IF IsFull(dropped) THEN "draw" ELSE "open"

Next == \E p \in Player, c \in 1 .. Cols : Move(p, c)

Spec == Init /\ [][Next]_gameVars
=============================================================================
