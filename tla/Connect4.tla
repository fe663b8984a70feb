------------------------------ MODULE Connect4 ------------------------------
(***************************************************************************)
(* The board of a player (src/client/connect4.cpp): cells in one array,    *)
(* row after row from the top, and a flag that remembers that it is full.  *)
(* A cell holds the mark of a player, or NULL.  (Each player chooses the   *)
(* mark it sees for itself and the other gets the other mark, so marks     *)
(* stand for players.)                                                     *)
(***************************************************************************)
EXTENDS Integers, FiniteSetsExt

CONSTANTS
  Rows, Cols,  \* rows_ and cols_
  N,           \* N_IN_A_ROW
  NULL         \* an empty cell

ASSUME BoardAssumption == Rows \in Nat \ {0} /\ Cols \in Nat \ {0} /\ N \in Nat \ {0}

Cell        == 0 .. Rows * Cols - 1
Off         == -1   \* where cells_[-1] is: the byte before the first cell
At(i, j)    == i * Cols + j
OnBoard(i, j) == i \in 0 .. Rows - 1 /\ j \in 0 .. Cols - 1

EmptyBoard == [cells |-> [k \in Cell |-> NULL], full |-> FALSE]

(* How many of p's tokens follow one another from (i, j) in a direction,   *)
(* not counting (i, j).                                                    *)
CountNexts(cells, p, i, j, di, dj) ==
  LET Mine(k) == /\ OnBoard(i + k * di, j + k * dj)
                 /\ cells[At(i + k * di, j + k * dj)] = p
  IN Max({n \in 0 .. Rows + Cols : \A k \in 1 .. n : Mine(k)})

(* The directions that the two loops of checkWin go through.               *)
Direction == {<<1, 1>>, <<1, 0>>, <<0, 1>>, <<-1, 1>>}

(* The token just placed makes a row.  The first definition is the bug of  *)
(* counting it twice.                                                      *)
CheckWinCountingTwice(cells, i, j, p) ==
  \E d \in Direction :
    CountNexts(cells, p, i, j, d[1], d[2]) + CountNexts(cells, p, i, j, -d[1], -d[2]) >= N - 2
CheckWin(cells, i, j, p) ==
  \E d \in Direction :
    CountNexts(cells, p, i, j, d[1], d[2]) + CountNexts(cells, p, i, j, -d[1], -d[2]) >= N - 1

CheckFullTopRow(cells) == \A j \in 0 .. Cols - 1 : cells[j] # NULL

(* play: the token falls to the lowest empty row of column j.  The result  *)
(* is 1 for a win, 0 for no win, -1 for a full column, -2 for a full board.*)
(* Column -1 is not refused: what is looked at is the last column, each    *)
(* row one too high, and for row 0 the byte before the cells, which holds  *)
(* whatever it holds.                                                      *)
PlayToken(b, before, j, p) ==
  LET Held(i) == IF At(i, j) = Off THEN before ELSE b.cells[At(i, j)]
      Free == {i \in 0 .. Rows - 1 : Held(i) = NULL}
      i    == Max(Free)
      off  == At(i, j) = Off
      new  == IF off THEN b.cells ELSE [b.cells EXCEPT ![At(i, j)] = p]
      Result(board, left, win) == [board |-> board, before |-> left, win |-> win]
      Outcome(full, win) ==
        Result([cells |-> new, full |-> full], IF off THEN p ELSE before, win)
  IN IF b.full THEN Result(b, before, -2)
     ELSE IF Free = {} THEN Result(b, before, -1)
     ELSE IF CheckWin(new, i, j, p) THEN Outcome(FALSE, 1)
     ELSE IF i = 0 /\ CheckFullTopRow(new) THEN Outcome(TRUE, -2)
     ELSE Outcome(FALSE, 0)
=============================================================================
