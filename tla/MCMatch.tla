------------------------------ MODULE MCMatch -------------------------------
(* A board of four rows and three columns on which three in a row win: it  *)
(* has rows, columns and both diagonals in more than one place, and games  *)
(* that fill it without a winner.  The players type all that is accepted.  *)
EXTENDS Match

MCTyped == 0 .. Cols
MCPeers == {Host, Guest}
=============================================================================
