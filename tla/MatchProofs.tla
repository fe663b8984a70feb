---------------------------- MODULE MatchProofs -----------------------------
(***************************************************************************)
(* Match, for every size of the board and every length of a row.           *)
(*                                                                         *)
(* That the peers agree (PeersAlwaysAgree) rests on one thing: play() is a *)
(* function of the board, the column and the mark, and both peers apply it *)
(* to the same ones; the byte before the cells makes a difference only     *)
(* where one has room for a token and the other has not (SamePlay).  What  *)
(* it computes is not looked into there.                                   *)
(*                                                                         *)
(* It is for OneGameIsPlayed: as long as nobody types 0, the two programs  *)
(* together play Game.  Tokens lie on one another (Fallen), so the columns *)
(* of Game are the array read from the bottom; the rows that checkWin      *)
(* counts from the last token are the new lines (NewLine); and the game    *)
(* that is being played is on the board of the peer that made the last     *)
(* move (AheadIs).                                                         *)
(***************************************************************************)
EXTENDS Match, SequenceTheorems, FiniteSetTheorems, TLAPS

(* Finite sets of numbers have a least and a greatest element.             *)
LEMMA LeastNumber ==
  ASSUME NEW S \in SUBSET Nat, S # {}
  PROVE  \E f \in S : \A g \in S : f <= g
<1>1. PICK f \in S : \A g \in S : ~(<<g, f>> \in OpToRel(<, Nat))
  BY NatLessThanWellFounded, WFMin
<1>2. \A g \in S : ~(g < f)
  BY <1>1 DEF OpToRel
<1> QED BY <1>2

LEMMA GreatestNumber ==
  ASSUME NEW n \in Nat, NEW S \in SUBSET (0 .. n), S # {}
  PROVE  /\ Max(S) \in S
         /\ \A x \in S : x <= Max(S)
<1> DEFINE T == {n - x : x \in S}
<1>1. T \in SUBSET Nat /\ T # {}
  <2>1. \A x \in S : n - x \in Nat
    OBVIOUS
  <2>2. PICK y \in S : TRUE
    OBVIOUS
  <2>3. n - y \in T
    OBVIOUS
  <2> QED BY <2>1, <2>3
<1>2. PICK t \in T : \A u \in T : t <= u
  BY <1>1, LeastNumber
<1>3. PICK m \in S : t = n - m
  BY <1>2
<1>4. \A x \in S : x <= m
  <2> SUFFICES ASSUME NEW x \in S PROVE x <= m
    OBVIOUS
  <2>1. n - x \in T /\ n \in Nat /\ x \in Int /\ m \in Int
    OBVIOUS
  <2>2. n - m <= n - x
    BY <1>2, <1>3, <2>1
  <2> QED BY <2>1, <2>2
<1>5. \E y \in S : \A x \in S : y >= x
  BY <1>4
<1> HIDE DEF T
<1>6. Max(S) \in S /\ \A x \in S : Max(S) >= x
  BY <1>5 DEF Max
<1> QED BY <1>6

-----------------------------------------------------------------------------
(* The array of cells: no two places on the board share one.               *)
LEMMA Multiples ==
  ASSUME NEW m \in Nat \ {0}, NEW c \in Nat
  PROVE  m * c >= c
<1>1. m * c = (m - 1) * c + c
  OBVIOUS
<1>2. (m - 1) * c >= 0
  OBVIOUS
<1> QED BY <1>1, <1>2

LEMMA Places ==
  /\ \A i \in 0 .. Rows - 1, j \in 0 .. Cols - 1 : At(i, j) \in Cell
  /\ \A i, x \in 0 .. Rows - 1, j, y \in 0 .. Cols - 1 :
       At(i, j) = At(x, y) <=> i = x /\ j = y
  /\ \A j \in 0 .. Cols - 1 : At(0, j) = j
<1>0. Rows \in Nat \ {0} /\ Cols \in Nat \ {0}
  BY BoardAssumption
<1>1. ASSUME NEW i \in 0 .. Rows - 1, NEW j \in 0 .. Cols - 1
      PROVE  At(i, j) \in Cell
  <2>1. (Rows - i) * Cols >= Cols
    BY <1>0, Multiples
  <2>2. (Rows - i) * Cols = Rows * Cols - i * Cols
    BY <1>0
  <2>3. i * Cols \in Nat /\ Rows * Cols \in Nat
    BY <1>0
  <2> DEFINE a == i * Cols
             b == Rows * Cols
  <2> HIDE DEF a, b
  <2>4. a + j \in 0 .. b - 1
    BY <1>0, <2>1, <2>2, <2>3 DEF a, b
  <2> QED BY <2>4 DEF Cell, At, a, b
<1>2. ASSUME NEW i \in 0 .. Rows - 1, NEW x \in 0 .. Rows - 1,
             NEW j \in 0 .. Cols - 1, NEW y \in 0 .. Cols - 1, i < x
      PROVE  At(i, j) < At(x, y)
  <2>0. x - i \in Nat \ {0} /\ Cols \in Nat
    BY <1>0, <1>2
  <2>1. (x - i) * Cols >= Cols
    BY <2>0, Multiples
  <2>2. (x - i) * Cols = x * Cols - i * Cols
    BY <1>0
  <2>3. i * Cols \in Nat /\ x * Cols \in Nat
    BY <1>0
  <2> DEFINE a == i * Cols
             b == x * Cols
  <2> HIDE DEF a, b
  <2>4. a + j < b + y
    BY <1>0, <2>1, <2>2, <2>3 DEF a, b
  <2> QED BY <2>4 DEF At, a, b
<1>3. \A i \in 0 .. Rows - 1, j \in 0 .. Cols - 1 : At(i, j) \in Cell
  BY <1>1
<1>4. ASSUME NEW i \in 0 .. Rows - 1, NEW x \in 0 .. Rows - 1,
             NEW j \in 0 .. Cols - 1, NEW y \in 0 .. Cols - 1, At(i, j) = At(x, y)
      PROVE  i = x /\ j = y
  <2>1. At(i, j) \in Int /\ At(x, y) \in Int
    BY <1>0 DEF At
  <2>2. i = x
    <3>1. ~(At(i, j) < At(x, y)) /\ ~(At(x, y) < At(i, j))
      BY <1>4, <2>1
    <3>2. ~(i < x) /\ ~(x < i)
      BY <1>2, <3>1
    <3> QED BY <3>2
  <2>3. i * Cols \in Int
    BY <1>0
  <2> DEFINE a == i * Cols
  <2> HIDE DEF a
  <2>4. a + j = a + y
    BY <1>4, <2>2 DEF At, a
  <2> QED BY <2>2, <2>3, <2>4 DEF a
<1>5. \A j \in 0 .. Cols - 1 : At(0, j) = j
  BY <1>0 DEF At
<1> QED BY <1>3, <1>4, <1>5

-----------------------------------------------------------------------------
(* play() in two steps: the rows in which there is room, as the code sees  *)
(* them, and what a token in one of them amounts to.                       *)
HeldAt(b, u, i, j) == IF At(i, j) = Off THEN u ELSE b.cells[At(i, j)]

FreeRows(b, u, j) == {i \in 0 .. Rows - 1 : HeldAt(b, u, i, j) = NULL}

CellsWith(b, i, j, p) ==
  IF At(i, j) = Off THEN b.cells ELSE [b.cells EXCEPT ![At(i, j)] = p]

Landed(b, u, i, j, p) ==
  LET left == IF At(i, j) = Off THEN p ELSE u
      new  == CellsWith(b, i, j, p)
      Outcome(full, win) ==
        [board |-> [cells |-> new, full |-> full], before |-> left, win |-> win]
  IN IF CheckWin(new, i, j, p) THEN Outcome(FALSE, 1)
     ELSE IF i = 0 /\ CheckFullTopRow(new) THEN Outcome(TRUE, -2)
     ELSE Outcome(FALSE, 0)

LEMMA PlayIs ==
  ASSUME NEW b, NEW u, NEW j, NEW p
  PROVE  PlayToken(b, u, j, p) =
           IF b.full THEN [board |-> b, before |-> u, win |-> -2]
           ELSE IF FreeRows(b, u, j) = {} THEN [board |-> b, before |-> u, win |-> -1]
           ELSE Landed(b, u, Max(FreeRows(b, u, j)), j, p)
BY Zenon DEF PlayToken, Landed, FreeRows, HeldAt, CellsWith

(* The lowest free row is one, and the byte before the cells is looked at  *)
(* for the top row only.                                                   *)
LEMMA LowestFree ==
  ASSUME NEW b, NEW u, NEW j \in -1 .. Cols - 1
  PROVE  /\ FreeRows(b, u, j) # {} =>
              /\ Max(FreeRows(b, u, j)) \in FreeRows(b, u, j)
              /\ \A x \in FreeRows(b, u, j) : x <= Max(FreeRows(b, u, j))
         /\ \A x \in 0 .. Rows - 1 : At(x, j) = Off => x = 0
<1>0. Rows \in Nat \ {0} /\ Cols \in Nat \ {0}
  BY BoardAssumption
<1>1. ASSUME FreeRows(b, u, j) # {}
      PROVE  /\ Max(FreeRows(b, u, j)) \in FreeRows(b, u, j)
             /\ \A x \in FreeRows(b, u, j) : x <= Max(FreeRows(b, u, j))
  <2>1. Rows - 1 \in Nat /\ FreeRows(b, u, j) \in SUBSET (0 .. Rows - 1)
    BY <1>0 DEF FreeRows
  <2> QED BY <1>1, <2>1, GreatestNumber
<1>2. ASSUME NEW x \in 0 .. Rows - 1, At(x, j) = Off, x # 0 PROVE FALSE
  <2>1. x \in Nat \ {0} /\ Cols \in Nat
    BY <1>0, <1>2
  <2>2. x * Cols >= Cols
    BY <2>1, Multiples
  <2>3. x * Cols \in Int
    BY <2>1
  <2> DEFINE a == x * Cols
  <2> HIDE DEF a
  <2>4. a + j = -1
    BY <1>2 DEF At, Off, a
  <2> QED BY <1>0, <2>2, <2>3, <2>4 DEF a
<1> QED BY <1>1, <1>2

(* What play() returns is a board again, and one of four results; a byte   *)
(* before the cells that is in use it leaves alone.                        *)
LEMMA LandedType ==
  ASSUME NEW b \in Board, NEW u, NEW i, NEW j, NEW p \in Peer,
         NEW r, r = Landed(b, u, i, j, p)
  PROVE  /\ r.board \in Board
         /\ r.win \in {1, 0, -2}
         /\ r.before = IF At(i, j) = Off THEN p ELSE u
<1> DEFINE new  == CellsWith(b, i, j, p)
           left == IF At(i, j) = Off THEN p ELSE u
           won  == CheckWin(new, i, j, p)
           top  == i = 0 /\ CheckFullTopRow(new)
           Outcome(full, win) ==
             [board |-> [cells |-> new, full |-> full], before |-> left, win |-> win]
<1>1. new \in [Cell -> Peer \cup {NULL}]
  BY DEF Board, CellsWith
<1>2. r = IF won THEN Outcome(FALSE, 1) ELSE IF top THEN Outcome(TRUE, -2) ELSE Outcome(FALSE, 0)
  BY Zenon DEF Landed
<1> HIDE DEF new, left, won, top
<1>3. r \in {Outcome(FALSE, 1), Outcome(TRUE, -2), Outcome(FALSE, 0)}
  BY <1>2
<1> DEFINE Fine(x) == x.board \in Board /\ x.win \in {1, 0, -2} /\ x.before = left
<1>4. Fine(Outcome(FALSE, 1)) /\ Fine(Outcome(TRUE, -2)) /\ Fine(Outcome(FALSE, 0))
  BY <1>1 DEF Board
<1>5. Fine(r)
  <2> HIDE DEF Fine, Outcome
  <2> QED BY <1>3, <1>4
<1> QED BY <1>5 DEF left

LEMMA PlayTokenType ==
  ASSUME NEW b \in Board, NEW u, NEW j \in -1 .. Cols - 1, NEW p \in Peer,
         NEW r, r = PlayToken(b, u, j, p)
  PROVE  /\ r.board \in Board
         /\ r.win \in {1, 0, -1, -2}
         /\ r.before \in {u, p}
         /\ u # NULL => r.before = u
<1>1. CASE b.full
  BY <1>1, PlayIs
<1>2. CASE ~b.full /\ FreeRows(b, u, j) = {}
  BY <1>2, PlayIs
<1>3. CASE ~b.full /\ FreeRows(b, u, j) # {}
  <2>1. PICK i : i = Max(FreeRows(b, u, j))
    OBVIOUS
  <2>2. r = Landed(b, u, i, j, p)
    BY <1>3, <2>1, PlayIs
  <2>3. i \in FreeRows(b, u, j)
    BY <1>3, <2>1, LowestFree
  <2>4. At(i, j) = Off => u = NULL
    BY <2>3 DEF FreeRows, HeldAt
  <2> QED BY <2>2, <2>4, LandedType
<1> QED BY <1>1, <1>2, <1>3

(* The byte before the cells makes no difference to a token that is not    *)
(* put there.                                                              *)
LEMMA SamePlay ==
  ASSUME NEW b \in Board, NEW u, NEW v, NEW j \in -1 .. Cols - 1, NEW p \in Peer,
         NEW r, r = PlayToken(b, u, j, p), NEW s, s = PlayToken(b, v, j, p),
         r.win # -1, u = v \/ r.before \notin Peer
  PROVE  /\ s.board = r.board /\ s.win = r.win
         /\ u # v => r.before = u /\ s.before = v
<1>1. CASE u = v
  BY <1>1
<1>2. CASE u # v /\ b.full
  BY <1>2, PlayIs
<1>3. CASE u # v /\ ~b.full
  <2>1. FreeRows(b, u, j) # {}
    BY <1>3, PlayIs
  <2>2. PICK i : i = Max(FreeRows(b, u, j))
    OBVIOUS
  <2>3. r = Landed(b, u, i, j, p)
    BY <1>3, <2>1, <2>2, PlayIs
  <2>4. i \in FreeRows(b, u, j) /\ \A x \in FreeRows(b, u, j) : x <= i
    BY <2>1, <2>2, LowestFree
  <2>5. At(i, j) # Off
    BY <1>3, <2>3, LandedType
  <2>6. i \in FreeRows(b, v, j)
    BY <2>4, <2>5 DEF FreeRows, HeldAt
  <2>7. i \in 0 .. Rows - 1
    BY <2>4 DEF FreeRows
  <2>8. ASSUME NEW x \in FreeRows(b, v, j) PROVE x <= i
    <3>1. x \in 0 .. Rows - 1
      BY DEF FreeRows
    <3>2. CASE At(x, j) = Off
      BY <2>7, <3>1, <3>2, LowestFree
    <3>3. CASE At(x, j) # Off
      BY <2>4, <3>3 DEF FreeRows, HeldAt
    <3> QED BY <3>2, <3>3
  <2>9. Max(FreeRows(b, v, j)) = i
    <3>1. PICK m : m = Max(FreeRows(b, v, j))
      OBVIOUS
    <3>2. m \in FreeRows(b, v, j) /\ \A x \in FreeRows(b, v, j) : x <= m
      BY <2>6, <3>1, LowestFree
    <3>3. m \in 0 .. Rows - 1
      BY <3>2 DEF FreeRows
    <3>4. m <= i /\ i <= m
      BY <2>6, <2>8, <3>2
    <3> QED BY <2>7, <3>1, <3>3, <3>4
  <2>10. s = Landed(b, v, i, j, p)
    BY <1>3, <2>6, <2>9, PlayIs
  <2>11. s.board = r.board /\ s.win = r.win
    <3> DEFINE new == CellsWith(b, i, j, p)
               won == CheckWin(new, i, j, p)
               top == i = 0 /\ CheckFullTopRow(new)
               B(full) == [cells |-> new, full |-> full]
    <3>2. ASSUME NEW w
          PROVE  /\ Landed(b, w, i, j, p).board =
                      IF won THEN B(FALSE) ELSE IF top THEN B(TRUE) ELSE B(FALSE)
                 /\ Landed(b, w, i, j, p).win = IF won THEN 1 ELSE IF top THEN -2 ELSE 0
      <4> DEFINE left == IF At(i, j) = Off THEN p ELSE w
                 Outcome(full, win) == [board |-> B(full), before |-> left, win |-> win]
      <4>1. Landed(b, w, i, j, p) =
              IF won THEN Outcome(FALSE, 1)
              ELSE IF top THEN Outcome(TRUE, -2) ELSE Outcome(FALSE, 0)
        BY Zenon DEF Landed
      <4> HIDE DEF left, new, won, top, B
      <4> QED BY <4>1
    <3> HIDE DEF new, won, top, B
    <3> QED BY <2>3, <2>10, <3>2
  <2> QED BY <2>3, <2>5, <2>10, <2>11, LandedType
<1> QED BY <1>1, <1>2, <1>3

(* A token in one of the columns of the board.                             *)
Played(b, j, p) == PlayToken(b, Junk, j, p)

LEMMA OnTheBoard ==
  ASSUME NEW b \in Board, NEW u, NEW j \in 0 .. Cols - 1, NEW p \in Peer
  PROVE  /\ PlayToken(b, u, j, p).board = Played(b, j, p).board
         /\ PlayToken(b, u, j, p).win = Played(b, j, p).win
         /\ PlayToken(b, u, j, p).before = u
<1>0. j \in -1 .. Cols - 1
  BY BoardAssumption
<1>1. \A i \in 0 .. Rows - 1 : At(i, j) # Off
  BY Places, BoardAssumption DEF Cell, Off
<1>2. \A w : FreeRows(b, w, j) = FreeRows(b, Junk, j)
  BY <1>1 DEF FreeRows, HeldAt
<1>3. CASE b.full
  BY <1>3, PlayIs DEF Played
<1>4. CASE ~b.full /\ FreeRows(b, Junk, j) = {}
  BY <1>2, <1>4, PlayIs DEF Played
<1>5. CASE ~b.full /\ FreeRows(b, Junk, j) # {}
  <2>1. PICK i : i = Max(FreeRows(b, Junk, j))
    OBVIOUS
  <2>2. i \in FreeRows(b, Junk, j)
    BY <1>0, <1>5, <2>1, LowestFree
  <2>3. At(i, j) # Off
    BY <1>1, <2>2 DEF FreeRows
  <2>4. FreeRows(b, u, j) = FreeRows(b, Junk, j)
    BY <1>2
  <2>5. /\ PlayToken(b, u, j, p) = Landed(b, u, i, j, p)
        /\ Played(b, j, p) = Landed(b, Junk, i, j, p)
    BY <1>5, <2>1, <2>4, PlayIs DEF Played
  <2>6. PICK r : r = PlayToken(b, u, j, p)
    OBVIOUS
  <2>7. PICK s : s = Played(b, j, p)
    OBVIOUS
  <2>8. r.before = u /\ r.win # -1 /\ s.before = Junk /\ s.win # -1
    BY <2>3, <2>5, <2>6, <2>7, LandedType
  <2>9. Junk \notin Peer
    BY MatchAssumption
  <2>10. r.board = s.board /\ r.win = s.win
    BY <1>0, <2>6, <2>7, <2>8, <2>9, SamePlay DEF Played
  <2> QED BY <2>6, <2>7, <2>8, <2>10
<1> QED BY <1>3, <1>4, <1>5

-----------------------------------------------------------------------------
(* What a result means is one of the results, and the two peers' words for *)
(* it correspond.                                                          *)
LEMMA MeaningType ==
  ASSUME NEW win \in {1, 0, -1, -2}
  PROVE  /\ Meaning(win, "won") \in {"none", "won", "draw"}
         /\ Meaning(win, "lost") \in {"none", "lost", "draw"}
         /\ Ends(win) <=> Meaning(win, "won") # "none"
         /\ Meaning(win, "lost") = SameResult[Meaning(win, "won")]
BY DEF Meaning, Ends, SameResult

(* Each peer is the other's adversary.                                     *)
LEMMA Adversaries ==
  ASSUME NEW p \in Peer
  PROVE  /\ Adversary(p) \in Peer /\ Adversary(p) # p
         /\ Adversary(Adversary(p)) = p
         /\ Peer = {p, Adversary(p)}
BY MatchAssumption DEF Peer, Adversary

LEMMA EmptyBoardType == EmptyBoard \in Board
BY DEF EmptyBoard, Board

-----------------------------------------------------------------------------
LEMMA InitInv == Init => MatchInv
<1> SUFFICES ASSUME Init PROVE MatchInv
  OBVIOUS
<1>1. MatchTypeOK
  <2>1. /\ board \in [Peer -> Board]
        /\ before \in [Peer -> Peer \cup {NULL, Junk}]
        /\ turn \in [Peer -> {"mine", "theirs"}]
        /\ result \in [Peer -> {"none", "won", "lost", "draw"}]
        /\ phase \in [Peer -> {"playing", "over", "failed"}]
        /\ moves \in [Peer -> Seq(-1 .. Cols - 1)]
        /\ gone \subseteq Peer
    BY EmptyBoardType DEF Init
  <2>2. zero \in BOOLEAN
    BY Zenon DEF Init
  <2> QED BY <2>1, <2>2, Zenon DEF MatchTypeOK
<1>2. Settled
  BY DEF Init, Settled, SameResult, Peer
<1>3. SameUnlessJunk(before[Host], before[Guest])
  BY DEF Init, SameUnlessJunk, Peer
<1>4. Agreed
  BY <1>2, <1>3, MatchAssumption DEF Init, Agreed, Peer, Adversary
<1> QED BY <1>1, <1>4 DEF Init, MatchInv

(* A player whose turn it is has nothing to read, and neither has the      *)
(* adversary.                                                              *)
LEMMA NothingOnItsWay ==
  ASSUME Agreed, NEW p \in Peer, phase[p] = "playing", turn[p] = "mine"
  PROVE  moves[p] = <<>> /\ moves[Adversary(p)] = <<>>
<1>1. moves[p] = <<>>
  BY DEF Agreed, AwaitsReading, OnItsWay
<1>2. moves[Adversary(p)] # <<>> => AwaitsReading(Adversary(p))
  BY Adversaries DEF Agreed
<1>3. ~AwaitsReading(Adversary(p))
  BY Adversaries DEF AwaitsReading
<1> QED BY <1>1, <1>2, <1>3

(* A byte that is in use stays as it is, so programs that are not alike    *)
(* never are again.                                                        *)
LEMMA AlikeBefore ==
  ASSUME MatchTypeOK, Alike', \A x \in Peer : before[x] # NULL => before'[x] = before[x]
  PROVE  Alike
<1> SUFFICES ASSUME NEW x \in Peer, before[x] = Junk, before[Adversary(x)] \in Peer
             PROVE  FALSE
  BY DEF Alike
<1>1. before'[x] = Junk /\ before'[Adversary(x)] \in Peer
  BY Adversaries, MatchAssumption
<1> QED BY <1>1 DEF Alike

LEMMA MyMoveInv ==
  ASSUME MatchInv, NEW p \in Peer, NEW k \in Typed, MyMove(p, k)
  PROVE  MatchInv'
<1> DEFINE q == Adversary(p)
           r == PlayToken(board[p], before[p], k - 1, p)
<1>1. /\ q \in Peer /\ q # p /\ Adversary(q) = p /\ Peer = {p, q}
      /\ p \notin gone
  BY Adversaries DEF MatchInv, MyMove
<1> HIDE DEF q
<1>2. MatchTypeOK
  BY DEF MatchInv
<1>3. k - 1 \in -1 .. Cols - 1
  BY MatchAssumption, BoardAssumption
<1>4. /\ r.board \in Board /\ r.win \in {1, 0, -1, -2}
      /\ r.before \in {before[p], p}
      /\ before[p] # NULL => r.before = before[p]
  <2> HIDE DEF r
  <2>1. PICK j \in -1 .. Cols - 1 : j = k - 1
    BY <1>3
  <2>2. r = PlayToken(board[p], before[p], j, p) /\ board[p] \in Board
    BY <1>2, <2>1 DEF MatchTypeOK, r
  <2> QED BY <2>2, PlayTokenType
<1> DEFINE won == Meaning(r.win, "won")
           b   == r.board
           w   == r.win
           u   == r.before
<1>5. /\ won \in {"none", "won", "draw"}
      /\ Ends(w) <=> won # "none"
  BY <1>4, MeaningType
<1>6. PICK sent \in IF q \in gone THEN BOOLEAN ELSE {TRUE} :
        /\ w # -1
        /\ board' = [board EXCEPT ![p] = b]
        /\ before' = [before EXCEPT ![p] = u]
        /\ result' = [result EXCEPT ![p] = won]
        /\ moves' = IF q \in gone THEN moves ELSE [moves EXCEPT ![q] = Append(@, Sent(k))]
        /\ phase' = [phase EXCEPT ![p] = IF ~sent THEN "failed"
                                         ELSE IF Ends(w) THEN "over" ELSE @]
        /\ turn' = [turn EXCEPT ![p] = IF sent /\ ~Ends(w) THEN "theirs" ELSE @]
        /\ gone' = gone
  BY Zenon DEF MyMove, q
<1>7. Sent(k) \in -1 .. Cols - 1 /\ Sent(k) = k - 1
  BY <1>3 DEF Sent
<1>8. phase[p] = "playing" /\ turn[p] = "mine"
  BY DEF MyMove
<1>9. /\ u \in Peer \cup {NULL, Junk}
      /\ u \in {before[p], p}
      /\ before[p] # NULL => u = before[p]
  BY <1>2, <1>4 DEF MatchTypeOK
<1> HIDE DEF r, won, b, w, u
<1>10. MatchTypeOK'
  <2>1. won \in {"none", "won", "lost", "draw"} /\ b \in Board
    BY <1>4, <1>5 DEF b
  <2>2. moves' \in [Peer -> Seq(-1 .. Cols - 1)]
    BY <1>1, <1>2, <1>6, <1>7 DEF MatchTypeOK
  <2>3. phase' \in [Peer -> {"playing", "over", "failed"}]
    BY <1>2, <1>6 DEF MatchTypeOK
  <2>4. turn' \in [Peer -> {"mine", "theirs"}]
    BY <1>2, <1>6 DEF MatchTypeOK
  <2>5. before' \in [Peer -> Peer \cup {NULL, Junk}]
    BY <1>2, <1>6, <1>9 DEF MatchTypeOK
  <2>6. board' \in [Peer -> Board] /\ result' \in [Peer -> {"none", "won", "lost", "draw"}]
        /\ gone' \subseteq Peer
    BY <1>2, <1>6, <2>1 DEF MatchTypeOK
  <2>7. zero' \in BOOLEAN
    BY Zenon DEF MyMove
  <2> QED BY <2>2, <2>3, <2>4, <2>5, <2>6, <2>7, Zenon DEF MatchTypeOK
<1>11. \A x \in gone' : phase'[x] # "playing"
  BY <1>1, <1>2, <1>6 DEF MatchInv, MatchTypeOK
<1>12. SUFFICES ASSUME Alike' PROVE Agreed'
  BY <1>10, <1>11 DEF MatchInv
<1>13. before'[p] = u /\ before'[q] = before[q]
  BY <1>1, <1>2, <1>6 DEF MatchTypeOK
<1>14. Alike /\ Agreed /\ moves[p] = <<>> /\ moves[q] = <<>>
  <2>1. \A x \in Peer : before[x] # NULL => before'[x] = before[x]
    BY <1>1, <1>13, <1>9
  <2>2. Alike
    BY <1>2, <1>12, <2>1, AlikeBefore
  <2>3. Agreed
    BY <2>2 DEF MatchInv
  <2> QED BY <1>8, <2>2, <2>3, NothingOnItsWay DEF q
<1>15. CASE gone = {}
  <2>1. Settled /\ turn[q] = "theirs" /\ SameUnlessJunk(before[p], before[q])
    <3>1. /\ Settled /\ turn[q] = "theirs"
          /\ SameUnlessJunk(before[Host], before[Guest])
      BY <1>1, <1>14, <1>8, <1>15 DEF Agreed, q
    <3> QED BY <1>1, <3>1 DEF SameUnlessJunk, Peer
  <2>2. board[q] = board[p]
    BY <2>1, <1>1 DEF Settled, Peer
  <2>3. sent /\ moves' = [moves EXCEPT ![q] = Append(@, Sent(k))]
    BY <1>6, <1>15
  <2>4. moves'[q] = <<k - 1>> /\ moves'[p] = <<>>
    BY <2>3, <1>1, <1>2, <1>7, <1>14 DEF MatchTypeOK
  <2>5. board'[q] = board[p] /\ board'[p] = b /\ result'[p] = won /\ turn'[q] = "theirs"
    BY <1>1, <1>2, <1>6, <2>1, <2>2 DEF MatchTypeOK
  <2> DEFINE s == PlayToken(board[p], before[q], k - 1, p)
  <2>6. /\ s.board = r.board /\ s.win = r.win
        /\ SameUnlessJunk(s.before, r.before)
    <3>1. before[p] = before[q] \/ r.before \notin Peer
      <4>1. CASE before[p] = Junk
        BY <1>9, <4>1, MatchAssumption DEF u
      <4>2. CASE before[q] = Junk
        BY <1>1, <1>12, <1>13, <4>2 DEF Alike, u
      <4> QED BY <2>1, <4>1, <4>2 DEF SameUnlessJunk
    <3>2. PICK j \in -1 .. Cols - 1 : j = k - 1
      BY <1>3
    <3>3. board[p] \in Board /\ r = PlayToken(board[p], before[p], j, p) /\ r.win # -1
      BY <1>2, <1>6, <3>2 DEF MatchTypeOK, r, w
    <3>4. s = PlayToken(board[p], before[q], j, p)
      BY <3>2
    <3> HIDE DEF s
    <3>5. /\ s.board = r.board /\ s.win = r.win
          /\ before[p] # before[q] => r.before = before[p] /\ s.before = before[q]
      BY <3>1, <3>3, <3>4, SamePlay
    <3>6. before[p] = before[q] => s = r
      BY <3>3, <3>4
    <3> QED BY <2>1, <3>5, <3>6 DEF SameUnlessJunk
  <2>7. s = PlayToken(board'[q], before'[q], moves'[q][1], Adversary(q))
    <3>1. moves'[q][1] = k - 1
      BY <2>4
    <3> QED BY <1>1, <1>13, <2>5, <3>1
  <2> HIDE DEF s
  <2>8. OnItsWay(q)'
    <3>1. moves'[Adversary(q)] = <<>> /\ Len(moves'[q]) = 1
      BY <1>1, <2>4
    <3>3. /\ s.win # -1 /\ s.board = board'[Adversary(q)]
          /\ Meaning(s.win, "won") = result'[Adversary(q)]
      BY <1>1, <1>6, <2>5, <2>6 DEF b, w, won
    <3> QED BY <3>1, <2>7, <3>3, <2>5 DEF OnItsWay
  <2>9. /\ phase'[p] = "playing" => turn'[p] = "theirs"
        /\ result'[p] = "none" => turn'[p] = "theirs"
    BY <1>2, <1>5, <1>6, <1>8, <2>3, <2>5 DEF MatchTypeOK
  <2>10. SameUnlessJunk(s.before, before'[p])
    BY <1>13, <2>6 DEF u
  <2>11. AwaitsReading(q)'
    BY <1>1, <2>8, <2>9, <2>10, <2>7 DEF AwaitsReading
  <2>12. moves'[q] # <<>>
    BY <2>4
  <2> QED BY <1>1, <1>6, <1>15, <2>4, <2>11, <2>12 DEF Agreed
<1>16. CASE gone # {}
  <2>1. q \in gone
    BY <1>1, <1>2, <1>16 DEF MatchTypeOK
  <2>2. moves' = moves /\ gone' # {}
    BY <1>6, <1>16, <2>1
  <2>4. \A x \in Peer : moves'[x] = <<>>
    BY <1>1, <1>14, <2>2
  <2> QED BY <2>2, <2>4 DEF Agreed
<1> QED BY <1>15, <1>16

LEMMA TheirMoveInv ==
  ASSUME MatchInv, NEW p \in Peer, TheirMove(p)
  PROVE  MatchInv'
<1> DEFINE q == Adversary(p)
           r == PlayToken(board[p], before[p], moves[p][1], q)
           lost == Meaning(r.win, "lost")
           b    == r.board
           w    == r.win
           u    == r.before
<1>1. /\ q \in Peer /\ q # p /\ Adversary(q) = p /\ Peer = {p, q}
      /\ p \notin gone
  BY Adversaries DEF MatchInv, TheirMove
<1>2. MatchTypeOK /\ phase[p] = "playing" /\ moves[p] # <<>>
  BY DEF MatchInv, TheirMove
<1> HIDE DEF q
<1>3. Head(moves[p]) = moves[p][1] /\ moves[p][1] \in -1 .. Cols - 1
  <2>1. moves[p] \in Seq(-1 .. Cols - 1) /\ moves[p] # <<>>
    BY <1>2 DEF MatchTypeOK
  <2>2. Head(moves[p]) \in -1 .. Cols - 1
    BY <2>1, HeadTailProperties
  <2> QED BY <2>1, <2>2
<1>4. /\ r.board \in Board /\ r.win \in {1, 0, -1, -2}
      /\ r.before \in {before[p], q}
      /\ before[p] # NULL => r.before = before[p]
  <2> HIDE DEF r
  <2>1. PICK j \in -1 .. Cols - 1 : j = moves[p][1]
    BY <1>3
  <2>2. r = PlayToken(board[p], before[p], j, q) /\ board[p] \in Board
    BY <1>2, <2>1 DEF MatchTypeOK, r
  <2> QED BY <1>1, <2>2, PlayTokenType
<1>5. /\ lost \in {"none", "lost", "draw"}
      /\ Ends(w) <=> Meaning(w, "won") # "none"
      /\ lost = SameResult[Meaning(w, "won")]
  BY <1>4, MeaningType
<1>6. /\ board' = [board EXCEPT ![p] = b]
      /\ before' = [before EXCEPT ![p] = u]
      /\ result' = [result EXCEPT ![p] = lost]
      /\ moves' = [moves EXCEPT ![p] = Tail(@)]
      /\ phase' = [phase EXCEPT ![p] = IF Ends(w) THEN "over" ELSE @]
      /\ turn' = [turn EXCEPT ![p] = "mine"]
      /\ gone' = gone
  BY <1>3 DEF TheirMove, TheirMark, TurnBack, q
<1>7. /\ u \in Peer \cup {NULL, Junk}
      /\ before[p] # NULL => u = before[p]
  BY <1>1, <1>2, <1>4 DEF MatchTypeOK
<1> HIDE DEF r, lost, b, w, u
<1>8. MatchTypeOK'
  <2>1. lost \in {"none", "won", "lost", "draw"} /\ b \in Board
    BY <1>4, <1>5 DEF b
  <2>2. Tail(moves[p]) \in Seq(-1 .. Cols - 1)
    <3>1. moves[p] \in Seq(-1 .. Cols - 1) /\ moves[p] # <<>>
      BY <1>2 DEF MatchTypeOK
    <3> QED BY <3>1, HeadTailProperties
  <2>3. before' \in [Peer -> Peer \cup {NULL, Junk}]
    BY <1>2, <1>6, <1>7 DEF MatchTypeOK
  <2>4. /\ board' \in [Peer -> Board] /\ result' \in [Peer -> {"none", "won", "lost", "draw"}]
        /\ turn' \in [Peer -> {"mine", "theirs"}] /\ gone' \subseteq Peer
        /\ phase' \in [Peer -> {"playing", "over", "failed"}]
        /\ moves' \in [Peer -> Seq(-1 .. Cols - 1)]
    BY <1>2, <1>6, <2>1, <2>2 DEF MatchTypeOK
  <2>5. zero' \in BOOLEAN
    BY <1>2, Zenon DEF MatchTypeOK, TheirMove
  <2> QED BY <2>3, <2>4, <2>5, Zenon DEF MatchTypeOK
<1>9. \A x \in gone' : phase'[x] # "playing"
  BY <1>1, <1>2, <1>6 DEF MatchTypeOK, MatchInv
<1>10. SUFFICES ASSUME Alike' PROVE Agreed'
  BY <1>8, <1>9 DEF MatchInv
<1>11. AwaitsReading(p)
  <2>1. \A x \in Peer : before[x] # NULL => before'[x] = before[x]
    BY <1>1, <1>2, <1>6, <1>7 DEF MatchTypeOK
  <2>2. Alike
    BY <1>2, <1>10, <2>1, AlikeBefore
  <2> QED BY <1>2, <2>2 DEF MatchInv, Agreed
<1>12. /\ Ends(w) <=> result[q] # "none"
       /\ lost = SameResult[result[q]]
       /\ b = board[q]
       /\ moves[q] = <<>> /\ Len(moves[p]) = 1
       /\ SameUnlessJunk(u, before[q])
  BY <1>5, <1>11 DEF AwaitsReading, OnItsWay, q, r, b, w, u
<1>13. moves'[p] = <<>> /\ moves'[q] = <<>>
  BY <1>1, <1>2, <1>6, <1>12 DEF MatchTypeOK
<1>14. Settled'
  <2>1. board'[p] = board'[q] /\ result'[p] = SameResult[result'[q]]
    BY <1>1, <1>2, <1>6, <1>12 DEF MatchTypeOK
  <2>2. /\ \A x \in Peer : moves'[x] = <<>>
        /\ board'[Host] = board'[Guest]
    BY <1>1, <1>13, <2>1 DEF Peer
  <2>3. result'[Guest] = SameResult[result'[Host]]
    <3>1. {result'[p], result'[q]} \subseteq {"none", "won", "lost", "draw"}
      BY <1>1, <1>8 DEF MatchTypeOK
    <3>2. result'[q] = SameResult[result'[p]]
      BY <2>1, <3>1 DEF SameResult
    <3>3. \/ p = Host /\ q = Guest
          \/ p = Guest /\ q = Host
      BY <1>1 DEF Peer
    <3> QED BY <2>1, <3>2, <3>3
  <2> QED BY <2>2, <2>3 DEF Settled
<1>15. SameUnlessJunk(before'[Host], before'[Guest])
  <2>1. before'[p] = u /\ before'[q] = before[q]
    BY <1>1, <1>2, <1>6 DEF MatchTypeOK
  <2> QED BY <1>1, <1>12, <2>1 DEF SameUnlessJunk, Peer
<1>16. gone = {} => \A x \in Peer : phase'[x] = "playing" /\ turn'[x] = "mine" =>
                                     turn'[Adversary(x)] = "theirs"
  <2> SUFFICES ASSUME gone = {}
               PROVE  /\ phase'[p] = "playing" => turn'[q] = "theirs"
                      /\ ~(phase'[q] = "playing" /\ turn'[q] = "mine")
    BY <1>1 DEF q
  <2>1. phase'[p] = "playing" => result[q] = "none"
    BY <1>2, <1>6, <1>12 DEF MatchTypeOK
  <2>2. turn'[q] = turn[q] /\ phase'[q] = phase[q]
    BY <1>1, <1>2, <1>6 DEF MatchTypeOK
  <2>3. /\ phase[q] = "playing" => turn[q] = "theirs"
        /\ result[q] = "none" => turn[q] = "theirs"
    BY <1>11 DEF AwaitsReading, q
  <2> QED BY <2>1, <2>2, <2>3
<1> QED BY <1>1, <1>6, <1>13, <1>14, <1>15, <1>16 DEF Agreed

(* The connection being closed, the peers need not agree any more.         *)
LEMMA LeavingInv ==
  ASSUME MatchInv, gone' # {}, MatchTypeOK',
         UNCHANGED <<board, before, turn, result, moves>>,
         \A x \in Peer : phase'[x] = "playing" => phase[x] = "playing",
         \A x \in gone' : phase'[x] # "playing"
  PROVE  MatchInv'
<1>1. SUFFICES ASSUME Alike' PROVE Agreed'
  BY DEF MatchInv
<1>2. Agreed
  BY <1>1 DEF MatchInv, Alike
<1>3. ASSUME NEW x \in Peer, moves'[x] # <<>>
      PROVE  AwaitsReading(x)'
  <2>1. AwaitsReading(x)
    BY <1>2, <1>3 DEF Agreed
  <2> QED BY <2>1, Adversaries DEF AwaitsReading, OnItsWay
<1> QED BY <1>3 DEF Agreed

LEMMA ReceiveFailsInv ==
  ASSUME MatchInv, NEW p \in Peer, ReceiveFails(p)
  PROVE  MatchInv'
<1>1. MatchTypeOK' /\ gone' # {} /\ UNCHANGED <<board, before, turn, result, moves>>
  BY DEF MatchInv, MatchTypeOK, ReceiveFails
<1>2. /\ \A x \in Peer : phase'[x] = "playing" => phase[x] = "playing"
      /\ \A x \in gone' : phase'[x] # "playing"
  BY DEF MatchInv, MatchTypeOK, ReceiveFails
<1> QED BY <1>1, <1>2, LeavingInv

LEMMA LeaveInv ==
  ASSUME MatchInv, NEW p \in Peer, Leave(p)
  PROVE  MatchInv'
<1>1. MatchTypeOK' /\ gone' # {} /\ UNCHANGED <<board, before, turn, result, moves>>
  BY DEF MatchInv, MatchTypeOK, Leave
<1>2. /\ \A x \in Peer : phase'[x] = "playing" => phase[x] = "playing"
      /\ \A x \in gone' : phase'[x] # "playing"
  BY DEF MatchInv, MatchTypeOK, Leave
<1> QED BY <1>1, <1>2, LeavingInv

LEMMA StutterInv ==
  ASSUME MatchInv, UNCHANGED vars
  PROVE  MatchInv'
BY DEF vars, MatchInv, MatchTypeOK, Agreed, Alike, AwaitsReading, OnItsWay, Settled

LEMMA StepInv == MatchInv /\ [Next]_vars => MatchInv'
<1> SUFFICES ASSUME MatchInv, [Next]_vars PROVE MatchInv'
  OBVIOUS
<1>1. CASE \E p \in Peer, k \in Typed : MyMove(p, k)
  BY <1>1, MyMoveInv
<1>2. CASE \E p \in Peer : TheirMove(p)
  BY <1>2, TheirMoveInv
<1>3. CASE \E p \in Peer : ReceiveFails(p)
  BY <1>3, ReceiveFailsInv
<1>4. CASE \E p \in Peer : Leave(p)
  BY <1>4, LeaveInv
<1>5. CASE UNCHANGED vars
  BY <1>5, StutterInv
<1> QED BY <1>1, <1>2, <1>3, <1>4, <1>5 DEF Next

(* Every reachable state of a match satisfies the inductive invariant.     *)
THEOREM MatchInvariant == Spec => []MatchInv
BY InitInv, StepInv, PTL DEF Spec

(* The variables of a match keep their types, whatever the players type:   *)
(* in particular play() is never asked for a column but -1 that is off the *)
(* board (multi_player.cpp:57, 91), and never leaves the byte before the   *)
(* cells with anything but what was there or a token.                      *)
THEOREM MatchTypeCorrect == Spec => []MatchTypeOK
<1>1. MatchInv => MatchTypeOK
  BY DEF MatchInv
<1> QED BY <1>1, MatchInvariant, PTL

(* Boards and results of the two peers never differ by more than the move  *)
(* that is on its way (multi_player.cpp:60-104), on a board of any size    *)
(* and with column 0 played like the others, as long as no token is put    *)
(* off the board where only one of the programs has room for it.           *)
THEOREM PeersAlwaysAgree == Spec => []PeersAgree
<1>1. MatchInv => PeersAgree
  <2> SUFFICES ASSUME MatchInv, gone = {}, Alike, ~Settled
               PROVE  \E p \in Peer : OnItsWay(p)
    BY DEF PeersAgree
  <2>1. Agreed
    BY DEF MatchInv
  <2>2. PICK p \in Peer : moves[p] # <<>>
    BY <2>1 DEF Agreed
  <2>3. OnItsWay(p)
    BY <2>1, <2>2 DEF Agreed, AwaitsReading
  <2> QED BY <2>3
<1> QED BY <1>1, MatchInvariant, PTL

-----------------------------------------------------------------------------
(* Tokens lie on one another: below a token there are tokens.              *)
Fallen(cells) ==
  \A j \in 0 .. Cols - 1 : \A i, x \in 0 .. Rows - 1 :
    i <= x /\ cells[At(i, j)] # NULL => cells[At(x, j)] # NULL

Height(cells, j) == Cardinality({i \in 0 .. Rows - 1 : cells[At(i, j)] # NULL})

(* So a column's tokens are in its lowest places, as many as there are.    *)
LEMMA HeightOfFallen ==
  ASSUME NEW cells, Fallen(cells), NEW j \in 0 .. Cols - 1
  PROVE  /\ Height(cells, j) \in 0 .. Rows
         /\ \A i \in 0 .. Rows - 1 :
              cells[At(i, j)] # NULL <=> i >= Rows - Height(cells, j)
<1> DEFINE F == {i \in 0 .. Rows - 1 : cells[At(i, j)] # NULL}
<1>0. Rows \in Nat \ {0}
  BY BoardAssumption
<1>1. \A i, x \in 0 .. Rows - 1 : i <= x /\ i \in F => x \in F
  BY DEF Fallen
<1>2. Height(cells, j) = Cardinality(F) /\ F \subseteq 0 .. Rows - 1
  BY DEF Height
<1>3. \A i \in 0 .. Rows - 1 : i \in F <=> cells[At(i, j)] # NULL
  OBVIOUS
<1> HIDE DEF F
<1>4. CASE F = {}
  <2>1. Cardinality(F) = 0
    BY <1>4, FS_EmptySet
  <2> QED BY <1>0, <1>2, <1>3, <1>4, <2>1
<1>5. CASE F # {}
  <2>1. F \subseteq Nat
    BY <1>0, <1>2
  <2>2. PICK m \in F : \A x \in F : m <= x
    BY <1>5, <2>1, LeastNumber
  <2>3. m \in 0 .. Rows - 1
    BY <1>2
  <2>4. F = m .. Rows - 1
    <3>1. ASSUME NEW x \in F PROVE x \in m .. Rows - 1
      <4>1. x \in 0 .. Rows - 1 /\ m <= x
        BY <1>2, <2>2
      <4> QED BY <1>0, <2>3, <4>1
    <3>2. ASSUME NEW x \in m .. Rows - 1 PROVE x \in F
      <4>1. x \in 0 .. Rows - 1 /\ m <= x
        BY <1>0, <2>3
      <4> QED BY <1>1, <2>3, <4>1
    <3> QED BY <3>1, <3>2
  <2>5. Cardinality(F) = Rows - m
    <3>1. m \in Int /\ Rows - 1 \in Int /\ ~(m > Rows - 1)
      BY <1>0, <2>3
    <3>2. Cardinality(F) = (Rows - 1) - m + 1
      BY <2>4, <3>1, FS_Interval
    <3> QED BY <1>0, <2>3, <3>2
  <2> QED BY <1>0, <1>2, <1>3, <2>3, <2>4, <2>5
<1> QED BY <1>4, <1>5

(* What play() does to a board that is not full, in a column with room: a  *)
(* token on top of the column, and a result that tells what there is then. *)
LEMMA TokenPlayed ==
  ASSUME NEW b \in Board, Fallen(b.cells), ~b.full, NEW j \in 0 .. Cols - 1, NEW p \in Peer,
         NEW r, r = Played(b, j, p), r.win # -1,
         NEW h, h = Height(b.cells, j), NEW i, i = Rows - 1 - h,
         NEW new, new = [b.cells EXCEPT ![At(i, j)] = p]
  PROVE  /\ h \in 0 .. Rows - 1 /\ i \in 0 .. Rows - 1
         /\ b.cells[At(i, j)] = NULL
         /\ r.board.cells = new
         /\ r.win \in {1, 0, -2}
         /\ r.win = 1 <=> CheckWin(new, i, j, p)
         /\ r.win # 1 => (r.win = -2 <=> i = 0 /\ CheckFullTopRow(new))
         /\ r.board.full <=> r.win = -2
<1> DEFINE Free == {x \in 0 .. Rows - 1 : b.cells[At(x, j)] = NULL}
           m    == Max(Free)
           then == [b.cells EXCEPT ![At(m, j)] = p]
           won  == CheckWin(then, m, j, p)
           top  == m = 0 /\ CheckFullTopRow(then)
           Outcome(full, win) ==
             [board |-> [cells |-> then, full |-> full], before |-> Junk, win |-> win]
<1>0. Rows \in Nat \ {0} /\ j \in -1 .. Cols - 1
  BY BoardAssumption
<1>1. /\ h \in 0 .. Rows
      /\ \A x \in 0 .. Rows - 1 : b.cells[At(x, j)] # NULL <=> x >= Rows - h
  BY HeightOfFallen
<1>2. r = IF Free = {} THEN [board |-> b, before |-> Junk, win |-> -1]
          ELSE IF won THEN Outcome(FALSE, 1)
          ELSE IF top THEN Outcome(TRUE, -2)
          ELSE Outcome(FALSE, 0)
  <2>1. \A x \in 0 .. Rows - 1 : At(x, j) # Off
    BY Places, BoardAssumption DEF Cell, Off
  <2>2. Free = FreeRows(b, Junk, j)
    BY <2>1 DEF FreeRows, HeldAt
  <2> HIDE DEF Free
  <2>3. CASE Free = {}
    BY <2>2, <2>3, PlayIs DEF Played
  <2>4. CASE Free # {}
    <3>1. r = Landed(b, Junk, m, j, p)
      BY <2>2, <2>4, PlayIs DEF Played
    <3>2. m \in FreeRows(b, Junk, j)
      BY <1>0, <2>2, <2>4, LowestFree
    <3>3. At(m, j) # Off
      BY <2>1, <3>2 DEF FreeRows
    <3>4. CellsWith(b, m, j, p) = then
      BY <3>3 DEF CellsWith
    <3>5. Landed(b, Junk, m, j, p) =
            IF won THEN Outcome(FALSE, 1)
            ELSE IF top THEN Outcome(TRUE, -2) ELSE Outcome(FALSE, 0)
      BY Zenon, <3>3, <3>4 DEF Landed
    <3> HIDE DEF m, then, won, top, Outcome
    <3> QED BY <2>4, <3>1, <3>5
  <2> QED BY <2>3, <2>4
<1>3. Free # {}
  <2> HIDE DEF Free, Outcome, won, top
  <2>1. Free = {} => r.win = -1
    BY <1>2
  <2> QED BY <2>1
<1>4. Free \in SUBSET (0 .. Rows - 1) /\ \A x \in 0 .. Rows - 1 : x \in Free <=> ~(x >= Rows - h)
  BY <1>1
<1>5. m \in Free /\ \A x \in Free : x <= m
  <2>1. Rows - 1 \in Nat
    BY <1>0
  <2> HIDE DEF Free
  <2> QED BY <1>3, <1>4, <2>1, GreatestNumber
<1>6. m = i /\ i \in 0 .. Rows - 1 /\ h \in 0 .. Rows - 1
  <2> HIDE DEF Free, m
  <2>1. m \in 0 .. Rows - 1 /\ m < Rows - h
    BY <1>0, <1>1, <1>4, <1>5
  <2>2. Rows - 1 - h \in 0 .. Rows - 1
    BY <1>0, <1>1, <2>1
  <2>3. Rows - 1 - h \in Free
    BY <1>0, <1>1, <1>4, <2>2
  <2> QED BY <1>0, <1>1, <1>5, <2>1, <2>2, <2>3
<1>7. b.cells[At(i, j)] = NULL
  BY <1>0, <1>1, <1>6
<1>8. /\ r.board.cells = then
      /\ r.win \in {1, 0, -2}
      /\ r.win = 1 <=> won
      /\ r.win # 1 => (r.win = -2 <=> top)
      /\ r.board.full <=> r.win = -2
  <2> HIDE DEF Free, won, top, then
  <2> QED BY <1>2, <1>3
<1>9. then = new
  BY <1>6
<1> HIDE DEF then, m, Free
<1> QED BY <1>6, <1>7, <1>8, <1>9

(* The cells after a token fell on top of column j: they lie on one        *)
(* another again, and column j has one more.                               *)
LEMMA TokenOnTop ==
  ASSUME NEW cells \in [Cell -> Peer \cup {NULL}], Fallen(cells),
         NEW j \in 0 .. Cols - 1, NEW p \in Peer,
         NEW h, h = Height(cells, j), h \in 0 .. Rows - 1,
         NEW i, i = Rows - 1 - h,
         NEW new, new = [cells EXCEPT ![At(i, j)] = p]
  PROVE  /\ new \in [Cell -> Peer \cup {NULL}]
         /\ \A x \in 0 .. Rows - 1, y \in 0 .. Cols - 1 :
              new[At(x, y)] = IF x = i /\ y = j THEN p ELSE cells[At(x, y)]
         /\ Fallen(new)
         /\ Height(new, j) = h + 1
         /\ \A y \in 0 .. Cols - 1 : y # j => Height(new, y) = Height(cells, y)
<1>0. Rows \in Nat \ {0} /\ i \in 0 .. Rows - 1 /\ p # NULL
  BY BoardAssumption, MatchAssumption
<1>1. new \in [Cell -> Peer \cup {NULL}]
  OBVIOUS
<1>2. ASSUME NEW x \in 0 .. Rows - 1, NEW y \in 0 .. Cols - 1
      PROVE  new[At(x, y)] = IF x = i /\ y = j THEN p ELSE cells[At(x, y)]
  <2>1. At(x, y) \in Cell /\ At(i, j) \in Cell /\ (At(x, y) = At(i, j) <=> x = i /\ y = j)
    BY <1>0, Places
  <2> QED BY <2>1
<1>3. \A x \in 0 .. Rows - 1 : cells[At(x, j)] # NULL <=> x >= Rows - h
  BY HeightOfFallen
<1>4. \A x \in 0 .. Rows - 1 : new[At(x, j)] # NULL <=> x >= Rows - (h + 1)
  BY <1>0, <1>2, <1>3
<1>5. Fallen(new)
  <2> SUFFICES ASSUME NEW y \in 0 .. Cols - 1, NEW x \in 0 .. Rows - 1, NEW z \in 0 .. Rows - 1,
                      x <= z, new[At(x, y)] # NULL
               PROVE  new[At(z, y)] # NULL
    BY DEF Fallen
  <2>1. CASE y = j
    BY <1>0, <1>4, <2>1
  <2>2. CASE y # j
    <3>1. new[At(x, y)] = cells[At(x, y)] /\ new[At(z, y)] = cells[At(z, y)]
      BY <1>2, <2>2
    <3> QED BY <3>1 DEF Fallen
  <2> QED BY <2>1, <2>2
<1>6. Height(new, j) = h + 1
  <2> DEFINE g == Height(new, j)
  <2>1. g \in 0 .. Rows /\ \A x \in 0 .. Rows - 1 : new[At(x, j)] # NULL <=> x >= Rows - g
    BY <1>5, HeightOfFallen
  <2>2. \A x \in 0 .. Rows - 1 : x >= Rows - g <=> x >= Rows - (h + 1)
    BY <1>4, <2>1
  <2>3. PICK k \in 0 .. Rows - 1 : k = Rows - (h + 1)
    BY <1>0
  <2> HIDE DEF g
  <2>4. k >= Rows - g
    BY <1>0, <2>2, <2>3
  <2>5. PICK l \in 0 .. Rows - 1 : l = Rows - g
    BY <1>0, <2>1, <2>3, <2>4
  <2>6. l >= Rows - (h + 1)
    BY <1>0, <2>1, <2>2, <2>5
  <2>7. g = h + 1
    BY <1>0, <2>1, <2>3, <2>4, <2>5, <2>6
  <2> QED BY <2>7 DEF g
<1>7. ASSUME NEW y \in 0 .. Cols - 1, y # j PROVE Height(new, y) = Height(cells, y)
  <2>1. \A x \in 0 .. Rows - 1 : new[At(x, y)] = cells[At(x, y)]
    BY <1>2, <1>7
  <2>2. {x \in 0 .. Rows - 1 : new[At(x, y)] # NULL} = {x \in 0 .. Rows - 1 : cells[At(x, y)] # NULL}
    BY <2>1
  <2> QED BY <2>2 DEF Height
<1> QED BY <1>1, <1>2, <1>5, <1>6, <1>7

(* A column as a sequence of tokens, lowest first.                         *)
LEMMA ColumnShape ==
  ASSUME NEW b, Fallen(b.cells), NEW c \in 1 .. Cols
  PROVE  /\ Height(b.cells, c - 1) \in 0 .. Rows
         /\ ColumnOf(b, c) =
              [r \in 1 .. Height(b.cells, c - 1) |-> b.cells[At(Rows - r, c - 1)]]
         /\ Len(ColumnOf(b, c)) = Height(b.cells, c - 1)
<1> DEFINE h == Height(b.cells, c - 1)
<1>1. c - 1 \in 0 .. Cols - 1
  BY BoardAssumption
<1>2. h \in 0 .. Rows
  BY <1>1, HeightOfFallen
<1>3. ColumnOf(b, c) = [r \in 1 .. h |-> b.cells[At(Rows - r, c - 1)]]
  BY DEF ColumnOf, Height
<1> HIDE DEF h
<1>4. Len(ColumnOf(b, c)) = h
  BY <1>2, <1>3, BoardAssumption
<1> QED BY <1>2, <1>3, <1>4 DEF h

FellInto(b, nb, i, j, p) ==
  /\ Fallen(b.cells) /\ Fallen(nb.cells)
  /\ Height(b.cells, j) = Rows - 1 - i
  /\ Height(nb.cells, j) = Rows - i
  /\ \A y \in 0 .. Cols - 1 : y # j => Height(nb.cells, y) = Height(b.cells, y)
  /\ \A x \in 0 .. Rows - 1, y \in 0 .. Cols - 1 :
       nb.cells[At(x, y)] = IF x = i /\ y = j THEN p ELSE b.cells[At(x, y)]

Columns(b) == [c \in 1 .. Cols |-> ColumnOf(b, c)]

(* The column that was played has the token appended; the others are as    *)
(* they were.                                                              *)
LEMMA ColumnsAfter ==
  ASSUME NEW b, NEW nb, NEW i \in 0 .. Rows - 1, NEW j \in 0 .. Cols - 1, NEW p,
         FellInto(b, nb, i, j, p)
  PROVE  Columns(nb) = [Columns(b) EXCEPT ![j + 1] = Append(@, p)]
<1>4. Rows \in Nat \ {0} /\ Cols \in Nat \ {0}
  BY BoardAssumption
<1>5. PICK h \in 0 .. Rows - 1 : h = Rows - 1 - i /\ i = Rows - 1 - h
  BY <1>4
<1>6. /\ Fallen(b.cells) /\ Fallen(nb.cells)
      /\ Height(b.cells, j) = h /\ Height(nb.cells, j) = h + 1
      /\ \A y \in 0 .. Cols - 1 : y # j => Height(nb.cells, y) = Height(b.cells, y)
      /\ \A x \in 0 .. Rows - 1, y \in 0 .. Cols - 1 :
           nb.cells[At(x, y)] = IF x = i /\ y = j THEN p ELSE b.cells[At(x, y)]
  BY <1>4, <1>5 DEF FellInto
<1> USE <1>6
<1>0. /\ Rows \in Nat \ {0} /\ Cols \in Nat \ {0} /\ j + 1 \in 1 .. Cols /\ j + 1 - 1 = j
      /\ i = Rows - 1 - h
  BY <1>4, <1>5
<1>2. ASSUME NEW c \in 1 .. Cols, c # j + 1 PROVE ColumnOf(nb, c) = ColumnOf(b, c)
  <2> DEFINE g == Height(b.cells, c - 1)
  <2>1. c - 1 \in 0 .. Cols - 1 /\ c - 1 # j
    BY <1>0, <1>2
  <2>2. Height(nb.cells, c - 1) = g
    BY <2>1
  <2>3. /\ g \in 0 .. Rows
        /\ ColumnOf(b, c) = [r \in 1 .. g |-> b.cells[At(Rows - r, c - 1)]]
    BY ColumnShape
  <2>4. ColumnOf(nb, c) = [r \in 1 .. g |-> nb.cells[At(Rows - r, c - 1)]]
    <3>1. ColumnOf(nb, c) =
            [r \in 1 .. Height(nb.cells, c - 1) |-> nb.cells[At(Rows - r, c - 1)]]
      BY ColumnShape
    <3> QED BY <2>2, <3>1
  <2> HIDE DEF g
  <2>5. \A r \in 1 .. g : nb.cells[At(Rows - r, c - 1)] = b.cells[At(Rows - r, c - 1)]
    <3> SUFFICES ASSUME NEW r \in 1 .. g
                 PROVE  nb.cells[At(Rows - r, c - 1)] = b.cells[At(Rows - r, c - 1)]
      OBVIOUS
    <3>1. Rows - r \in 0 .. Rows - 1
      BY <1>0, <2>3
    <3> QED BY <2>1, <3>1
  <2> QED BY <2>3, <2>4, <2>5
<1>3. ColumnOf(nb, j + 1) = Append(ColumnOf(b, j + 1), p)
  <2>1. /\ ColumnOf(b, j + 1) = [r \in 1 .. h |-> b.cells[At(Rows - r, j)]]
        /\ Len(ColumnOf(b, j + 1)) = h
    <3>1. ColumnOf(b, j + 1) =
            [r \in 1 .. Height(b.cells, j + 1 - 1) |-> b.cells[At(Rows - r, j + 1 - 1)]]
          /\ Len(ColumnOf(b, j + 1)) = Height(b.cells, j + 1 - 1)
      <4>1. j + 1 \in 1 .. Cols
        BY <1>0
      <4> QED BY <4>1, ColumnShape
    <3> QED BY <1>0, <3>1
  <2>2. ColumnOf(nb, j + 1) = [r \in 1 .. h + 1 |-> nb.cells[At(Rows - r, j)]]
    <3>1. ColumnOf(nb, j + 1) =
            [r \in 1 .. Height(nb.cells, j + 1 - 1) |-> nb.cells[At(Rows - r, j + 1 - 1)]]
      <4>1. j + 1 \in 1 .. Cols
        BY <1>0
      <4> QED BY <4>1, ColumnShape
    <3>2. j + 1 - 1 = j /\ Height(nb.cells, j) = h + 1
      BY <1>0
    <3> QED BY <3>1, <3>2
  <2>3. Append(ColumnOf(b, j + 1), p) =
          [r \in 1 .. h + 1 |-> IF r = h + 1 THEN p ELSE ColumnOf(b, j + 1)[r]]
    <3> DEFINE s == ColumnOf(b, j + 1)
               T == {b.cells[At(Rows - r, j)] : r \in 1 .. h} \cup {p}
    <3>1. h \in Nat
      BY <1>0
    <3>2. s \in Seq(T)
      BY <2>1, <3>1
    <3> HIDE DEF s, T
    <3>3. Len(s) = h
      BY <2>1 DEF s
    <3>4. p \in T
      BY DEF T
    <3>5. /\ Append(s, p) \in Seq(T) /\ Len(Append(s, p)) = h + 1
          /\ \A r \in 1 .. h : Append(s, p)[r] = s[r]
          /\ Append(s, p)[h + 1] = p
      BY <3>2, <3>3, <3>4, AppendProperties
    <3>6. Append(s, p) = [r \in 1 .. h + 1 |-> Append(s, p)[r]]
      <4>1. Append(s, p) \in [1 .. Len(Append(s, p)) -> T]
        BY <3>5, LenProperties
      <4>2. Append(s, p) \in [1 .. h + 1 -> T]
        BY <3>5, <4>1
      <4> QED BY <4>2
    <3>7. \A r \in 1 .. h + 1 : Append(s, p)[r] = IF r = h + 1 THEN p ELSE s[r]
      BY <3>1, <3>5
    <3> QED BY <3>6, <3>7 DEF s
  <2>4. ASSUME NEW r \in 1 .. h + 1
        PROVE  nb.cells[At(Rows - r, j)] = IF r = h + 1 THEN p ELSE ColumnOf(b, j + 1)[r]
    <3>1. Rows - r \in 0 .. Rows - 1 /\ (Rows - r = i <=> r = h + 1)
      BY <1>0
    <3>2. r # h + 1 => ColumnOf(b, j + 1)[r] = b.cells[At(Rows - r, j)]
      BY <1>0, <2>1
    <3> QED BY <3>1, <3>2
  <2> QED BY <2>2, <2>3, <2>4
<1>7. [c \in 1 .. Cols |-> ColumnOf(nb, c)] =
        [[c \in 1 .. Cols |-> ColumnOf(b, c)] EXCEPT ![j + 1] = Append(@, p)]
  BY <1>0, <1>2, <1>3
<1> QED BY <1>7 DEF Columns

-----------------------------------------------------------------------------
(* Lines.  p has a token at (i, j), and p has N tokens in a row.           *)
Holds(cells, p, i, j) == OnBoard(i, j) /\ cells[At(i, j)] = p

InRow(cells, p, i, j, di, dj) == \A k \in 0 .. N - 1 : Holds(cells, p, i + k * di, j + k * dj)

Line(cells, p) == \E i, j \in Int : \E d \in Direction : InRow(cells, p, i, j, d[1], d[2])

LEMMA Directions ==
  \A d \in Direction : /\ d[1] \in {-1, 0, 1} /\ d[2] \in {0, 1}
                       /\ -d[1] \in {-1, 0, 1} /\ -d[2] \in {-1, 0, 1}
                       /\ d[1] # 0 \/ d[2] # 0
BY DEF Direction

LEMMA StepsAlong ==
  ASSUME NEW d \in {-1, 0, 1}, NEW a \in Int
  PROVE  /\ a * d = IF d = 1 THEN a ELSE IF d = 0 THEN 0 ELSE -a
         /\ a * d \in Int
         /\ (-a) * (-d) = a * d
<1>1. CASE d = 1
  BY <1>1
<1>2. CASE d = 0
  BY <1>2
<1>3. CASE d = -1
  BY <1>3
<1> QED BY <1>1, <1>2, <1>3

LEMMA StepsAdd ==
  ASSUME NEW d \in {-1, 0, 1}, NEW a \in Int, NEW b \in Int
  PROVE  (a + b) * d = a * d + b * d
<1>1. CASE d = 1
  BY <1>1
<1>2. CASE d = 0
  BY <1>2
<1>3. CASE d = -1
  BY <1>3
<1> QED BY <1>1, <1>2, <1>3

(* countNexts finds the longest row next to a place.                       *)
LEMMA CountNextsIs ==
  ASSUME NEW cells, NEW p, NEW i, NEW j, NEW di, NEW dj,
         NEW n, n = CountNexts(cells, p, i, j, di, dj)
  PROVE  /\ n \in 0 .. Rows + Cols
         /\ \A k \in 1 .. n : Holds(cells, p, i + k * di, j + k * dj)
         /\ \A m \in 0 .. Rows + Cols :
              (\A k \in 1 .. m : Holds(cells, p, i + k * di, j + k * dj)) => m <= n
<1> DEFINE S == {m \in 0 .. Rows + Cols : \A k \in 1 .. m : Holds(cells, p, i + k * di, j + k * dj)}
<1>1. n = Max(S)
  BY DEF CountNexts, Holds
<1>2. Rows + Cols \in Nat
  BY BoardAssumption
<1>3. 0 \in S
  BY <1>2
<1>4. S \in SUBSET (0 .. Rows + Cols)
  OBVIOUS
<1>5. Max(S) \in S /\ \A x \in S : x <= Max(S)
  <2> HIDE DEF S
  <2> QED BY <1>2, <1>3, <1>4, GreatestNumber
<1> QED BY <1>1, <1>5

(* checkWin, asked about a place with a token of p, finds the rows of N    *)
(* through that place and nothing else.                                    *)
LEMMA CheckWinSound ==
  ASSUME NEW cells, NEW p, NEW i \in Int, NEW j \in Int, Holds(cells, p, i, j),
         CheckWin(cells, i, j, p)
  PROVE  Line(cells, p)
<1>0. N \in Nat \ {0} /\ Rows \in Nat /\ Cols \in Nat
  BY BoardAssumption
<1>1. PICK d \in Direction :
        CountNexts(cells, p, i, j, d[1], d[2]) + CountNexts(cells, p, i, j, -d[1], -d[2]) >= N - 1
  BY DEF CheckWin
<1> DEFINE a == CountNexts(cells, p, i, j, d[1], d[2])
           b == CountNexts(cells, p, i, j, -d[1], -d[2])
           m == IF b >= N - 1 THEN N - 1 ELSE b
<1>2. a \in 0 .. Rows + Cols /\ \A k \in 1 .. a : Holds(cells, p, i + k * d[1], j + k * d[2])
  BY CountNextsIs
<1>3. b \in 0 .. Rows + Cols /\ \A k \in 1 .. b : Holds(cells, p, i + k * (-d[1]), j + k * (-d[2]))
  BY CountNextsIs
<1>4. a + b >= N - 1
  BY <1>1
<1> HIDE DEF a, b
<1>5. m \in 0 .. N - 1 /\ m <= b /\ (m = N - 1 \/ N - 1 - m <= a)
  BY <1>0, <1>2, <1>3, <1>4
<1> HIDE DEF m
<1>6. ASSUME NEW t \in Int, -m <= t, t <= N - 1 - m
      PROVE  Holds(cells, p, i + t * d[1], j + t * d[2])
  <2>1. CASE t > 0
    <3>1. t \in 1 .. a
      BY <1>0, <1>2, <1>5, <1>6, <2>1
    <3> QED BY <1>2, <3>1
  <2>2. CASE t = 0
    <3>1. t * d[1] = 0 /\ t * d[2] = 0
      BY <2>2, Directions, StepsAlong
    <3> QED BY <3>1
  <2>3. CASE t < 0
    <3>1. -t \in 1 .. b
      BY <1>0, <1>3, <1>5, <1>6, <2>3
    <3>2. (-t) * (-d[1]) = t * d[1] /\ (-t) * (-d[2]) = t * d[2]
      BY Directions, StepsAlong
    <3>3. Holds(cells, p, i + (-t) * (-d[1]), j + (-t) * (-d[2]))
      <4>1. PICK k \in 1 .. b : k = -t
        BY <3>1
      <4>2. Holds(cells, p, i + k * (-d[1]), j + k * (-d[2]))
        BY <1>3
      <4> QED BY <4>1, <4>2
    <3> QED BY <3>2, <3>3
  <2> QED BY <2>1, <2>2, <2>3
<1> DEFINE x == i + (-m) * d[1]
           y == j + (-m) * d[2]
<1>7. x \in Int /\ y \in Int
  BY <1>0, <1>5, Directions, StepsAlong
<1>8. ASSUME NEW k \in 0 .. N - 1 PROVE Holds(cells, p, x + k * d[1], y + k * d[2])
  <2>1. k - m \in Int /\ -m \in Int /\ k \in Int
    BY <1>0, <1>5
  <2>2. (k - m) * d[1] = (-m) * d[1] + k * d[1] /\ (k - m) * d[2] = (-m) * d[2] + k * d[2]
    <3>1. /\ (-m + k) * d[1] = (-m) * d[1] + k * d[1]
          /\ (-m + k) * d[2] = (-m) * d[2] + k * d[2]
      BY <2>1, Directions, StepsAdd
    <3>2. k - m = -m + k
      BY <1>0, <1>5
    <3> QED BY <3>1, <3>2
  <2>3. Holds(cells, p, i + (k - m) * d[1], j + (k - m) * d[2])
    BY <1>0, <1>5, <1>6, <2>1
  <2>4. /\ (-m) * d[1] \in Int /\ k * d[1] \in Int
        /\ (-m) * d[2] \in Int /\ k * d[2] \in Int
    BY <2>1, Directions, StepsAlong
  <2>5. i + (k - m) * d[1] = x + k * d[1] /\ j + (k - m) * d[2] = y + k * d[2]
    BY <2>2, <2>4
  <2> QED BY <2>3, <2>5
<1>9. InRow(cells, p, x, y, d[1], d[2])
  BY <1>8 DEF InRow
<1> HIDE DEF x, y
<1> QED BY <1>7, <1>9 DEF Line

LEMMA CheckWinComplete ==
  ASSUME NEW cells, NEW p, NEW x \in Int, NEW y \in Int, NEW d \in Direction,
         InRow(cells, p, x, y, d[1], d[2]), NEW m \in 0 .. N - 1,
         NEW i, NEW j, i = x + m * d[1], j = y + m * d[2]
  PROVE  CheckWin(cells, i, j, p)
<1>0. N \in Nat \ {0} /\ Rows \in Nat /\ Cols \in Nat /\ m \in Int
  BY BoardAssumption
<1>1. ASSUME NEW t \in Int, -m <= t, t <= N - 1 - m
      PROVE  Holds(cells, p, i + t * d[1], j + t * d[2])
  <2>1. PICK k \in 0 .. N - 1 : k = m + t
    BY <1>0, <1>1
  <2>2. Holds(cells, p, x + k * d[1], y + k * d[2])
    BY DEF InRow
  <2>3. k * d[1] = m * d[1] + t * d[1] /\ k * d[2] = m * d[2] + t * d[2]
    BY <1>0, <2>1, Directions, StepsAdd
  <2>4. /\ m * d[1] \in Int /\ t * d[1] \in Int /\ m * d[2] \in Int /\ t * d[2] \in Int
    BY <1>0, Directions, StepsAlong
  <2>5. x + k * d[1] = i + t * d[1] /\ y + k * d[2] = j + t * d[2]
    <3> DEFINE A == m * d[1]
               B == t * d[1]
               C == m * d[2]
               D == t * d[2]
    <3>1. /\ A \in Int /\ B \in Int /\ C \in Int /\ D \in Int
          /\ k * d[1] = A + B /\ k * d[2] = C + D /\ i = x + A /\ j = y + C
      BY <2>3, <2>4
    <3> HIDE DEF A, B, C, D
    <3>2. x + (A + B) = i + B /\ y + (C + D) = j + D
      BY <3>1
    <3> QED BY <3>1, <3>2 DEF B, D
  <2> QED BY <2>2, <2>5
<1>2. N - 1 <= Rows + Cols
  <2> DEFINE n == N - 1
  <2>1. n \in 0 .. N - 1 /\ 0 \in 0 .. N - 1 /\ n \in Int
    BY <1>0
  <2>2. Holds(cells, p, x + 0 * d[1], y + 0 * d[2]) /\ Holds(cells, p, x + n * d[1], y + n * d[2])
    BY <2>1 DEF InRow
  <2> HIDE DEF n
  <2>3. /\ 0 * d[1] = 0 /\ 0 * d[2] = 0
        /\ n * d[1] = IF d[1] = 1 THEN n ELSE IF d[1] = 0 THEN 0 ELSE -n
        /\ n * d[2] = IF d[2] = 1 THEN n ELSE IF d[2] = 0 THEN 0 ELSE -n
    BY <2>1, Directions, StepsAlong
  <2>4. /\ x + 0 \in 0 .. Rows - 1 /\ x + n * d[1] \in 0 .. Rows - 1
        /\ y + 0 \in 0 .. Cols - 1 /\ y + n * d[2] \in 0 .. Cols - 1
    BY <2>2, <2>3 DEF Holds, OnBoard
  <2>5. n <= Rows + Cols
    <3>1. CASE d[2] = 1
      BY <1>0, <2>1, <2>3, <2>4, <3>1
    <3>2. CASE d[2] = 0 /\ d[1] \in {-1, 1}
      BY <1>0, <2>1, <2>3, <2>4, <3>2
    <3> QED BY <3>1, <3>2, Directions
  <2> QED BY <2>5 DEF n
<1> DEFINE a == CountNexts(cells, p, i, j, d[1], d[2])
           b == CountNexts(cells, p, i, j, -d[1], -d[2])
           rest == N - 1 - m
<1>3. /\ a \in 0 .. Rows + Cols
      /\ \A n \in 0 .. Rows + Cols :
           (\A k \in 1 .. n : Holds(cells, p, i + k * d[1], j + k * d[2])) => n <= a
  BY CountNextsIs
<1>4. /\ b \in 0 .. Rows + Cols
      /\ \A n \in 0 .. Rows + Cols :
           (\A k \in 1 .. n : Holds(cells, p, i + k * (-d[1]), j + k * (-d[2]))) => n <= b
  BY CountNextsIs
<1> HIDE DEF a, b
<1>5. rest \in 0 .. Rows + Cols /\ m \in 0 .. Rows + Cols
  BY <1>0, <1>2
<1>6. \A k \in 1 .. rest : Holds(cells, p, i + k * d[1], j + k * d[2])
  BY <1>0, <1>1, <1>5
<1>7. ASSUME NEW k \in 1 .. m PROVE Holds(cells, p, i + k * (-d[1]), j + k * (-d[2]))
  <2>1. -k \in Int /\ -m <= -k /\ -k <= N - 1 - m
    BY <1>0
  <2>2. Holds(cells, p, i + (-k) * d[1], j + (-k) * d[2])
    BY <1>1, <2>1
  <2>3. (-k) * d[1] = k * (-d[1]) /\ (-k) * d[2] = k * (-d[2])
    <3>1. -(-d[1]) = d[1] /\ -(-d[2]) = d[2] /\ k \in Int
      BY Directions
    <3>2. (-k) * (-(-d[1])) = k * (-d[1]) /\ (-k) * (-(-d[2])) = k * (-d[2])
      BY <3>1, Directions, StepsAlong
    <3> QED BY <3>1, <3>2
  <2> QED BY <2>2, <2>3
<1>8. rest <= a
  BY <1>3, <1>5, <1>6
<1>9. m <= b
  BY <1>4, <1>5, <1>7
<1>10. a + b >= N - 1
  BY <1>0, <1>3, <1>4, <1>8, <1>9
<1> QED BY <1>10 DEF CheckWin, a, b

-----------------------------------------------------------------------------
(* A row read from its other end is a row.                                 *)
LEMMA Reversed ==
  ASSUME NEW cells, NEW p, NEW i \in Int, NEW j \in Int,
         NEW di \in {-1, 0, 1}, NEW dj \in {-1, 0, 1}, InRow(cells, p, i, j, di, dj),
         NEW ei \in {-1, 0, 1}, NEW ej \in {-1, 0, 1}, di + ei = 0, dj + ej = 0
  PROVE  InRow(cells, p, i + (N - 1) * di, j + (N - 1) * dj, ei, ej)
<1>0. N \in Nat \ {0}
  BY BoardAssumption
<1> SUFFICES ASSUME NEW k \in 0 .. N - 1
             PROVE  Holds(cells, p, i + (N - 1) * di + k * ei, j + (N - 1) * dj + k * ej)
  BY DEF InRow
<1>1. PICK l \in 0 .. N - 1 : l = N - 1 - k
  BY <1>0
<1>2. Holds(cells, p, i + l * di, j + l * dj)
  BY DEF InRow
<1>3. ASSUME NEW x \in Int, NEW d \in {-1, 0, 1}, NEW e \in {-1, 0, 1}, d + e = 0
      PROVE  x + (N - 1) * d + k * e = x + l * d
  <2>1. CASE d = 1 /\ e = -1
    BY <1>0, <1>1, <2>1
  <2>2. CASE d = 0 /\ e = 0
    BY <1>0, <1>1, <2>2
  <2>3. CASE d = -1 /\ e = 1
    BY <1>0, <1>1, <2>3
  <2> QED BY <1>3, <2>1, <2>2, <2>3
<1>4. /\ i + (N - 1) * di + k * ei = i + l * di
      /\ j + (N - 1) * dj + k * ej = j + l * dj
  BY <1>3
<1> QED BY <1>2, <1>4

(* The tokens of a column, from the bottom, are those of the array.        *)
LEMMA ColumnHolds ==
  ASSUME NEW b, Fallen(b.cells), NEW p \in Peer, NEW c \in Int, NEW r \in Int,
         NEW cs, \A x \in 1 .. Cols : cs[x] = ColumnOf(b, x)
  PROVE  (c \in 1 .. Cols /\ r \in DOMAIN cs[c] /\ cs[c][r] = p)
           <=> Holds(b.cells, p, Rows - r, c - 1)
<1>0. Rows \in Nat \ {0} /\ Cols \in Nat \ {0} /\ p # NULL
  BY BoardAssumption, MatchAssumption
<1>1. CASE c \notin 1 .. Cols
  <2>1. c - 1 \notin 0 .. Cols - 1
    BY <1>0, <1>1
  <2> QED BY <1>1, <2>1 DEF Holds, OnBoard
<1>2. CASE c \in 1 .. Cols
  <2> DEFINE h == Height(b.cells, c - 1)
  <2>1. c - 1 \in 0 .. Cols - 1
    BY <1>0, <1>2
  <2>2. h \in 0 .. Rows /\ ColumnOf(b, c) = [x \in 1 .. h |-> b.cells[At(Rows - x, c - 1)]]
    BY <1>2, ColumnShape
  <2>3. \A i \in 0 .. Rows - 1 : b.cells[At(i, c - 1)] # NULL <=> i >= Rows - h
    BY <2>1, HeightOfFallen
  <2> HIDE DEF h
  <2>4. cs[c] = [x \in 1 .. h |-> b.cells[At(Rows - x, c - 1)]]
    BY <1>2, <2>2
  <2>5. CASE r \in 1 .. h
    <3>1. Rows - r \in 0 .. Rows - 1
      BY <1>0, <2>2, <2>5
    <3>2. cs[c][r] = b.cells[At(Rows - r, c - 1)]
      BY <2>4, <2>5
    <3> QED BY <1>2, <2>1, <2>4, <2>5, <3>1, <3>2 DEF Holds, OnBoard
  <2>6. CASE r \notin 1 .. h
    <3>1. r \notin DOMAIN cs[c]
      BY <2>4, <2>6
    <3>2. ASSUME Holds(b.cells, p, Rows - r, c - 1) PROVE FALSE
      <4>1. Rows - r \in 0 .. Rows - 1 /\ b.cells[At(Rows - r, c - 1)] # NULL
        BY <1>0, <3>2 DEF Holds, OnBoard
      <4>2. Rows - r >= Rows - h
        BY <2>3, <4>1
      <4> QED BY <1>0, <2>2, <2>6, <4>1, <4>2
    <3> QED BY <3>1, <3>2
  <2> QED BY <2>5, <2>6
<1> QED BY <1>1, <1>2

(* The lines that Game looks for are the lines on the board.               *)
LEMMA SameLines ==
  ASSUME NEW b, Fallen(b.cells), NEW p \in Peer,
         NEW cs, \A x \in 1 .. Cols : cs[x] = ColumnOf(b, x)
  PROVE  TheGame!HasLine(cs, p) <=> Line(b.cells, p)
<1> DEFINE GameDirection == {<<0, 1>>, <<1, 0>>, <<1, 1>>, <<1, -1>>}
           Cl == b.cells
<1>0. Rows \in Nat \ {0} /\ Cols \in Nat \ {0} /\ N \in Nat \ {0}
  BY BoardAssumption
<1>1. TheGame!HasLine(cs, p) <=>
        \E c \in 1 .. Cols, r \in 1 .. Rows, d \in GameDirection :
          \A k \in 0 .. N - 1 : /\ c + k * d[1] \in 1 .. Cols
                               /\ r + k * d[2] \in DOMAIN cs[c + k * d[1]]
                               /\ cs[c + k * d[1]][r + k * d[2]] = p
  BY DEF TheGame!HasLine
<1>2. \A d \in GameDirection : d[1] \in {-1, 0, 1} /\ d[2] \in {-1, 0, 1} /\ -d[2] \in {-1, 0, 1}
  OBVIOUS
<1>3. \A cc, rr \in Int : (cc \in 1 .. Cols /\ rr \in DOMAIN cs[cc] /\ cs[cc][rr] = p)
                            <=> Holds(Cl, p, Rows - rr, cc - 1)
  <2> SUFFICES ASSUME NEW cc \in Int, NEW rr \in Int
               PROVE  (cc \in 1 .. Cols /\ rr \in DOMAIN cs[cc] /\ cs[cc][rr] = p)
                        <=> Holds(b.cells, p, Rows - rr, cc - 1)
    OBVIOUS
  <2> HIDE DEF GameDirection
  <2> QED BY ColumnHolds
<1>4. ASSUME NEW c \in Int, NEW r \in Int, NEW d \in GameDirection, NEW k \in 0 .. N - 1
      PROVE  (/\ c + k * d[1] \in 1 .. Cols
              /\ r + k * d[2] \in DOMAIN cs[c + k * d[1]]
              /\ cs[c + k * d[1]][r + k * d[2]] = p)
             <=> Holds(Cl, p, Rows - r + k * (-d[2]), c - 1 + k * d[1])
  <2>0. k \in Int
    BY <1>0
  <2>1. k * d[1] \in Int /\ k * d[2] \in Int
    BY <1>2, <2>0, StepsAlong
  <2>2. k * (-d[2]) = -(k * d[2])
    <3>1. k * (-d[2]) = IF -d[2] = 1 THEN k ELSE IF -d[2] = 0 THEN 0 ELSE -k
      BY <1>2, <2>0, StepsAlong
    <3>2. k * d[2] = IF d[2] = 1 THEN k ELSE IF d[2] = 0 THEN 0 ELSE -k
      BY <1>2, <2>0, StepsAlong
    <3> QED BY <1>2, <2>0, <3>1, <3>2
  <2>3. c + k * d[1] \in Int /\ r + k * d[2] \in Int
    BY <2>1
  <2>4. PICK cc \in Int, rr \in Int : cc = c + k * d[1] /\ rr = r + k * d[2]
    BY <2>3
  <2>5. (cc \in 1 .. Cols /\ rr \in DOMAIN cs[cc] /\ cs[cc][rr] = p)
          <=> Holds(Cl, p, Rows - rr, cc - 1)
    BY <1>3, Zenon
  <2>6. Rows - rr = Rows - r + k * (-d[2]) /\ cc - 1 = c - 1 + k * d[1]
    <3>1. PICK u \in Int, v \in Int, z \in Int : u = k * d[1] /\ v = k * d[2] /\ z = k * (-d[2])
      BY <2>1, <2>2
    <3>2. cc = c + u /\ rr = r + v /\ z = -v
      BY <2>2, <2>4, <3>1
    <3>3. Rows - rr = Rows - r + z /\ cc - 1 = c - 1 + u
      BY <1>0, <3>2
    <3> QED BY <3>1, <3>3
  <2> QED BY <2>4, <2>5, <2>6, Zenon
<1> HIDE DEF Cl
<1>5. TheGame!HasLine(cs, p) <=>
        \E c \in 1 .. Cols, r \in 1 .. Rows, d \in GameDirection :
          InRow(Cl, p, Rows - r, c - 1, -d[2], d[1])
  <2> HIDE DEF GameDirection
  <2>1. ASSUME NEW c \in 1 .. Cols, NEW r \in 1 .. Rows, NEW d \in GameDirection
        PROVE  (\A k \in 0 .. N - 1 : /\ c + k * d[1] \in 1 .. Cols
                                      /\ r + k * d[2] \in DOMAIN cs[c + k * d[1]]
                                      /\ cs[c + k * d[1]][r + k * d[2]] = p)
               <=> InRow(Cl, p, Rows - r, c - 1, -d[2], d[1])
    <3>1. c \in Int /\ r \in Int
      BY <1>0
    <3> QED BY <1>4, <3>1 DEF InRow
  <2> QED BY <1>1, <2>1
<1>6. ASSUME NEW c \in 1 .. Cols, NEW r \in 1 .. Rows, NEW d \in GameDirection,
             InRow(Cl, p, Rows - r, c - 1, -d[2], d[1])
      PROVE  Line(Cl, p)
  <2>1. Rows - r \in Int /\ c - 1 \in Int /\ N - 1 \in Int
    BY <1>0
  <2>2. CASE d = <<0, 1>>
    <3>1. InRow(Cl, p, Rows - r, c - 1, -1, 0)
      BY <1>6, <2>2
    <3>2. -1 + 1 = 0 /\ 0 + 0 = 0
      OBVIOUS
    <3>4. InRow(Cl, p, Rows - r + (N - 1) * (-1), c - 1 + (N - 1) * 0, 1, 0)
      BY <2>1, <3>1, <3>2, Reversed
    <3>5. Rows - r + (N - 1) * (-1) \in Int /\ c - 1 + (N - 1) * 0 \in Int
      BY <2>1
    <3>6. <<1, 0>> \in Direction /\ <<1, 0>>[1] = 1 /\ <<1, 0>>[2] = 0
      BY DEF Direction
    <3> QED BY <3>4, <3>5, <3>6 DEF Line
  <2>3. CASE d # <<0, 1>>
    <3>1. <<-d[2], d[1]>> \in Direction
      BY <2>3 DEF Direction
    <3>2. PICK e \in Direction : e = <<-d[2], d[1]>>
      BY <3>1
    <3>3. e[1] = -d[2] /\ e[2] = d[1]
      BY <3>2
    <3> QED BY <1>6, <2>1, <3>3 DEF Line
  <2> QED BY <2>2, <2>3
<1>7. ASSUME Line(Cl, p)
      PROVE  \E c \in 1 .. Cols, r \in 1 .. Rows, d \in GameDirection :
               InRow(Cl, p, Rows - r, c - 1, -d[2], d[1])
  <2>1. PICK i \in Int, j \in Int, d \in Direction : InRow(Cl, p, i, j, d[1], d[2])
    BY <1>7 DEF Line
  <2>2. ASSUME NEW x \in Int, NEW y \in Int, NEW e \in {<<-1, 0>>, <<0, 1>>, <<-1, 1>>, <<1, 1>>},
               InRow(Cl, p, x, y, e[1], e[2])
        PROVE  \E c \in 1 .. Cols, r \in 1 .. Rows, g \in GameDirection :
                 InRow(Cl, p, Rows - r, c - 1, -g[2], g[1])
    <3>1. 0 \in 0 .. N - 1 /\ 0 * e[1] = 0 /\ 0 * e[2] = 0
      <4>1. e[1] \in {-1, 0, 1} /\ e[2] \in {-1, 0, 1}
        OBVIOUS
      <4> QED BY <1>0, <4>1, StepsAlong
    <3>2. Holds(Cl, p, x + 0, y + 0)
      BY <2>2, <3>1 DEF InRow
    <3>3. x \in 0 .. Rows - 1 /\ y \in 0 .. Cols - 1
      BY <3>2 DEF Holds, OnBoard
    <3>4. PICK c \in 1 .. Cols, r \in 1 .. Rows : x = Rows - r /\ y = c - 1
      <4>1. y + 1 \in 1 .. Cols /\ Rows - x \in 1 .. Rows /\ x = Rows - (Rows - x) /\ y = (y + 1) - 1
        BY <1>0, <3>3
      <4> QED BY <4>1
    <3>5. PICK g \in GameDirection : e[1] = -g[2] /\ e[2] = g[1]
      <4>1. <<e[2], -e[1]>> \in GameDirection
        OBVIOUS
      <4>2. e[1] = -(-e[1])
        OBVIOUS
      <4> QED BY <4>1, <4>2
    <3>6. InRow(Cl, p, Rows - r, c - 1, -g[2], g[1])
      BY <2>2, <3>4, <3>5
    <3> QED BY <3>6
  <2>3. CASE d = <<1, 0>>
    <3>1. InRow(Cl, p, i + (N - 1) * 1, j + (N - 1) * 0, -1, 0)
      <4>1. InRow(Cl, p, i, j, 1, 0) /\ 1 + (-1) = 0 /\ 0 + 0 = 0
        BY <2>1, <2>3
      <4> QED BY <4>1, Reversed
    <3>2. PICK e \in {<<-1, 0>>, <<0, 1>>, <<-1, 1>>, <<1, 1>>} : e[1] = -1 /\ e[2] = 0
      OBVIOUS
    <3>3. i + (N - 1) * 1 \in Int /\ j + (N - 1) * 0 \in Int
      BY <1>0
    <3>4. InRow(Cl, p, i + (N - 1) * 1, j + (N - 1) * 0, e[1], e[2])
      BY <3>1, <3>2
    <3> QED BY <2>2, <3>3, <3>4
  <2>4. CASE d # <<1, 0>>
    <3>1. d \in {<<-1, 0>>, <<0, 1>>, <<-1, 1>>, <<1, 1>>}
      BY <2>4 DEF Direction
    <3> QED BY <2>1, <2>2, <3>1
  <2> QED BY <2>3, <2>4
<1>8. TheGame!HasLine(cs, p) <=> Line(Cl, p)
  <2> HIDE DEF GameDirection
  <2> QED BY <1>5, <1>6, <1>7
<1> QED BY <1>8 DEF Cl

-----------------------------------------------------------------------------
(* A token makes no line but through its own place, and none for the       *)
(* adversary: looking around it is enough.                                 *)
LEMMA NewLine ==
  ASSUME NEW old, NEW new, NEW p \in Peer,
         NEW i \in 0 .. Rows - 1, NEW j \in 0 .. Cols - 1,
         \A x \in 0 .. Rows - 1, y \in 0 .. Cols - 1 :
           new[At(x, y)] = IF x = i /\ y = j THEN p ELSE old[At(x, y)],
         \A q \in Peer : ~Line(old, q)
  PROVE  /\ Line(new, p) <=> CheckWin(new, i, j, p)
         /\ \A q \in Peer : q # p => ~Line(new, q)
<1>0. i \in Int /\ j \in Int
  BY BoardAssumption
<1>1. ASSUME NEW q, NEW x, NEW y, Holds(new, q, x, y), ~(x = i /\ y = j /\ q = p)
      PROVE  Holds(old, q, x, y)
  BY <1>1 DEF Holds, OnBoard
<1>2. ASSUME CheckWin(new, i, j, p) PROVE Line(new, p)
  <2>1. Holds(new, p, i, j)
    BY DEF Holds, OnBoard
  <2> QED BY <1>0, <1>2, <2>1, CheckWinSound
<1>3. ASSUME NEW q \in Peer, Line(new, q)
      PROVE  q = p /\ CheckWin(new, i, j, p)
  <2>1. PICK x \in Int, y \in Int, d \in Direction : InRow(new, q, x, y, d[1], d[2])
    BY <1>3 DEF Line
  <2>2. CASE \A k \in 0 .. N - 1 : ~(x + k * d[1] = i /\ y + k * d[2] = j /\ q = p)
    <3>1. InRow(old, q, x, y, d[1], d[2])
      BY <1>1, <2>1, <2>2 DEF InRow
    <3>2. Line(old, q)
      BY <3>1 DEF Line
    <3> QED BY <3>2
  <2>3. CASE \E k \in 0 .. N - 1 : x + k * d[1] = i /\ y + k * d[2] = j /\ q = p
    BY <2>1, <2>3, CheckWinComplete
  <2> QED BY <2>2, <2>3
<1> QED BY <1>2, <1>3

(* The columns are full when the top row is.                               *)
LEMMA FullIs ==
  ASSUME NEW b, Fallen(b.cells), NEW cs, \A x \in 1 .. Cols : cs[x] = ColumnOf(b, x)
  PROVE  TheGame!IsFull(cs) <=> CheckFullTopRow(b.cells)
<1>0. Rows \in Nat \ {0} /\ Cols \in Nat \ {0}
  BY BoardAssumption
<1>1. ASSUME NEW j \in 0 .. Cols - 1 PROVE b.cells[j] # NULL <=> Len(cs[j + 1]) = Rows
  <2>1. j + 1 \in 1 .. Cols /\ j + 1 - 1 = j
    BY <1>0
  <2>2. PICK c \in 1 .. Cols : c = j + 1
    BY <2>1
  <2>3. Len(cs[c]) = Height(b.cells, c - 1)
    BY ColumnShape
  <2> DEFINE h == Height(b.cells, j)
  <2>4. Len(cs[j + 1]) = h
    BY <2>1, <2>2, <2>3
  <2>5. /\ h \in 0 .. Rows
        /\ \A x \in 0 .. Rows - 1 : b.cells[At(x, j)] # NULL <=> x >= Rows - h
    BY HeightOfFallen
  <2> HIDE DEF h
  <2>6. At(0, j) = j /\ 0 \in 0 .. Rows - 1
    BY <1>0, Places
  <2>7. b.cells[j] # NULL <=> 0 >= Rows - h
    BY <2>5, <2>6
  <2> QED BY <1>0, <2>4, <2>5, <2>7
<1>2. ASSUME \A c \in 1 .. Cols : Len(cs[c]) = Rows PROVE \A j \in 0 .. Cols - 1 : b.cells[j] # NULL
  <2> SUFFICES ASSUME NEW j \in 0 .. Cols - 1 PROVE b.cells[j] # NULL
    OBVIOUS
  <2>1. j + 1 \in 1 .. Cols
    BY <1>0
  <2> QED BY <1>1, <1>2, <2>1
<1>3. ASSUME \A j \in 0 .. Cols - 1 : b.cells[j] # NULL PROVE \A c \in 1 .. Cols : Len(cs[c]) = Rows
  <2> SUFFICES ASSUME NEW c \in 1 .. Cols PROVE Len(cs[c]) = Rows
    OBVIOUS
  <2>1. c - 1 \in 0 .. Cols - 1 /\ c - 1 + 1 = c
    BY <1>0
  <2>2. Len(cs[c - 1 + 1]) = Rows
    BY <1>1, <1>3, <2>1
  <2> QED BY <2>1, <2>2
<1> QED BY <1>2, <1>3 DEF TheGame!IsFull, CheckFullTopRow

(* One more token on the board.                                            *)
LEMMA OneToken ==
  ASSUME NEW b \in Board, NEW nb \in Board, NEW k \in Cell, NEW p \in Peer,
         b.cells[k] = NULL, nb.cells = [b.cells EXCEPT ![k] = p]
  PROVE  /\ Tokens(nb) = Tokens(b) \cup {k} /\ k \notin Tokens(b)
         /\ Cardinality(Tokens(b)) \in Nat
         /\ Cardinality(Tokens(nb)) = Cardinality(Tokens(b)) + 1
<1>1. p # NULL
  BY MatchAssumption
<1>2. Tokens(nb) = Tokens(b) \cup {k} /\ k \notin Tokens(b)
  BY <1>1 DEF Tokens, Board
<1>3. IsFiniteSet(Tokens(b))
  <2>1. IsFiniteSet(Cell)
    <3>1. 0 \in Int /\ Rows * Cols - 1 \in Int
      BY BoardAssumption
    <3> QED BY <3>1, FS_Interval DEF Cell
  <2>2. Tokens(b) \subseteq Cell
    BY DEF Tokens
  <2> QED BY <2>1, <2>2, FS_Subset
<1>4. Cardinality(Tokens(b)) \in Nat
  BY <1>3, FS_CardinalityType
<1>5. Cardinality(Tokens(b) \cup {k}) = Cardinality(Tokens(b)) + 1
  BY <1>2, <1>3, FS_AddElement
<1> QED BY <1>2, <1>4, <1>5

-----------------------------------------------------------------------------
(* A board on which the game is still open, and what a move makes of it:   *)
(* what Game says of the columns.                                          *)
OpenBoard(b) == /\ b \in Board /\ Fallen(b.cells) /\ ~b.full
                /\ \A q \in Peer : ~Line(b.cells, q)

LEMMA MoveOnBoard ==
  ASSUME NEW b, OpenBoard(b), NEW j \in 0 .. Cols - 1, NEW p \in Peer,
         NEW r, r = Played(b, j, p), r.win # -1
  PROVE  /\ r.board \in Board /\ Fallen(r.board.cells)
         /\ r.win \in {1, 0, -2}
         /\ r.win = 0 => OpenBoard(r.board)
         /\ Columns(r.board) = [Columns(b) EXCEPT ![j + 1] = Append(@, p)]
         /\ Len(Columns(b)[j + 1]) < Rows
         /\ r.win = 1 <=> TheGame!HasLine(Columns(r.board), p)
         /\ r.win # 1 => (r.win = -2 <=> TheGame!IsFull(Columns(r.board)))
         /\ Tokens(b) \subseteq Tokens(r.board)
         /\ ~(Tokens(r.board) \subseteq Tokens(b))
         /\ Cardinality(Tokens(b)) \in Nat
         /\ Cardinality(Tokens(r.board)) = Cardinality(Tokens(b)) + 1
<1> DEFINE h   == Height(b.cells, j)
           i   == Rows - 1 - h
           new == [b.cells EXCEPT ![At(i, j)] = p]
           nb  == r.board
<1>0. Rows \in Nat \ {0} /\ Cols \in Nat \ {0}
  BY BoardAssumption
<1>1. /\ b \in Board /\ Fallen(b.cells) /\ ~b.full
      /\ \A q \in Peer : ~Line(b.cells, q)
  BY DEF OpenBoard
<1>2. nb \in Board
  <2>1. j \in -1 .. Cols - 1
    BY <1>0
  <2> QED BY <1>1, <2>1, PlayTokenType DEF Played
<1>3. /\ h \in 0 .. Rows - 1 /\ i \in 0 .. Rows - 1
      /\ b.cells[At(i, j)] = NULL
      /\ nb.cells = new
      /\ r.win \in {1, 0, -2}
      /\ r.win = 1 <=> CheckWin(new, i, j, p)
      /\ r.win # 1 => (r.win = -2 <=> i = 0 /\ CheckFullTopRow(new))
      /\ nb.full <=> r.win = -2
  BY <1>1, TokenPlayed
<1>4. b.cells \in [Cell -> Peer \cup {NULL}]
  BY <1>1 DEF Board
<1>5. /\ \A x \in 0 .. Rows - 1, y \in 0 .. Cols - 1 :
           new[At(x, y)] = IF x = i /\ y = j THEN p ELSE b.cells[At(x, y)]
      /\ Fallen(new)
      /\ Height(new, j) = h + 1
      /\ \A y \in 0 .. Cols - 1 : y # j => Height(new, y) = Height(b.cells, y)
  BY <1>1, <1>3, <1>4, TokenOnTop
<1>6. At(i, j) \in Cell
  BY <1>3, Places
<1>7. /\ Tokens(nb) = Tokens(b) \cup {At(i, j)} /\ At(i, j) \notin Tokens(b)
      /\ Cardinality(Tokens(b)) \in Nat
      /\ Cardinality(Tokens(nb)) = Cardinality(Tokens(b)) + 1
  BY <1>1, <1>2, <1>3, <1>6, OneToken
<1> HIDE DEF nb
<1>8. Columns(nb) = [Columns(b) EXCEPT ![j + 1] = Append(@, p)]
  <2>1. Rows - 1 - i = h /\ Rows - i = h + 1
    BY <1>0, <1>3
  <2> HIDE DEF h, i, new
  <2>2. FellInto(b, nb, i, j, p)
    <3>1. nb.cells = new
      BY <1>3
    <3>2. Fallen(b.cells) /\ Height(b.cells, j) = Rows - 1 - i
      BY <1>1, <2>1 DEF h
    <3>3. /\ Fallen(nb.cells) /\ Height(nb.cells, j) = Rows - i
          /\ \A y \in 0 .. Cols - 1 : y # j => Height(nb.cells, y) = Height(b.cells, y)
      BY <1>5, <2>1, <3>1
    <3>4. \A x \in 0 .. Rows - 1, y \in 0 .. Cols - 1 :
            nb.cells[At(x, y)] = IF x = i /\ y = j THEN p ELSE b.cells[At(x, y)]
      BY <1>5, <3>1
    <3> QED BY <3>2, <3>3, <3>4 DEF FellInto
  <2> QED BY <1>3, <2>2, ColumnsAfter
<1>9. Len(Columns(b)[j + 1]) < Rows
  <2>1. j + 1 \in 1 .. Cols /\ j + 1 - 1 = j
    BY <1>0
  <2>2. Len(ColumnOf(b, j + 1)) = Height(b.cells, j + 1 - 1)
    BY <1>1, <2>1, ColumnShape
  <2>3. Len(Columns(b)[j + 1]) = h
    BY <2>1, <2>2 DEF Columns
  <2> HIDE DEF h
  <2> QED BY <1>0, <1>3, <2>3
<1>10. /\ Line(new, p) <=> CheckWin(new, i, j, p)
       /\ \A q \in Peer : q # p => ~Line(new, q)
  <2> HIDE DEF new, i, h
  <2>1. PICK old : old = b.cells
    OBVIOUS
  <2>2. /\ i \in 0 .. Rows - 1
        /\ \A q \in Peer : ~Line(old, q)
        /\ \A x \in 0 .. Rows - 1, y \in 0 .. Cols - 1 :
             new[At(x, y)] = IF x = i /\ y = j THEN p ELSE old[At(x, y)]
    BY <1>1, <1>3, <1>5, <2>1
  <2> QED BY <2>2, NewLine
<1>11. /\ TheGame!HasLine(Columns(nb), p) <=> Line(nb.cells, p)
       /\ TheGame!IsFull(Columns(nb)) <=> CheckFullTopRow(nb.cells)
  <2>1. \A x \in 1 .. Cols : Columns(nb)[x] = ColumnOf(nb, x)
    BY DEF Columns
  <2>2. Fallen(nb.cells)
    BY <1>3, <1>5
  <2> QED BY <2>1, <2>2, SameLines, FullIs
<1>12. CheckFullTopRow(new) => i = 0
  <2> SUFFICES ASSUME CheckFullTopRow(new), i # 0 PROVE FALSE
    OBVIOUS
  <2>1. At(0, j) = j /\ 0 \in 0 .. Rows - 1
    BY <1>0, Places
  <2>2. new[At(0, j)] # NULL
    BY <2>1 DEF CheckFullTopRow
  <2>3. b.cells[At(0, j)] # NULL
    BY <1>5, <2>1, <2>2
  <2>4. b.cells[At(i, j)] # NULL
    BY <1>1, <1>3, <2>1, <2>3 DEF Fallen
  <2> QED BY <1>3, <2>4
<1>13. r.win = 0 => OpenBoard(nb)
  <2> HIDE DEF new, i, h
  <2> QED BY <1>2, <1>3, <1>5, <1>10 DEF OpenBoard
<1>14. r.win = 1 <=> TheGame!HasLine(Columns(nb), p)
  BY <1>3, <1>10, <1>11
<1>15. r.win # 1 => (r.win = -2 <=> TheGame!IsFull(Columns(nb)))
  BY <1>3, <1>11, <1>12
<1> HIDE DEF new, i, h
<1> QED BY <1>2, <1>3, <1>5, <1>7, <1>8, <1>9, <1>13, <1>14, <1>15 DEF nb

-----------------------------------------------------------------------------
(* The boards are the same, and nothing is on its way.                     *)
Level(a) ==
  LET b == Adversary(a) IN
  /\ board[a] = board[b] /\ result[b] = SameResult[result[a]]
  /\ moves[a] = <<>> /\ moves[b] = <<>>

(* a has made one move that b has not, and may never make if it has gone.  *)
OneAhead(a) ==
  LET b == Adversary(a) IN
  \E j \in 0 .. Cols - 1 :
    /\ LET r == Played(board[b], j, a)
       IN r.win # -1 /\ board[a] = r.board /\ result[a] = Meaning(r.win, "won")
    /\ result[b] = "none"
    /\ moves[a] = <<>>
    /\ phase[a] = "playing" => turn[a] = "theirs"
    /\ moves[b] = <<j>> \/ (moves[b] = <<>> /\ b \in gone)

(* Who is to move on a board, and the outcome as a peer sees it.           *)
NextOn(b) == IF Cardinality(Tokens(b)) % 2 = 0 THEN Host ELSE Guest

OutcomeOf(p) == CASE result[p] = "won"  -> p
                  [] result[p] = "lost" -> Adversary(p)
                  [] result[p] = "draw" -> "draw"
                  [] OTHER -> "open"

GameInv ==
  /\ MatchInv
  /\ \A p \in Peer : before[p] \notin Peer
  /\ \A p \in Peer :
       /\ Fallen(board[p].cells)
       /\ result[p] = "none" => OpenBoard(board[p])
       /\ phase[p] = "playing" => /\ result[p] = "none"
                                  /\ turn[p] = "mine" <=> NextOn(board[p]) = p
  /\ \E a \in Peer : Level(a) \/ OneAhead(a)

LEMMA GameTypes ==
  ASSUME GameInv
  PROVE  MatchInv /\ MatchTypeOK /\ Alike /\ Agreed
<1>1. Alike
  BY Adversaries DEF GameInv, Alike
<1> QED BY <1>1 DEF GameInv, MatchInv

(* The game is on the board of the one who is ahead, or on both.           *)
LEMMA AheadIs ==
  GameInv => \A a \in Peer : Level(a) \/ OneAhead(a) =>
               board[Ahead] = board[a] /\ OutcomeOf(Ahead) = OutcomeOf(a)
<1> SUFFICES ASSUME GameInv, NEW a \in Peer, Level(a) \/ OneAhead(a)
             PROVE  board[Ahead] = board[a] /\ OutcomeOf(Ahead) = OutcomeOf(a)
  OBVIOUS
<1>0. MatchTypeOK
  BY GameTypes
<1> DEFINE b == Adversary(a)
<1>1. b \in Peer /\ b # a /\ Adversary(b) = a /\ Peer = {a, b} /\ Host # Guest
  BY Adversaries, MatchAssumption
<1>2. CASE Level(a)
  <2>1. board[a] = board[b] /\ result[b] = SameResult[result[a]]
    BY <1>2 DEF Level
  <2>2. board[Host] = board[Guest]
    BY <1>1, <2>1 DEF Peer
  <2>3. Ahead = Host
    BY <2>2 DEF Ahead
  <2>4. CASE a = Host
    BY <2>3, <2>4
  <2>5. CASE a = Guest
    <3>1. b = Host
      BY <1>1, <2>5 DEF Peer
    <3>2. result[a] \in {"none", "won", "lost", "draw"}
      BY <1>0 DEF MatchTypeOK
    <3> HIDE DEF b
    <3>3. OutcomeOf(b) = OutcomeOf(a)
      <4>1. CASE result[a] = "none"
        BY <2>1, <4>1 DEF OutcomeOf, SameResult
      <4>2. CASE result[a] = "won"
        BY <1>1, <2>1, <4>2 DEF OutcomeOf, SameResult
      <4>3. CASE result[a] = "lost"
        BY <2>1, <4>3 DEF OutcomeOf, SameResult, b
      <4>4. CASE result[a] = "draw"
        BY <2>1, <4>4 DEF OutcomeOf, SameResult
      <4> QED BY <3>2, <4>1, <4>2, <4>3, <4>4
    <3> QED BY <2>1, <2>3, <3>1, <3>3
  <2> QED BY <2>4, <2>5 DEF Peer
<1>3. CASE OneAhead(a)
  <2>1. PICK j \in 0 .. Cols - 1 :
          /\ Played(board[b], j, a).win # -1
          /\ board[a] = Played(board[b], j, a).board
          /\ result[b] = "none"
    BY <1>3 DEF OneAhead
  <2>2. OpenBoard(board[b])
    BY <1>1, <2>1 DEF GameInv
  <2>3. Tokens(board[b]) \subseteq Tokens(board[a]) /\ ~(Tokens(board[a]) \subseteq Tokens(board[b]))
    BY <2>1, <2>2, MoveOnBoard
  <2> HIDE DEF b
  <2>4. (a = Host /\ b = Guest) \/ (a = Guest /\ b = Host)
    BY <1>1 DEF Peer
  <2>5. Ahead = a
    BY <1>1, <2>3, <2>4 DEF Ahead
  <2> QED BY <2>5
<1> QED BY <1>2, <1>3

(* What is on the empty board.                                             *)
LEMMA EmptyIsOpen ==
  /\ OpenBoard(EmptyBoard)
  /\ Tokens(EmptyBoard) = {}
  /\ Columns(EmptyBoard) = [c \in 1 .. Cols |-> <<>>]
<1>0. NULL \notin Peer /\ N \in Nat \ {0} /\ Rows \in Nat /\ Cols \in Nat
  BY MatchAssumption, BoardAssumption
<1>1. \A i \in 0 .. Rows - 1, j \in 0 .. Cols - 1 : EmptyBoard.cells[At(i, j)] = NULL
  BY Places DEF EmptyBoard
<1>2. Fallen(EmptyBoard.cells)
  BY <1>1 DEF Fallen
<1>3. ASSUME NEW q \in Peer, Line(EmptyBoard.cells, q) PROVE FALSE
  <2>1. PICK x \in Int, y \in Int, d \in Direction :
          InRow(EmptyBoard.cells, q, x, y, d[1], d[2])
    BY <1>3 DEF Line
  <2>2. 0 \in 0 .. N - 1
    BY <1>0
  <2>3. Holds(EmptyBoard.cells, q, x + 0 * d[1], y + 0 * d[2])
    BY <2>1, <2>2 DEF InRow
  <2> QED BY <1>0, <1>1, <2>3 DEF Holds, OnBoard
<1>4. OpenBoard(EmptyBoard)
  BY <1>2, <1>3, EmptyBoardType DEF OpenBoard, EmptyBoard
<1>5. Tokens(EmptyBoard) = {}
  BY DEF Tokens, EmptyBoard
<1>6. ASSUME NEW c \in 1 .. Cols PROVE ColumnOf(EmptyBoard, c) = <<>>
  <2>1. c - 1 \in 0 .. Cols - 1
    BY <1>0
  <2>2. {i \in 0 .. Rows - 1 : EmptyBoard.cells[At(i, c - 1)] # NULL} = {}
    BY <1>1, <2>1
  <2>3. Height(EmptyBoard.cells, c - 1) = 0
    BY <2>2, FS_EmptySet DEF Height
  <2>4. ColumnOf(EmptyBoard, c) = [r \in 1 .. 0 |-> EmptyBoard.cells[At(Rows - r, c - 1)]]
    BY <1>2, <2>3, ColumnShape
  <2> QED BY <2>4
<1> QED BY <1>4, <1>5, <1>6 DEF Columns

LEMMA GameInit == Init => GameInv /\ TheGame!Init
<1> SUFFICES ASSUME Init PROVE GameInv /\ TheGame!Init
  OBVIOUS
<1>0. Host \in Peer /\ Guest \in Peer /\ Host # Guest
  BY MatchAssumption DEF Peer
<1>1. /\ \A p \in Peer : board[p] = EmptyBoard /\ result[p] = "none" /\ moves[p] = <<>>
      /\ \A p \in Peer : turn[p] = "mine" <=> p = Host
  BY DEF Init
<1>2. NextOn(EmptyBoard) = Host
  BY EmptyIsOpen, FS_EmptySet DEF NextOn
<1>3. Level(Host)
  BY <1>0, <1>1, Adversaries DEF Level, SameResult
<1>4. MatchInv
  BY InitInv
<1>5. GameInv
  <2>1. \A p \in Peer : before[p] \notin Peer
    BY MatchAssumption DEF Init
  <2> QED BY <1>0, <1>1, <1>2, <1>3, <1>4, <2>1, EmptyIsOpen DEF GameInv, OpenBoard
<1>6. Ahead \in Peer
  BY <1>0 DEF Ahead
<1>7. TheGame!Init
  BY <1>1, <1>2, <1>6, EmptyIsOpen DEF TheGame!Init, Columns, NextOn
<1> QED BY <1>5, <1>7

(* When a player moves the boards are level and the game is open; when one *)
(* reads a move, the other is ahead by that one.                           *)
LEMMA MoverSees ==
  ASSUME GameInv, NEW p \in Peer, phase[p] = "playing", turn[p] = "mine"
  PROVE  LET q == Adversary(p) IN
         /\ Level(p) /\ board[p] = board[q]
         /\ moves[p] = <<>> /\ moves[q] = <<>>
         /\ result[p] = "none" /\ result[q] = "none"
         /\ OpenBoard(board[p]) /\ NextOn(board[p]) = p
<1> DEFINE q == Adversary(p)
<1>0. q \in Peer /\ q # p /\ Adversary(q) = p /\ Peer = {p, q}
  BY Adversaries
<1>1. moves[p] = <<>> /\ moves[q] = <<>> /\ p \notin gone
  BY GameTypes, NothingOnItsWay DEF MatchInv
<1>2. result[p] = "none" /\ OpenBoard(board[p]) /\ NextOn(board[p]) = p
  BY DEF GameInv
<1>3. PICK a \in Peer : Level(a) \/ OneAhead(a)
  BY DEF GameInv
<1>4. ~OneAhead(a)
  <2>1. CASE a = p
    BY <2>1 DEF OneAhead
  <2>2. CASE a = q
    <3>1. OneAhead(q) => \E j \in 0 .. Cols - 1 : moves[p] = <<j>> \/ (moves[p] = <<>> /\ p \in gone)
      BY <1>0 DEF OneAhead
    <3>2. \A j : <<j>> # <<>>
      OBVIOUS
    <3> QED BY <1>1, <2>2, <3>1, <3>2
  <2> QED BY <1>0, <2>1, <2>2
<1>5. board[p] = board[q] /\ (result[q] = SameResult[result[p]] \/ result[p] = SameResult[result[q]])
  <2>1. CASE a = p
    BY <1>3, <1>4, <2>1 DEF Level
  <2>2. CASE a = q
    BY <1>0, <1>3, <1>4, <2>2 DEF Level
  <2> QED BY <1>0, <2>1, <2>2
<1>6. result[q] = "none"
  <2>1. result[q] \in {"none", "won", "lost", "draw"}
    BY <1>0, GameTypes DEF MatchTypeOK
  <2> QED BY <1>2, <1>5, <2>1 DEF SameResult
<1>7. Level(p)
  BY <1>1, <1>2, <1>5, <1>6 DEF Level, SameResult
<1> QED BY <1>1, <1>2, <1>5, <1>6, <1>7

LEMMA ReaderSees ==
  ASSUME GameInv, NEW p \in Peer, phase[p] = "playing", moves[p] # <<>>
  PROVE  /\ OneAhead(Adversary(p))
         /\ result[p] = "none" /\ OpenBoard(board[p])
<1> DEFINE q == Adversary(p)
<1>0. q \in Peer /\ q # p /\ Adversary(q) = p /\ Peer = {p, q}
  BY Adversaries
<1>1. PICK a \in Peer : Level(a) \/ OneAhead(a)
  BY DEF GameInv
<1>2. ~Level(a) /\ a # p
  BY <1>0, <1>1 DEF Level, OneAhead
<1> QED BY <1>0, <1>1, <1>2 DEF GameInv

LEMMA MyMoveGame ==
  ASSUME GameInv, NEW p \in Peer, NEW k \in Typed \ {0}, MyMove(p, k)
  PROVE  GameInv' /\ TheGame!Move(p, k)
<1> DEFINE q == Adversary(p)
           r == Played(board[p], k - 1, p)
<1>0. /\ q \in Peer /\ q # p /\ Adversary(q) = p /\ Peer = {p, q}
      /\ phase[p] = "playing" /\ turn[p] = "mine"
      /\ k \in 1 .. Cols /\ k - 1 \in 0 .. Cols - 1 /\ k - 1 + 1 = k
  BY Adversaries, MatchAssumption, BoardAssumption DEF MyMove
<1>1. MatchTypeOK /\ MatchInv'
  BY GameTypes, MyMoveInv
<1>2. /\ Level(p) /\ board[p] = board[q]
      /\ moves[p] = <<>> /\ moves[q] = <<>>
      /\ result[p] = "none" /\ result[q] = "none"
      /\ OpenBoard(board[p]) /\ NextOn(board[p]) = p
  BY <1>0, MoverSees
<1> DEFINE won == Meaning(r.win, "won")
           b   == r.board
           w   == r.win
<1> HIDE DEF q
<1>3. PICK sent \in IF q \in gone THEN BOOLEAN ELSE {TRUE} :
        /\ w # -1
        /\ board' = [board EXCEPT ![p] = b]
        /\ before' = before
        /\ result' = [result EXCEPT ![p] = won]
        /\ moves' = IF q \in gone THEN moves ELSE [moves EXCEPT ![q] = Append(@, Sent(k))]
        /\ phase' = [phase EXCEPT ![p] = IF ~sent THEN "failed"
                                         ELSE IF Ends(w) THEN "over" ELSE @]
        /\ turn' = [turn EXCEPT ![p] = IF sent /\ ~Ends(w) THEN "theirs" ELSE @]
        /\ gone' = gone
  <2> DEFINE t == PlayToken(board[p], before[p], k - 1, p)
             ww  == t.win
             wwn == Meaning(t.win, "won")
  <2>1. PICK sent \in IF q \in gone THEN BOOLEAN ELSE {TRUE} :
          /\ ww # -1
          /\ board' = [board EXCEPT ![p] = t.board]
          /\ before' = [before EXCEPT ![p] = t.before]
          /\ result' = [result EXCEPT ![p] = wwn]
          /\ moves' = IF q \in gone THEN moves ELSE [moves EXCEPT ![q] = Append(@, Sent(k))]
          /\ phase' = [phase EXCEPT ![p] = IF ~sent THEN "failed"
                                           ELSE IF Ends(ww) THEN "over" ELSE @]
          /\ turn' = [turn EXCEPT ![p] = IF sent /\ ~Ends(ww) THEN "theirs" ELSE @]
          /\ gone' = gone
    BY Zenon DEF MyMove, q
  <2>2. t.board = r.board /\ t.win = r.win /\ t.before = before[p]
    <3>1. PICK j \in 0 .. Cols - 1 : j = k - 1
      BY <1>0
    <3>2. board[p] \in Board
      BY <1>1 DEF MatchTypeOK
    <3> QED BY <3>1, <3>2, OnTheBoard
  <2>3. [before EXCEPT ![p] = before[p]] = before
    BY <1>1 DEF MatchTypeOK
  <2> HIDE DEF t, r
  <2> QED BY <2>1, <2>2, <2>3
<1>4. /\ b \in Board /\ Fallen(b.cells)
      /\ w \in {1, 0, -2}
      /\ w = 0 => OpenBoard(b)
      /\ Columns(b) = [Columns(board[p]) EXCEPT ![k] = Append(@, p)]
      /\ Len(Columns(board[p])[k]) < Rows
      /\ w = 1 <=> TheGame!HasLine(Columns(b), p)
      /\ w # 1 => (w = -2 <=> TheGame!IsFull(Columns(b)))
      /\ Cardinality(Tokens(board[p])) \in Nat
      /\ Cardinality(Tokens(b)) = Cardinality(Tokens(board[p])) + 1
  <2>1. PICK j \in 0 .. Cols - 1 : j = k - 1 /\ j + 1 = k
    BY <1>0
  <2>2. r = Played(board[p], j, p) /\ r.win # -1
    BY <1>3, <2>1
  <2> HIDE DEF r
  <2>3. /\ r.board \in Board /\ Fallen(r.board.cells)
        /\ r.win \in {1, 0, -2}
        /\ r.win = 0 => OpenBoard(r.board)
        /\ Columns(r.board) = [Columns(board[p]) EXCEPT ![j + 1] = Append(@, p)]
        /\ Len(Columns(board[p])[j + 1]) < Rows
        /\ r.win = 1 <=> TheGame!HasLine(Columns(r.board), p)
        /\ r.win # 1 => (r.win = -2 <=> TheGame!IsFull(Columns(r.board)))
        /\ Cardinality(Tokens(board[p])) \in Nat
        /\ Cardinality(Tokens(r.board)) = Cardinality(Tokens(board[p])) + 1
    <3>1. OpenBoard(board[p])
      BY <1>2
    <3> QED BY <2>2, <3>1, MoveOnBoard
  <2> QED BY <2>1, <2>3
<1>5. NextOn(b) = q
  <2>1. (p = Host /\ q = Guest) \/ (p = Guest /\ q = Host)
    BY <1>0 DEF Peer
  <2> DEFINE n == Cardinality(Tokens(board[p]))
             m == Cardinality(Tokens(b))
  <2> HIDE DEF n, m
  <2>2. n \in Nat /\ m = n + 1
    BY <1>4 DEF n, m
  <2>3. m % 2 = 0 <=> n % 2 # 0
    BY <2>2
  <2>4. p = IF n % 2 = 0 THEN Host ELSE Guest
    BY <1>2 DEF NextOn, n
  <2> QED BY <1>0, <2>1, <2>3, <2>4 DEF NextOn, m
<1> HIDE DEF b, w, won
<1>6. /\ won = IF w = 1 THEN "won" ELSE IF w = -2 THEN "draw" ELSE "none"
      /\ Ends(w) <=> w \in {1, -2}
  BY <1>4 DEF won, w, Meaning, Ends
<1>7. /\ board'[p] = b /\ board'[q] = board[q]
      /\ result'[p] = won /\ result'[q] = "none"
      /\ phase'[q] = phase[q] /\ turn'[q] = turn[q]
      /\ phase'[p] = "playing" => won = "none" /\ turn'[p] = "theirs"
      /\ moves'[p] = <<>>
      /\ moves'[q] = <<k - 1>> \/ (moves'[q] = <<>> /\ q \in gone')
  BY <1>0, <1>1, <1>2, <1>3, <1>6 DEF MatchTypeOK, Sent
<1>8. OneAhead(p)'
  <2>1. /\ r.win # -1 /\ board'[p] = r.board /\ result'[p] = Meaning(r.win, "won")
        /\ board'[q] = board[p]
    BY <1>2, <1>3, <1>7 DEF b, w, won
  <2>2. /\ Played(board'[q], k - 1, p).win # -1
        /\ board'[p] = Played(board'[q], k - 1, p).board
        /\ result'[p] = Meaning(Played(board'[q], k - 1, p).win, "won")
    BY <2>1
  <2> HIDE DEF r
  <2> QED BY <1>0, <1>7, <2>2 DEF OneAhead, q
<1>9. ASSUME NEW x \in Peer
      PROVE  /\ Fallen(board'[x].cells)
             /\ result'[x] = "none" => OpenBoard(board'[x])
             /\ phase'[x] = "playing" => /\ result'[x] = "none"
                                         /\ turn'[x] = "mine" <=> NextOn(board'[x]) = x
  <2>1. CASE x = p
    BY <1>0, <1>4, <1>5, <1>6, <1>7, <2>1
  <2>2. CASE x = q
    BY <1>0, <1>2, <1>7, <2>2 DEF GameInv
  <2> QED BY <1>0, <2>1, <2>2
<1>10. GameInv'
  BY <1>1, <1>3, <1>8, <1>9 DEF GameInv
<1>11. board[Ahead] = board[p] /\ OutcomeOf(Ahead) = OutcomeOf(p)
  BY <1>2, AheadIs
<1>12. board'[Ahead'] = b /\ OutcomeOf(Ahead)' = OutcomeOf(p)'
  <2>1. (GameInv => \A a \in Peer : Level(a) \/ OneAhead(a) =>
           board[Ahead] = board[a] /\ OutcomeOf(Ahead) = OutcomeOf(a))'
    BY AheadIs, PTL
  <2> QED BY <1>7, <1>8, <1>10, <2>1
<1>13. OutcomeOf(Ahead) = "open"
  BY <1>2, <1>11 DEF OutcomeOf
<1>14. OutcomeOf(Ahead)' = IF TheGame!HasLine(Columns(b), p) THEN p
                           ELSE IF TheGame!IsFull(Columns(b)) THEN "draw" ELSE "open"
  BY <1>4, <1>6, <1>7, <1>12 DEF OutcomeOf
<1>15. q = TheGame!Other(p)
  BY <1>0, MatchAssumption DEF q, Adversary, Peer, TheGame!Other
<1>16. TheGame!Move(p, k)
  <2>1. /\ [c \in 1 .. Cols |-> ColumnOf(board[Ahead], c)] = Columns(board[p])
        /\ [c \in 1 .. Cols |-> ColumnOf(board[Ahead], c)]' = Columns(b)
    BY <1>11, <1>12 DEF Columns
  <2>2. /\ p = IF Cardinality(Tokens(board[Ahead])) % 2 = 0 THEN Host ELSE Guest
        /\ q = (IF Cardinality(Tokens(board[Ahead])) % 2 = 0 THEN Host ELSE Guest)'
    BY <1>2, <1>5, <1>11, <1>12 DEF NextOn
  <2> DEFINE out == CASE result[Ahead] = "won"  -> Ahead
                     [] result[Ahead] = "lost" -> Adversary(Ahead)
                     [] result[Ahead] = "draw" -> "draw"
                     [] OTHER -> "open"
             nxt == IF Cardinality(Tokens(board[Ahead])) % 2 = 0 THEN Host ELSE Guest
             col == [c \in 1 .. Cols |-> ColumnOf(board[Ahead], c)]
  <2>3. out = OutcomeOf(Ahead) /\ out' = OutcomeOf(Ahead)'
    BY DEF OutcomeOf
  <2>4. TheGame!Move(p, k) <=>
          /\ out = "open" /\ nxt = p
          /\ Len(col[k]) < Rows
          /\ col' = [col EXCEPT ![k] = Append(@, p)]
          /\ nxt' = TheGame!Other(p)
          /\ out' = IF TheGame!HasLine([col EXCEPT ![k] = Append(@, p)], p) THEN p
                    ELSE IF TheGame!IsFull([col EXCEPT ![k] = Append(@, p)]) THEN "draw" ELSE "open"
    BY Zenon DEF TheGame!Move
  <2>5. col = Columns(board[p]) /\ col' = Columns(b)
    BY <2>1
  <2>6. nxt = p /\ nxt' = q
    BY <2>2
  <2>7. out = "open" /\ out' = IF TheGame!HasLine(Columns(b), p) THEN p
                              ELSE IF TheGame!IsFull(Columns(b)) THEN "draw" ELSE "open"
    BY <1>13, <1>14, <2>3
  <2> HIDE DEF out, nxt, col
  <2>8. [col EXCEPT ![k] = Append(@, p)] = Columns(b)
    BY <1>4, <2>5
  <2> QED BY <1>4, <1>15, <2>4, <2>5, <2>6, <2>7, <2>8
<1> QED BY <1>10, <1>16

(* What is shown of the game, when the one who is ahead has the same board *)
(* and result as before.                                                   *)
LEMMA NothingShown ==
  ASSUME board'[Ahead'] = board[Ahead], OutcomeOf(Ahead)' = OutcomeOf(Ahead)
  PROVE  UNCHANGED TheGame!gameVars
<1> DEFINE out == CASE result[Ahead] = "won"  -> Ahead
                   [] result[Ahead] = "lost" -> Adversary(Ahead)
                   [] result[Ahead] = "draw" -> "draw"
                   [] OTHER -> "open"
           nxt == IF Cardinality(Tokens(board[Ahead])) % 2 = 0 THEN Host ELSE Guest
           col == [c \in 1 .. Cols |-> ColumnOf(board[Ahead], c)]
<1>1. out' = out
  BY DEF OutcomeOf
<1>2. nxt' = nxt
  OBVIOUS
<1>3. col' = col
  OBVIOUS
<1>4. TheGame!gameVars = <<col, nxt, out>> /\ TheGame!gameVars' = <<col', nxt', out'>>
  BY DEF TheGame!gameVars
<1> QED BY <1>1, <1>2, <1>3, <1>4

LEMMA TheirMoveGame ==
  ASSUME GameInv, NEW p \in Peer, TheirMove(p)
  PROVE  GameInv' /\ UNCHANGED TheGame!gameVars
<1> DEFINE q == Adversary(p)
<1>0. /\ q \in Peer /\ q # p /\ Adversary(q) = p /\ Peer = {p, q}
      /\ phase[p] = "playing" /\ turn[p] = "theirs" /\ moves[p] # <<>>
  BY Adversaries DEF TheirMove
<1>1. MatchTypeOK /\ MatchInv'
  BY GameTypes, TheirMoveInv
<1>2. OneAhead(q) /\ result[p] = "none" /\ OpenBoard(board[p]) /\ NextOn(board[p]) # p
  BY <1>0, ReaderSees DEF GameInv
<1>3. PICK j \in 0 .. Cols - 1 :
        /\ Played(board[p], j, q).win # -1
        /\ board[q] = Played(board[p], j, q).board
        /\ result[q] = Meaning(Played(board[p], j, q).win, "won")
        /\ moves[q] = <<>>
        /\ moves[p] = <<j>>
  BY <1>0, <1>2 DEF OneAhead
<1> DEFINE r == Played(board[p], j, q)
           b    == r.board
           w    == r.win
           lost == Meaning(r.win, "lost")
<1>4. /\ board' = [board EXCEPT ![p] = b]
      /\ before' = before
      /\ result' = [result EXCEPT ![p] = lost]
      /\ moves' = [moves EXCEPT ![p] = Tail(@)]
      /\ phase' = [phase EXCEPT ![p] = IF Ends(w) THEN "over" ELSE @]
      /\ turn' = [turn EXCEPT ![p] = "mine"]
      /\ gone' = gone
  <2> DEFINE t == PlayToken(board[p], before[p], j, q)
  <2>1. Head(moves[p]) = j
    BY <1>3
  <2>2. /\ board' = [board EXCEPT ![p] = t.board]
        /\ before' = [before EXCEPT ![p] = t.before]
        /\ result' = [result EXCEPT ![p] = Meaning(t.win, "lost")]
        /\ moves' = [moves EXCEPT ![p] = Tail(@)]
        /\ phase' = [phase EXCEPT ![p] = IF Ends(t.win) THEN "over" ELSE @]
        /\ turn' = [turn EXCEPT ![p] = "mine"]
        /\ gone' = gone
    BY <2>1 DEF TheirMove, TheirMark, TurnBack
  <2>3. t.board = r.board /\ t.win = r.win /\ t.before = before[p]
    <3>1. board[p] \in Board
      BY <1>1 DEF MatchTypeOK
    <3> QED BY <1>0, <3>1, OnTheBoard
  <2>4. [before EXCEPT ![p] = before[p]] = before
    BY <1>1 DEF MatchTypeOK
  <2> HIDE DEF t, r
  <2> QED BY <2>2, <2>3, <2>4
<1>5. /\ b \in Board /\ Fallen(b.cells)
      /\ w \in {1, 0, -2}
      /\ w = 0 => OpenBoard(b)
      /\ Cardinality(Tokens(board[p])) \in Nat
      /\ Cardinality(Tokens(b)) = Cardinality(Tokens(board[p])) + 1
  <2>1. r = Played(board[p], j, q) /\ r.win # -1 /\ q \in Peer
    BY <1>0, <1>3
  <2> HIDE DEF q, r
  <2>2. /\ r.board \in Board /\ Fallen(r.board.cells)
        /\ r.win \in {1, 0, -2}
        /\ r.win = 0 => OpenBoard(r.board)
        /\ Columns(r.board) = [Columns(board[p]) EXCEPT ![j + 1] = Append(@, q)]
        /\ Len(Columns(board[p])[j + 1]) < Rows
        /\ r.win = 1 <=> TheGame!HasLine(Columns(r.board), q)
        /\ r.win # 1 => (r.win = -2 <=> TheGame!IsFull(Columns(r.board)))
        /\ Cardinality(Tokens(board[p])) \in Nat
        /\ Cardinality(Tokens(r.board)) = Cardinality(Tokens(board[p])) + 1
    BY <1>2, <2>1, MoveOnBoard
  <2> QED BY <2>2
<1>6. NextOn(b) = p
  <2> HIDE DEF b, q
  <2>1. (p = Host /\ q = Guest) \/ (p = Guest /\ q = Host)
    BY <1>0 DEF Peer
  <2> DEFINE n == Cardinality(Tokens(board[p]))
             m == Cardinality(Tokens(b))
  <2> HIDE DEF n, m
  <2>2. n \in Nat /\ m = n + 1
    BY <1>5 DEF n, m
  <2>3. m % 2 = 0 <=> n % 2 # 0
    BY <2>2
  <2>4. p # IF n % 2 = 0 THEN Host ELSE Guest
    BY <1>2 DEF NextOn, n
  <2> QED BY <1>0, <2>1, <2>3, <2>4 DEF NextOn, m
<1>7. /\ b = board[q]
      /\ lost \in {"none", "lost", "draw"}
      /\ lost = SameResult[result[q]]
      /\ Ends(w) <=> result[q] # "none"
      /\ lost = "none" <=> w = 0
      /\ lost = "none" <=> result[q] = "none"
  <2>1. w \in {1, 0, -2} /\ w \in {1, 0, -1, -2}
    BY <1>5
  <2> HIDE DEF r
  <2> QED BY <1>3, <2>1, MeaningType DEF r, Meaning, SameResult
<1> HIDE DEF q, r, b, w, lost
<1>8. /\ board'[p] = b /\ board'[q] = b
      /\ result'[p] = lost /\ result'[q] = result[q]
      /\ phase'[q] = phase[q] /\ turn'[q] = turn[q]
      /\ phase'[p] = "playing" => lost = "none"
      /\ turn'[p] = "mine"
      /\ moves'[p] = <<>> /\ moves'[q] = <<>>
  BY <1>0, <1>1, <1>3, <1>4, <1>7 DEF MatchTypeOK
<1>9. Level(q)'
  BY <1>0, <1>7, <1>8 DEF Level
<1>10. ASSUME NEW x \in Peer
       PROVE  /\ Fallen(board'[x].cells)
              /\ result'[x] = "none" => OpenBoard(board'[x])
              /\ phase'[x] = "playing" => /\ result'[x] = "none"
                                          /\ turn'[x] = "mine" <=> NextOn(board'[x]) = x
  <2>1. CASE x = p
    BY <1>5, <1>6, <1>7, <1>8, <2>1
  <2>2. CASE x = q
    BY <1>0, <1>7, <1>8, <2>2 DEF GameInv
  <2> QED BY <1>0, <2>1, <2>2
<1>11. GameInv'
  BY <1>0, <1>1, <1>4, <1>9, <1>10 DEF GameInv
<1>12. board[Ahead] = board[q] /\ OutcomeOf(Ahead) = OutcomeOf(q)
  BY <1>0, <1>2, AheadIs DEF q
<1>13. board'[Ahead'] = board'[q] /\ OutcomeOf(Ahead)' = OutcomeOf(q)'
  <2>1. (GameInv => \A a \in Peer : Level(a) \/ OneAhead(a) =>
           board[Ahead] = board[a] /\ OutcomeOf(Ahead) = OutcomeOf(a))'
    BY AheadIs, PTL
  <2> QED BY <1>0, <1>9, <1>11, <2>1
<1>14. OutcomeOf(q)' = OutcomeOf(q)
  BY <1>8 DEF OutcomeOf
<1>15. UNCHANGED TheGame!gameVars
  BY <1>7, <1>8, <1>12, <1>13, <1>14, NothingShown
<1> QED BY <1>11, <1>15

(* One that leaves, or learns that the other has left, plays nothing.      *)
LEMMA QuietGame ==
  ASSUME GameInv, MatchInv', UNCHANGED <<board, before, turn, result, moves>>, gone \subseteq gone',
         \A x \in Peer : phase'[x] = "playing" => phase[x] = "playing"
  PROVE  GameInv' /\ UNCHANGED TheGame!gameVars
<1>1. ASSUME NEW a \in Peer, Level(a) PROVE Level(a)'
  BY <1>1 DEF Level
<1>2. ASSUME NEW a \in Peer, OneAhead(a) PROVE OneAhead(a)'
  BY <1>2 DEF OneAhead
<1>3. GameInv'
  BY <1>1, <1>2 DEF GameInv
<1>4. board'[Ahead'] = board[Ahead] /\ OutcomeOf(Ahead)' = OutcomeOf(Ahead)
  BY DEF Ahead, OutcomeOf
<1> QED BY <1>3, <1>4, NothingShown

(* A step of a match in which 0 has not been typed.                        *)
LEMMA GameStep ==
  ASSUME GameInv, [Next]_vars
  PROVE  \/ zero'
         \/ GameInv' /\ [TheGame!Next]_(TheGame!gameVars)
<1>0. MatchInv /\ MatchInv' /\ MatchTypeOK
  BY GameTypes, StepInv
<1>1. ASSUME NEW p \in Peer, NEW k \in Typed \ {0}, MyMove(p, k)
      PROVE  GameInv' /\ TheGame!Next
  <2>1. GameInv' /\ TheGame!Move(p, k)
    BY <1>1, MyMoveGame
  <2>2. p \in TheGame!Player /\ k \in 1 .. Cols
    BY MatchAssumption, BoardAssumption DEF Peer, TheGame!Player
  <2> QED BY <2>1, <2>2 DEF TheGame!Next
<1>2. ASSUME NEW p \in Peer, NEW k \in Typed, MyMove(p, k), k = 0
      PROVE  zero'
  BY <1>2 DEF MyMove
<1>3. ASSUME NEW p \in Peer, TheirMove(p)
      PROVE  GameInv' /\ UNCHANGED TheGame!gameVars
  BY <1>3, TheirMoveGame
<1>4. ASSUME NEW p \in Peer, ReceiveFails(p) \/ Leave(p)
      PROVE  GameInv' /\ UNCHANGED TheGame!gameVars
  <2>1. /\ UNCHANGED <<board, before, turn, result, moves>> /\ gone \subseteq gone'
        /\ \A x \in Peer : phase'[x] = "playing" => phase[x] = "playing"
    BY <1>0, <1>4 DEF ReceiveFails, Leave, MatchTypeOK
  <2> QED BY <1>0, <2>1, QuietGame
<1>5. CASE UNCHANGED vars
  <2>1. UNCHANGED <<board, before, turn, result, moves, phase, gone>>
    BY <1>5 DEF vars
  <2> QED BY <1>0, <2>1, QuietGame
<1> QED BY <1>1, <1>2, <1>3, <1>4, <1>5 DEF Next

(* A 0 that has been typed is not forgotten.                               *)
LEMMA ZeroStays == zero /\ [Next]_vars => zero'
BY DEF Next, vars, MyMove, TheirMove, ReceiveFails, Leave

(* OneGame: two programs that see only each other's columns, each of which *)
(* looks for a row around the last token alone, play one game by the rules *)
(* of Game, whether or not one of them leaves (multi_player.cpp:42-107,    *)
(* connect4.cpp:31-117) - on a board of any size, for rows of any length,  *)
(* until somebody types 0.                                                 *)
THEOREM OneGameIsPlayed == Spec => OneGame
<1> DEFINE I == zero \/ GameInv
           M == zero' \/ TheGame!Next
<1>1. I /\ [Next]_vars => I' /\ [M]_(TheGame!gameVars)
  <2>1. CASE zero /\ [Next]_vars
    BY <2>1, ZeroStays
  <2>2. CASE GameInv /\ [Next]_vars
    BY <2>2, GameStep
  <2> QED BY <2>1, <2>2
<1>2. Init => I /\ TheGame!Init
  BY GameInit
<1>3. OneGame <=> TheGame!Init /\ [][M]_(TheGame!gameVars)
  BY DEF OneGame
<1> QED BY <1>1, <1>2, <1>3, PTL DEF Spec
=============================================================================
