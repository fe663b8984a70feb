------------------------------ MODULE MCSystem ------------------------------
(* Instances of System.  Connections 1, 2 and 3 belong to three different  *)
(* people, named by the numbers 1 to 3 in alphabetical order.              *)
EXTENDS SystemInvariant, TLC

CONSTANTS w1, w2

MCNames   == [c \in Conn |-> c]
MCOneName == [c \in Conn |-> 1]
MCNone    == {}
MCWorkers == {w1, w2}
MCOne     == {1}
MCSecond  == {2}
MCTwo     == {1, 2}
MCThree   == {1, 2, 3}

(* Each of the given clients requests one list or challenge.               *)
Scenario(before, paced, askers) ==
  [before |-> before, paced |-> paced, maxOps |-> [c \in Conn |-> IF c \in askers THEN 1 ELSE 0]]

MCArriving == {Scenario(<<>>, FALSE, {})}
MCInLobby  == {Scenario(<<2, 1>>, TRUE, {1, 2})}
MCClients  == MCArriving \cup MCInLobby
MCTwoAsk   == {Scenario(<<2, 3, 1>>, TRUE, {1, 2})}
MCOneOn    == {Scenario(<<1>>, TRUE, {})}
MCOneAsks  == {Scenario(<<2, 1>>, TRUE, {1})}

MCSymmetry == Permutations(Worker)
=============================================================================
