------------------------------- MODULE Channel --------------------------------
(***************************************************************************)
(* What a connection promises to the program that uses it: on each lane    *)
(* (one direction of one connection) the messages that are delivered are   *)
(* those that were sent, unchanged, once each and in their order.  A lane  *)
(* that is cut may deliver fewer.                                          *)
(***************************************************************************)
EXTENDS Naturals, Sequences

CONSTANTS Lane, Message

VARIABLES
  sent,  \* the messages sent on each lane
  got,   \* the messages delivered
  cut    \* the lanes that have been cut

channelVars == <<sent, got, cut>>

Init ==
  /\ sent = [l \in Lane |-> <<>>]
  /\ got  = [l \in Lane |-> <<>>]
  /\ cut  = {}

Send(l, m) ==
  /\ sent' = [sent EXCEPT ![l] = Append(@, m)]
  /\ UNCHANGED <<got, cut>>

Deliver(l) ==
  /\ Len(got[l]) < Len(sent[l])
  /\ got' = [got EXCEPT ![l] = Append(@, sent[l][Len(@) + 1])]
  /\ UNCHANGED <<sent, cut>>

Cut(ls) == cut' = cut \cup ls /\ UNCHANGED <<sent, got>>

Next ==
  \/ \E l \in Lane : (\E m \in Message : Send(l, m)) \/ Deliver(l)
  \/ \E ls \in SUBSET Lane : Cut(ls)

Spec == Init /\ [][Next]_channelVars

(* What was sent on a lane that is not cut is delivered.                   *)
FairSpec == Spec /\ \A l \in Lane : WF_channelVars(l \notin cut /\ Deliver(l))
=============================================================================
