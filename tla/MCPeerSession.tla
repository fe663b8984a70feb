---------------------------- MODULE MCPeerSession -----------------------------
(***************************************************************************)
(* Three users with usernames of one character.  Everybody's certificate   *)
(* verifies, or all but the host's, or all but the guest's.  Two tries to  *)
(* connect are enough for one to fail before the host listens and for all  *)
(* of them to; with two moves each, a message number above one is used in  *)
(* both directions.  Column 0, as it may be typed, is sent as column -1.   *)
(***************************************************************************)
EXTENDS PeerSessionInvariant

MCHost     == <<"h">>
MCGuest    == <<"g">>
MCStranger == <<"s">>

MCStores == LET all == {Certificate(u) : u \in User}
            IN {all, all \ {Certificate(Host)}, all \ {Certificate(Guest)}}
MCNonce  == [u \in User |-> IF u = Host THEN 7 ELSE IF u = Guest THEN 8 ELSE 9]
MCColumn == {-1, 6}
MCUsers  == {MCHost, MCGuest, MCStranger}
=============================================================================
