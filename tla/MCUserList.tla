----------------------------- MODULE MCUserList -----------------------------
(***************************************************************************)
(* Three users, of whom a list of two places refuses the third; as many    *)
(* descriptors, used again once their user is destroyed; two names, so     *)
(* that two users may take the same one; two pointers, so that one is      *)
(* given back while the other is in use.  Of the states, the list tells    *)
(* only DISCONNECTED apart: two of them stand for all.                     *)
(***************************************************************************)
EXTENDS UserList, TLC

(* Forgotten references are never given back: a bound keeps the count finite. *)
CONSTANT MaxRefs

MCRefsBound == \A u \in User : refs[u] <= MaxRefs

MCUserState == {"JUST_CONNECTED", "DISCONNECTED"}

MCSymmetry == Permutations(User) \cup Permutations(Name) \cup
              Permutations(Fd) \cup Permutations(Ref)
=============================================================================
