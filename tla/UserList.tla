------------------------------ MODULE UserList ------------------------------
(***************************************************************************)
(* The server's collection of User objects (src/server/user_list.cpp and   *)
(* src/server/user.h): two maps that find a user by name and by file       *)
(* descriptor, and a reference count per user that decides when a          *)
(* disconnected user is destroyed.  Each UserList method runs under the    *)
(* list's mutex from end to end and so is one action.                      *)
(*                                                                         *)
(* The callers are the pointer variables of the server's threads: "held"   *)
(* says which user each of them points to.  The count and the pointers are *)
(* kept apart in the code, get() raises one and returns the other, and the *)
(* properties below are about their staying together.                      *)
(***************************************************************************)
EXTENDS Integers, FiniteSets

CONSTANTS
  User,      \* the User objects, one for each "new User"
  Name,      \* usernames
  Fd,        \* file descriptors of accepted sockets
  Ref,       \* the pointer variables of all threads that may hold a User*
  UserState, \* enum UserState; the list itself tells only DISCONNECTED apart
  MaxUsers,  \* MAX_USERS
  NULL,      \* the null pointer, and "no descriptor yet"
  NoName     \* the empty username

ASSUME UserListAssumption ==
  /\ NULL \notin User /\ NULL \notin Fd
  /\ NoName \notin Name
  /\ IsFiniteSet(Ref)
  /\ {"JUST_CONNECTED", "DISCONNECTED"} \subseteq UserState
  /\ MaxUsers \in Nat

VARIABLES
  heap,    \* "unborn", "live" or "deleted", for each User object
  byName,  \* user_map_by_username; NULL where there is no entry
  byFd,    \* user_map_by_fd
  refs,    \* User::references
  uname,   \* User::username
  ustate,  \* User::state
  fdOf,    \* the descriptor of User::sw
  held     \* the User each pointer variable points to, or NULL

maps     == <<byName, byFd>>
userVars == <<heap, byName, byFd, refs, uname, ustate, fdOf, held>>

UserListTypeOK ==
  /\ heap   \in [User -> {"unborn", "live", "deleted"}]
  /\ byName \in [Name -> User \cup {NULL}]
  /\ byFd   \in [Fd -> User \cup {NULL}]
  /\ refs   \in [User -> Nat]
  /\ uname  \in [User -> Name \cup {NoName}]
  /\ ustate \in [User -> UserState]
  /\ fdOf   \in [User -> Fd \cup {NULL}]
  /\ held   \in [Ref -> User \cup {NULL}]

Init ==
  /\ heap   = [u \in User |-> "unborn"]
  /\ byName = [n \in Name |-> NULL]
  /\ byFd   = [f \in Fd |-> NULL]
  /\ refs   = [u \in User |-> 0]
  /\ uname  = [u \in User |-> NoName]
  /\ ustate = [u \in User |-> "JUST_CONNECTED"]
  /\ fdOf   = [u \in User |-> NULL]
  /\ held   = [r \in Ref |-> NULL]

-----------------------------------------------------------------------------
IsHeld(u) == \E r \in Ref : held[r] = u
Holders(ptr, u) == {r \in Ref : ptr[r] = u}

(* Descriptors still open: a User's destructor closes its socket, nothing  *)
(* else in the server does.                                                *)
OpenFds == {fdOf[u] : u \in {x \in User : heap[x] = "live"}}

(* std::map::insert leaves an existing entry alone.                        *)
Inserted(map, k, u) == IF map[k] = NULL THEN [map EXCEPT ![k] = u] ELSE map

(* std::map::erase by key, whatever the entry points to.                   *)
Erased(map, k) == [map EXCEPT ![k] = NULL]

HasSpace == Cardinality({f \in Fd : byFd[f] # NULL}) < MaxUsers

(* A connection is accepted on descriptor f and its new User is added; the *)
(* caller keeps no pointer to it and ignores what add() returned.          *)
Accept(u, f) ==
  /\ heap[u] = "unborn"
  /\ f \notin OpenFds
  /\ heap' = [heap EXCEPT ![u] = "live"]
  /\ fdOf' = [fdOf EXCEPT ![u] = f]
  /\ byFd' = IF HasSpace THEN Inserted(byFd, f, u) ELSE byFd
  /\ UNCHANGED <<byName, refs, uname, ustate, held>>

(* add() on a user that is already listed by descriptor, to list it by     *)
(* name as well.  A full list refuses it.                                  *)
AddNamed(u) ==
  /\ IsHeld(u)
  /\ uname[u] # NoName
  /\ IF HasSpace
       THEN /\ byFd' = Inserted(byFd, fdOf[u], u)
            /\ byName' = Inserted(byName, uname[u], u)
       ELSE UNCHANGED maps
  /\ UNCHANGED <<heap, refs, uname, ustate, fdOf, held>>

(* What get() does with the entry x it found (NULL if none): the null      *)
(* pointer changes nothing, a user gets one more reference.  The first     *)
(* definition is the bug of handing out a pointer that is not counted.     *)
TakeWithoutCounting(r, x) ==
  /\ held[r] = NULL
  /\ held' = [held EXCEPT ![r] = x]
  /\ UNCHANGED <<heap, byName, byFd, refs, uname, ustate, fdOf>>

Take(r, x) ==
  /\ held[r] = NULL
  /\ held' = [held EXCEPT ![r] = x]
  /\ refs' = IF x = NULL THEN refs ELSE [refs EXCEPT ![x] = @ + 1]
  /\ UNCHANGED <<heap, byName, byFd, uname, ustate, fdOf>>

GetByName(r, n) == Take(r, byName[n])
GetByFd(r, f)   == Take(r, byFd[f])

(* yield(): one reference less, and giving back the last reference to a    *)
(* disconnected user destroys it.  The first two definitions are bugs in   *)
(* the condition: not testing the count, and testing it one too late.      *)
NoZeroTest(u, left) == ustate[u] = "DISCONNECTED"
DestroysOneLate(u, left) == left < 0 /\ ustate[u] = "DISCONNECTED"
Destroys(u, left) == left = 0 /\ ustate[u] = "DISCONNECTED"

(* A destroyed user leaves both maps; the first definition is the bug of   *)
(* leaving it in one of them.                                              *)
UnlistByFdOnly(u) == byFd' = Erased(byFd, fdOf[u]) /\ UNCHANGED byName
Unlist(u) ==
  /\ byName' = IF uname[u] = NoName THEN byName ELSE Erased(byName, uname[u])
  /\ byFd' = Erased(byFd, fdOf[u])

Yield(r) ==
  LET u == held[r] IN
  /\ u # NULL
  /\ held' = [held EXCEPT ![r] = NULL]
  /\ refs' = [refs EXCEPT ![u] = @ - 1]
  /\ IF Destroys(u, refs[u] - 1)
       THEN /\ Unlist(u)
            /\ heap' = [heap EXCEPT ![u] = "deleted"]
       ELSE UNCHANGED <<heap, maps>>
  /\ UNCHANGED <<uname, ustate, fdOf>>

(* A pointer variable goes out of scope with no yield(): some returns of   *)
(* the message handlers do that.                                           *)
Forget(r) ==
  /\ held[r] # NULL
  /\ held' = [held EXCEPT ![r] = NULL]
  /\ UNCHANGED <<heap, byName, byFd, refs, uname, ustate, fdOf>>

(* A thread that points to users writes their states (setState); a handler *)
(* may write two at once, under both users' locks.  f maps users to states.*)
SetStates(f) ==
  /\ \A u \in DOMAIN f : IsHeld(u)
  /\ ustate' = [u \in User |-> IF u \in DOMAIN f THEN f[u] ELSE ustate[u]]
  /\ UNCHANGED <<heap, byName, byFd, refs, uname, fdOf, held>>

(* setUsername, called once in a user's life, while it registers.          *)
SetUsername(u, n) ==
  /\ IsHeld(u)
  /\ uname[u] = NoName
  /\ uname' = [uname EXCEPT ![u] = n]
  /\ UNCHANGED <<heap, byName, byFd, refs, ustate, fdOf, held>>

Next ==
  \/ \E u \in User, f \in Fd : Accept(u, f)
  \/ \E u \in User : AddNamed(u)
  \/ \E r \in Ref, n \in Name : GetByName(r, n)
  \/ \E r \in Ref, f \in Fd : GetByFd(r, f)
  \/ \E r \in Ref : Yield(r)
  \/ \E r \in Ref : Forget(r)
  \/ \E U \in SUBSET User : \E f \in [U -> UserState] : SetStates(f)
  \/ \E u \in User, n \in Name : SetUsername(u, n)

Spec == Init /\ [][Next]_userVars

-----------------------------------------------------------------------------
(* HeldAlive: no thread ever points to a destroyed User.  yield() destroys *)
(* with the count at zero, and every pointer was counted when get()        *)
(* returned it (user_list.h:26-27).                                        *)
HeldAlive == \A r \in Ref : held[r] # NULL => heap[held[r]] = "live"

(* IndexSound: neither map leads to a destroyed User, an entry is found    *)
(* under the user's own name or descriptor, and a user listed by name is   *)
(* also listed by descriptor.  Erasing by key could remove the wrong entry *)
(* or leave one behind (user_list.cpp:95-104).                             *)
IndexSound ==
  /\ \A n \in Name : byName[n] # NULL =>
        /\ heap[byName[n]] = "live"
        /\ uname[byName[n]] = n
        /\ byFd[fdOf[byName[n]]] = byName[n]
  /\ \A f \in Fd : byFd[f] # NULL =>
        heap[byFd[f]] = "live" /\ fdOf[byFd[f]] = f

(* HeldIndexed: while a thread points to a user the user stays in the map  *)
(* by descriptor: what disposes of one user never unlists another one that *)
(* is in use.                                                              *)
HeldIndexed == \A r \in Ref : held[r] # NULL => byFd[fdOf[held[r]]] = held[r]

(* NoZombie: a disconnected user that is not destroyed yet still has a     *)
(* reference out, whose yield() will destroy it: there is no order of      *)
(* setState and yield after which nobody is left to clean up.              *)
NoZombie ==
  \A u \in User : heap[u] = "live" /\ ustate[u] = "DISCONNECTED" => refs[u] > 0

(* RefsCover: the count is never below the number of pointers that are in  *)
(* use (a forgotten pointer leaves it above).                              *)
RefsCover == \A u \in User : Cardinality(Holders(held, u)) <= refs[u]

(* What the list needs to know of users that do not exist yet, and of the  *)
(* descriptors of those that do.                                           *)
FreshUsers ==
  \A u \in User : /\ heap[u] = "unborn" => ustate[u] = "JUST_CONNECTED"
                  /\ heap[u] = "live" => fdOf[u] \in Fd

(* The inductive invariant of the list.                                    *)
UserListInv ==
  /\ UserListTypeOK
  /\ HeldAlive
  /\ IndexSound
  /\ HeldIndexed
  /\ NoZombie
  /\ RefsCover
  /\ FreshUsers
=============================================================================
