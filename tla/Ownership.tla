------------------------------ MODULE Ownership ------------------------------
(***************************************************************************)
(* What Terraform promises its user about the objects of one resource      *)
(* block, apart from how the engine keeps the promise: it owns at most one *)
(* object, takes on another only when it owns none, and lets go of one     *)
(* only after that object is gone.  Objects it never heard of (a reply was *)
(* lost, or someone used the console) come and go beside it.  Only the     *)
(* death of the provider process excuses losing an object.                 *)
(***************************************************************************)
EXTENDS Naturals

CONSTANTS Ids, NoId

VARIABLES
    live,     \* the objects that exist
    owner,    \* the object owned, or NoId
    crashes   \* deaths of the provider process

vars == <<live, owner, crashes>>

Init ==
    /\ live = {}
    /\ owner = NoId
    /\ crashes = 0

(* A new object, owned from its first moment. *)
Acquire(i) ==
    /\ owner = NoId
    /\ i \notin live
    /\ live' = live \cup {i}
    /\ owner' = i
    /\ UNCHANGED crashes

(* An object that exists already is taken over by an import. *)
Adopt(i) ==
    /\ owner = NoId
    /\ i \in live
    /\ owner' = i
    /\ UNCHANGED <<live, crashes>>

(* An object Terraform does not know. *)
Appear(i) ==
    /\ i \notin live
    /\ i # owner
    /\ live' = live \cup {i}
    /\ UNCHANGED <<owner, crashes>>

Disappear(i) ==
    /\ i \in live
    /\ live' = live \ {i}
    /\ UNCHANGED <<owner, crashes>>

Release ==
    /\ owner \notin live
    /\ owner' = NoId
    /\ UNCHANGED <<live, crashes>>

(* A synchronous delete removes the object and the state entry at once. *)
RemoveOwned ==
    /\ owner \in live
    /\ live' = live \ {owner}
    /\ owner' = NoId
    /\ UNCHANGED crashes

Crash ==
    /\ owner' \in {owner, NoId}
    /\ crashes' = crashes + 1
    /\ UNCHANGED live

Next ==
    \/ \E i \in Ids : Acquire(i) \/ Adopt(i) \/ Appear(i) \/ Disappear(i)
    \/ Release
    \/ RemoveOwned
    \/ Crash

Spec == Init /\ [][Next]_vars
=============================================================================
