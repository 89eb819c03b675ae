----------------------------- MODULE OwnedLock ------------------------------
(***************************************************************************)
(* What a lock with an owner promises its clients, if none of them is      *)
(* paused for too long: only who takes a free lock goes inside, and while  *)
(* the owner is inside the lock stays its own.  It comes free some time    *)
(* after the owner has left, whether that was to release it or to die.     *)
(***************************************************************************)
CONSTANTS Clients, Nobody

VARIABLES owner, inside
vars == <<owner, inside>>

Init == owner = Nobody /\ inside = {}

Enter(c) == /\ owner = Nobody
            /\ owner' = c
            /\ inside' = inside \cup {c}

Leave(c) == /\ c \in inside
            /\ inside' = inside \ {c}
            /\ UNCHANGED owner

ComeFree == /\ owner \notin inside
            /\ owner' = Nobody
            /\ UNCHANGED inside

Next == ComeFree \/ \E c \in Clients : Enter(c) \/ Leave(c)

Spec == Init /\ [][Next]_vars
=============================================================================
