------------------------------ MODULE Accounts ------------------------------
(***************************************************************************)
(* What the other screens of one phone can count on about its user.        *)
(*                                                                         *)
(* MUser.currentId() and MUser.currentUser() are read from two places, the *)
(* account of Firebase Auth (auth) and the record in UserDefaults, of      *)
(* which only the owner is kept here.  Records come late: the residue is   *)
(* the set of users whose record is stored or may still be, because a      *)
(* download or an update of it has not run to its end.                     *)
(***************************************************************************)
CONSTANTS
    Users,
    Nobody       \* nobody is signed in, no record is stored

VARIABLES
    auth,        \* who is signed in
    record,      \* the owner of the stored record
    residue,     \* the users whose record is stored or may still be
    crossed      \* the last sign-in found another user's record or work

vars == <<auth, record, residue, crossed>>

Init ==
    /\ auth = Nobody
    /\ record = Nobody
    /\ residue = {}
    /\ crossed = FALSE

\* Work on records ends at any time, but the stored one is always counted.
Within(most) ==
    /\ residue' \in SUBSET most
    /\ record' = Nobody \/ record' \in residue'

\* Auth signs a user in; the record stays what it was.
SignIn(u) ==
    /\ auth' = u
    /\ record' = record
    /\ Within(residue \cup {u})
    /\ crossed' = ~(residue \subseteq {u})

\* Auth gives the user up; the record stays.
GiveUp ==
    /\ auth # Nobody
    /\ auth' = Nobody
    /\ record' = record
    /\ Within(residue)
    /\ UNCHANGED crossed

\* The user logs out; downloads and updates go on.
LogOut ==
    /\ auth' = Nobody
    /\ record' = Nobody
    /\ Within(residue)
    /\ UNCHANGED crossed

\* A record arrives, whoever is signed in by then.
Store(u) ==
    /\ u \in residue
    /\ record' = u
    /\ Within(residue)
    /\ UNCHANGED <<auth, crossed>>

\* A download or an update ends without a record.
Settle ==
    /\ UNCHANGED <<auth, record, crossed>>
    /\ Within(residue)

Next ==
    \/ GiveUp \/ LogOut \/ Settle
    \/ \E u \in Users : SignIn(u) \/ Store(u)

Spec == Init /\ [][Next]_vars

=============================================================================
