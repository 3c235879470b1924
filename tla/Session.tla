------------------------------- MODULE Session -------------------------------
(***************************************************************************)
(* What signing in and out amounts to for a user who lets one attempt end  *)
(* before making another: the app serves nobody or one user, remembers one *)
(* user for the next launch, and goes from serving one to serving another  *)
(* only by a logout.  Once attempts overlap, nothing is promised until the *)
(* app is launched again.                                                  *)
(***************************************************************************)
CONSTANTS
    User,       \* the users there are
    Nobody      \* no user

VARIABLES
    served,     \* the user whose main screen is shown
    kept,       \* the user a launch would serve
    void        \* attempts have overlapped: nothing is promised

Init ==
    /\ served = Nobody
    /\ kept = Nobody
    /\ void = FALSE

\* The server opens a session (or says that there is none): it is remembered.
Remember(u) ==
    /\ ~void /\ served = Nobody
    /\ kept' = u
    /\ UNCHANGED <<served, void>>

\* The user who is remembered is served, and stays remembered.
Enter ==
    /\ ~void /\ served = Nobody /\ kept # Nobody
    /\ served' = kept
    /\ UNCHANGED <<kept, void>>

\* The user logs out: served no more, remembered no more.
Leave ==
    /\ ~void /\ served # Nobody
    /\ served' = Nobody
    /\ kept' = Nobody
    /\ UNCHANGED void

\* The app is launched, at any moment.
Launch ==
    /\ served' = kept
    /\ void' = FALSE
    /\ UNCHANGED kept

\* An attempt is made during another.
Overlap ==
    /\ void' = TRUE
    /\ UNCHANGED <<served, kept>>

\* What overlapping attempts do is left open.
Open ==
    /\ void
    /\ served' \in User \cup {Nobody}
    /\ kept' \in User \cup {Nobody}
    /\ UNCHANGED void

Next ==
    \/ \E u \in User \cup {Nobody} : Remember(u)
    \/ Enter \/ Leave \/ Launch \/ Overlap \/ Open

Spec == Init /\ [][Next]_<<served, kept, void>>
=============================================================================
