---------------------------- MODULE SessionProofs ----------------------------
(***************************************************************************)
(* What Session promises, so that an implementation of it is known to keep *)
(* the promise: for every set of users, and although a launch may happen   *)
(* between any two steps.                                                  *)
(***************************************************************************)
EXTENDS Session, TLAPS

svars == <<served, kept, void>>

\* While attempts do not overlap, the user who is served is the one a launch
\* would serve.
ServedIsKept == ~void /\ served # Nobody => kept = served

(***************************************************************************)
(* A user who is served is served on, over launches too, until he leaves;  *)
(* and then nobody is served or remembered.                                *)
(***************************************************************************)
OnlyLeavingEnds ==
    [][~void /\ served # Nobody =>
        \/ served' = served /\ kept' = kept
        \/ served' = Nobody /\ kept' = Nobody]_svars

\* The user served and the user remembered are the same, by whatever way he
\* came to be served: both Enter and Launch serve the one remembered, and no
\* one else is remembered meanwhile.
THEOREM KeptTheorem == Spec => []ServedIsKept
<1>1. Init => ServedIsKept
    BY DEF Init, ServedIsKept
<1>2. ServedIsKept /\ [Next]_svars => ServedIsKept'
    <2> SUFFICES ASSUME ServedIsKept, [Next]_svars PROVE ServedIsKept'
        OBVIOUS
    <2>1. ASSUME NEW u \in User \cup {Nobody}, Remember(u) PROVE ServedIsKept'
        BY <2>1 DEF Remember, ServedIsKept
    <2>2. CASE Enter \/ Leave
        BY <2>2 DEF Enter, Leave, ServedIsKept
    <2>3. CASE Launch
        BY <2>3 DEF Launch, ServedIsKept
    <2>4. CASE Overlap \/ Open
        BY <2>4 DEF Overlap, Open, ServedIsKept
    <2>5. CASE UNCHANGED svars
        BY <2>5 DEF svars, ServedIsKept
    <2> QED
        BY <2>1, <2>2, <2>3, <2>4, <2>5 DEF Next
<1> QED
    BY <1>1, <1>2, PTL DEF Spec, svars

(***************************************************************************)
(* Only leaving ends it: a launch serves the same user again by            *)
(* ServedIsKept, and no session is opened while someone is served.         *)
(***************************************************************************)
THEOREM LeavingTheorem == Spec => OnlyLeavingEnds
<1>1. ServedIsKept /\ [Next]_svars
        => [~void /\ served # Nobody =>
                \/ served' = served /\ kept' = kept
                \/ served' = Nobody /\ kept' = Nobody]_svars
    BY DEF ServedIsKept, Next, Remember, Enter, Leave, Launch, Overlap, Open
<1> QED
    BY <1>1, KeptTheorem, PTL DEF Spec, OnlyLeavingEnds, svars
=============================================================================
