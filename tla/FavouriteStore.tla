--------------------------- MODULE FavouriteStore ---------------------------
(***************************************************************************)
(* What the favourites are to a user: a set of movies that grows and       *)
(* shrinks one movie at a time, and a durable copy of it that comes back   *)
(* after the process is killed.  The copy is only ever replaced as a       *)
(* whole, by the set as it then is.                                        *)
(***************************************************************************)
CONSTANT Movie

VARIABLES
    live,       \* the favourites the running app knows of
    durable     \* the favourites a relaunched app would know of

Init ==
    /\ live = {}
    /\ durable = {}

\* One movie joins or leaves; everything may become durable with it.
Toggle(m) ==
    /\ live' = IF m \in live THEN live \ {m} ELSE live \cup {m}
    /\ durable' \in {durable, live'}

\* Everything becomes durable while no movie joins or leaves.
Flush ==
    /\ durable' = live
    /\ UNCHANGED live

\* The process is killed and the app launched again.
Crash ==
    /\ live' = durable
    /\ UNCHANGED durable

Next ==
    \/ \E m \in Movie : Toggle(m)
    \/ Flush
    \/ Crash

Spec == Init /\ [][Next]_<<live, durable>>
=============================================================================
