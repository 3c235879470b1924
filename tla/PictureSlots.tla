---------------------------- MODULE PictureSlots ----------------------------
(***************************************************************************)
(* What an image view promises: whatever is asked of it, and however late, *)
(* often or badly the network answers, the picture it shows is the one     *)
(* asked for last, or none.  An address that is no URL is the exception:   *)
(* asking for it leaves the picture of before.                             *)
(***************************************************************************)
CONSTANTS
    View,           \* the image views
    Url,            \* the addresses pictures are loaded from
    Bad,            \* the addresses among them that are no URL
    Blank           \* no picture

VARIABLES
    wanted,         \* wanted[v]: the address asked for last, or Blank
    picture         \* picture[v]: whose picture v shows, or Blank

Init ==
    /\ wanted = [v \in View |-> Blank]
    /\ picture = [v \in View |-> Blank]

Ask(v, u) ==
    /\ wanted' = [wanted EXCEPT ![v] = u]
    /\ \E p \in IF u \in Bad THEN {picture[v]} ELSE {u, Blank} :
            picture' = [picture EXCEPT ![v] = p]

\* The picture asked for arrives, or an answer that is no picture does.
Answer(v) ==
    /\ \E p \in {wanted[v], Blank} : picture' = [picture EXCEPT ![v] = p]
    /\ UNCHANGED wanted

Next == \E v \in View : Answer(v) \/ \E u \in Url : Ask(v, u)

Spec == Init /\ [][Next]_<<wanted, picture>>
=============================================================================
