---------------------------- MODULE ImageLoader -----------------------------
(***************************************************************************)
(* CustomImageView.loadImageFromUrl (UIImageView+Extension.swift), as the  *)
(* reused cells of a list call it (MovieViewCell.swift).                   *)
(*                                                                         *)
(* A cell is given one row after another while the pictures of earlier     *)
(* rows are still being fetched.  The replies come in any order, and one   *)
(* view may await the same picture several times.  A cache shared by all   *)
(* views keeps pictures until the system takes them back.                  *)
(*                                                                         *)
(* Alamofire's completion does nothing but enqueue the block that handles  *)
(* the reply, so both are one step.  A failed exchange still has data (an  *)
(* error page, or nothing), from which no picture can be made.             *)
(***************************************************************************)
EXTENDS Naturals, Functions

CONSTANTS
    View,           \* the image views, one to a cell
    Url,            \* the addresses of posters
    Bad,            \* those that URL(string:) does not take
    NoPoster,       \* a movie whose poster_path is nil
    Blank,          \* no picture, or no address asked for
    MaxAsked        \* bound: exchanges going on

\* An exchange: the view that wants the picture, and its address.
Fetch == [view : View, url : Url]

ASSUME ImageLoaderAssumption ==
    /\ Bad \subseteq Url
    /\ NoPoster \notin Url /\ Blank \notin Url /\ NoPoster # Blank
    /\ MaxAsked \in Nat

VARIABLES
    about,          \* about[v]: the poster of the row the cell shows
    wanted,         \* wanted[v]: imageUrlString
    picture,        \* picture[v]: image, named by its address
    asked,          \* asked[f]: exchanges going on for f
    cache           \* imageCache: the addresses whose picture it holds

vars == <<about, wanted, picture, asked, cache>>

Init ==
    /\ about = [v \in View |-> NoPoster]
    /\ wanted = [v \in View |-> Blank]
    /\ picture = [v \in View |-> Blank]
    /\ asked = [f \in Fetch |-> 0]
    /\ cache = {}

-----------------------------------------------------------------------------
\* A row whose movie has no poster: loadImageFromUrl is not called.
BindNoPoster(v) ==
    /\ about' = [about EXCEPT ![v] = NoPoster]
    /\ UNCHANGED <<wanted, picture, asked, cache>>

\* An address that is no URL: the function returns before the image is reset.
BindBad(v, u) ==
    /\ u \in Bad
    /\ about' = [about EXCEPT ![v] = u]
    /\ wanted' = [wanted EXCEPT ![v] = u]
    /\ UNCHANGED <<picture, asked, cache>>

\* A picture found in the cache.
BindCached(v, u) ==
    /\ u \in cache \ Bad
    /\ about' = [about EXCEPT ![v] = u]
    /\ wanted' = [wanted EXCEPT ![v] = u]
    /\ picture' = [picture EXCEPT ![v] = u]
    /\ UNCHANGED <<asked, cache>>

\* Mutant: the picture of the row before stays until the new one is there.
BindFetchKeepsPicture(v, u) ==
    /\ u \in Url \ (cache \cup Bad)
    /\ FoldFunction(+, 0, asked) < MaxAsked
    /\ about' = [about EXCEPT ![v] = u]
    /\ wanted' = [wanted EXCEPT ![v] = u]
    /\ asked' = [asked EXCEPT ![[view |-> v, url |-> u]] = @ + 1]
    /\ UNCHANGED <<picture, cache>>

\* Mutant: an exchange is started only if the view was blank before.
BindFetchOnce(v, u) ==
    /\ u \in Url \ (cache \cup Bad)
    /\ FoldFunction(+, 0, asked) < MaxAsked
    /\ about' = [about EXCEPT ![v] = u]
    /\ wanted' = [wanted EXCEPT ![v] = u]
    /\ picture' = [picture EXCEPT ![v] = Blank]
    /\ asked' = [asked EXCEPT ![[view |-> v, url |-> u]] =
                    IF wanted[v] = Blank THEN @ + 1 ELSE @]
    /\ UNCHANGED cache

\* A picture to fetch: the view is blank meanwhile.
BindFetch(v, u) ==
    /\ u \in Url \ (cache \cup Bad)
    /\ FoldFunction(+, 0, asked) < MaxAsked
    /\ about' = [about EXCEPT ![v] = u]
    /\ wanted' = [wanted EXCEPT ![v] = u]
    /\ picture' = [picture EXCEPT ![v] = Blank]
    /\ asked' = [asked EXCEPT ![[view |-> v, url |-> u]] = @ + 1]
    /\ UNCHANGED cache

-----------------------------------------------------------------------------
\* Mutant: the picture is shown without asking whether it is still wanted.
ShownUnchecked(f, p) == picture' = [picture EXCEPT ![f.view] = p]

\* Only a view that still wants f's picture shows what the reply makes of it.
Shown(f, p) ==
    picture' = IF wanted[f.view] = f.url THEN [picture EXCEPT ![f.view] = p] ELSE picture

\* Mutant: the exchange is counted off twice.
AnsweredTwice(f) ==
    /\ asked[f] > 0
    /\ asked' = [asked EXCEPT ![f] = @ - 2]

\* One of the exchanges for f is over.
Answered(f) ==
    /\ asked[f] > 0
    /\ asked' = [asked EXCEPT ![f] = @ - 1]

\* A picture arrives.
Picture(f) ==
    /\ Answered(f)
    /\ Shown(f, f.url)
    /\ cache' = cache \cup {f.url}
    /\ UNCHANGED <<about, wanted>>

\* Something arrives that is no picture, or the exchange fails.
Junk(f) ==
    /\ Answered(f)
    /\ Shown(f, Blank)
    /\ UNCHANGED <<about, wanted, cache>>

\* NSCache drops a picture, to make room.
Evict(u) ==
    /\ u \in cache
    /\ cache' = cache \ {u}
    /\ UNCHANGED <<about, wanted, picture, asked>>

Next ==
    \/ \E v \in View : BindNoPoster(v)
    \/ \E v \in View, u \in Url : BindBad(v, u) \/ BindCached(v, u) \/ BindFetch(v, u)
    \/ \E f \in Fetch : Picture(f) \/ Junk(f)
    \/ \E u \in Url : Evict(u)

Spec == Init /\ [][Next]_vars

-----------------------------------------------------------------------------
TypeOK ==
    /\ about \in [View -> Url \cup {NoPoster}]
    /\ wanted \in [View -> Url \cup {Blank}]
    /\ picture \in [View -> Url \cup {Blank}]
    /\ asked \in [Fetch -> Nat]
    /\ cache \subseteq Url \ Bad

(***************************************************************************)
(* A row whose movie has a poster never shows the poster of another movie, *)
(* although replies to the cell's earlier rows are still to come.  (A row  *)
(* without a poster may: BindNoPoster resets nothing.)                     *)
(***************************************************************************)
PostersFit ==
    \A v \in View : about[v] \in Url \ Bad => picture[v] \in {Blank, about[v]}

\* A blank view that wants a picture is going to get an answer.
BlanksAwaitAnswer ==
    \A v \in View :
        wanted[v] \in Url \ Bad /\ picture[v] = Blank =>
            asked[[view |-> v, url |-> wanted[v]]] > 0

(***************************************************************************)
(* Only a reply without a picture leaves a view blank for good: whether it *)
(* is the one it waited for or, when the same picture was asked for twice, *)
(* one that comes after the picture and takes it away again (line 32).     *)
(***************************************************************************)
OnlyJunkLeavesBlank ==
    [][BlanksAwaitAnswer /\ ~BlanksAwaitAnswer' => \E f \in Fetch : Junk(f)]_vars

-----------------------------------------------------------------------------
Slots == INSTANCE PictureSlots

(***************************************************************************)
(* Cache, exchanges and late replies amount to slots that show the picture *)
(* asked for last or none.                                                 *)
(***************************************************************************)
ImplementsSlots == Slots!Spec
=============================================================================
