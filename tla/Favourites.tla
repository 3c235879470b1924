----------------------------- MODULE Favourites -----------------------------
(***************************************************************************)
(* The heart button of the movie details screen (MovieDetailVC.swift) and  *)
(* the Core Data rows behind it.                                           *)
(*                                                                         *)
(* Screens of details lie on a navigation stack, any number of them and    *)
(* several for the same movie (two taps on a row before the first reply).  *)
(* Each reads its heart from the managed object context when it is pushed  *)
(* and never again.  A tap flips the heart and changes the context: an     *)
(* existing row is flipped and the context saved, a missing row is         *)
(* inserted and NOT saved.  Saving writes the whole context.  The process  *)
(* may be killed at any moment, which leaves what was saved.               *)
(***************************************************************************)
EXTENDS Naturals, Sequences

CONSTANTS
    Movie,          \* movie ids
    MaxScreens      \* bound: details screens on the stack

ASSUME FavouritesAssumption == MaxScreens \in Nat

\* The two values of isFavourite and of a row's isFav.
Flag == {"liked", "unliked"}

\* Mutant: a tap on a red heart leaves the flag without a value.
FlippedToNothing(f) == IF f = "liked" THEN "none" ELSE "liked"

\* isFavourite = !isFavourite, and the same of a row.
Flipped(f) == IF f = "liked" THEN "unliked" ELSE "liked"

\* A details screen, as far as its heart goes.
Screen == [movie : Movie, heart : Flag]

VARIABLES
    context,        \* context[m]: isFav of each row for movie m, saved or not
    disk,           \* the same, in the persistent store
    screens,        \* the stack of details screens: movie and isFavourite
    app             \* "active" or "background"

vars == <<context, disk, screens, app>>

Init ==
    /\ context = [m \in Movie |-> <<>>]
    /\ disk = [m \in Movie |-> <<>>]
    /\ screens = <<>>
    /\ app = "active"

Top == screens[Len(screens)]

-----------------------------------------------------------------------------
\* Mutant: a movie without a row is shown as a favourite.
RetrievedDefaultLiked(m) == IF Len(context[m]) = 1 THEN context[m][1] ELSE "liked"

\* retriveFromCoreData: the row's flag if there is exactly one row.
Retrieved(m) == IF Len(context[m]) = 1 THEN context[m][1] ELSE "unliked"

Push(m, heart) ==
    /\ Len(screens) < MaxScreens
    /\ screens' = Append(screens, [movie |-> m, heart |-> heart])
    /\ UNCHANGED <<context, disk, app>>

\* A details reply pushes a screen, whose configUI reads the heart.
Open(m) == Push(m, Retrieved(m))

\* The fetch throws: the heart keeps its default.
OpenFetchFails(m) == Push(m, "unliked")

\* dismissVC: back to the screen below.
Back ==
    /\ screens # <<>>
    /\ screens' = SubSeq(screens, 1, Len(screens) - 1)
    /\ UNCHANGED <<context, disk, app>>

-----------------------------------------------------------------------------
\* changeFavourite: the heart of the top screen flips ...
FlipHeart ==
    /\ app = "active" /\ screens # <<>>
    /\ screens' = [screens EXCEPT ![Len(screens)].heart = Flipped(@)]
    /\ UNCHANGED app

\* Mutant: a row is inserted whether or not the movie has one.
TapInsertAgain ==
    /\ FlipHeart
    /\ context' = [context EXCEPT ![Top.movie] = Append(@, Flipped(Top.heart))]
    /\ UNCHANGED disk

\* Mutant: the inserted row has the heart as it was before the tap.
TapInsertOldHeart ==
    /\ FlipHeart /\ Len(context[Top.movie]) = 0
    /\ context' = [context EXCEPT ![Top.movie] = <<Top.heart>>]
    /\ UNCHANGED disk

\* ... and changeCoreData finds no row: it inserts one and does not save.
TapInsert ==
    /\ FlipHeart /\ Len(context[Top.movie]) = 0
    /\ context' = [context EXCEPT ![Top.movie] = <<Flipped(Top.heart)>>]
    /\ UNCHANGED disk

\* Mutant: the context is saved before the row is flipped.
TapUpdateSavesFirst ==
    /\ FlipHeart /\ Len(context[Top.movie]) = 1
    /\ context' = [context EXCEPT ![Top.movie] = <<Flipped(@[1])>>]
    /\ disk' = context

\* ... or it finds the row: it flips it and saves the context ...
TapUpdate ==
    /\ FlipHeart /\ Len(context[Top.movie]) = 1
    /\ context' = [context EXCEPT ![Top.movie] = <<Flipped(@[1])>>]
    /\ disk' = context'

\* ... or the save throws, and saveContext swallows the error ...
TapUpdateNotSaved ==
    /\ FlipHeart /\ Len(context[Top.movie]) = 1
    /\ context' = [context EXCEPT ![Top.movie] = <<Flipped(@[1])>>]
    /\ UNCHANGED disk

\* ... or the fetch throws (or finds several rows): nothing else happens.
TapFetchFails ==
    /\ FlipHeart
    /\ UNCHANGED <<context, disk>>

-----------------------------------------------------------------------------
\* sceneDidEnterBackground and sceneWillEnterForeground: both do nothing.
EnterBackground ==
    /\ app = "active"
    /\ app' = "background"
    /\ UNCHANGED <<context, disk, screens>>

EnterForeground ==
    /\ app = "background"
    /\ app' = "active"
    /\ UNCHANGED <<context, disk, screens>>

\* The process is killed (or traps); the app is launched again.
Kill ==
    /\ context' = disk
    /\ screens' = <<>>
    /\ app' = "active"
    /\ UNCHANGED disk

Next ==
    \/ \E m \in Movie : Open(m) \/ OpenFetchFails(m)
    \/ Back
    \/ TapInsert \/ TapUpdate \/ TapUpdateNotSaved \/ TapFetchFails
    \/ EnterBackground \/ EnterForeground \/ Kill

Spec == Init /\ [][Next]_vars

-----------------------------------------------------------------------------
TypeOK ==
    /\ context \in [Movie -> Seq(Flag)]
    /\ disk \in [Movie -> Seq(Flag)]
    /\ screens \in Seq(Screen)
    /\ app \in {"active", "background"}

(***************************************************************************)
(* A movie has at most one row, in the context and in the store, although  *)
(* the Core Data model does not say that movieID is unique: with two rows  *)
(* every tap and every read would be ignored for good.                     *)
(***************************************************************************)
UniqueRows ==
    \A m \in Movie : Len(context[m]) <= 1 /\ Len(disk[m]) <= 1

\* Every heart on the stack shows what the context says of its movie.
HeartsTrue ==
    \A i \in DOMAIN screens : screens[i].heart = Retrieved(screens[i].movie)

Twins == \E i, j \in DOMAIN screens : i # j /\ screens[i].movie = screens[j].movie

(***************************************************************************)
(* Hearts go wrong only when a tap changes a movie that has two screens    *)
(* (the other one is not told), or when a fetch throws.                    *)
(***************************************************************************)
OnlyTwinsLie ==
    [][HeartsTrue /\ ~HeartsTrue' =>
        \/ Twins
        \/ TapFetchFails
        \/ \E m \in Movie : OpenFetchFails(m)]_vars

(***************************************************************************)
(* A movie without a row has no red heart on any screen, so that the row   *)
(* insertion of changeCoreData records a like (MovieDetailVC 256); only a  *)
(* fetch that throws can upset this.                                       *)
(***************************************************************************)
NoRowNoLike ==
    \A i \in DOMAIN screens :
        context[screens[i].movie] = <<>> => screens[i].heart = "unliked"

OnlyFetchUpsetsNoRowNoLike ==
    [][NoRowNoLike /\ ~NoRowNoLike' => TapFetchFails]_vars

\* What a kill would lose: nothing but rows that were never saved.
LosesOnlyNewRows ==
    \A m \in Movie : disk[m] # <<>> => disk[m] = context[m]

\* A change to a saved row is at risk only after a save that failed.
OnlyFailedSavesLoseChanges ==
    [][LosesOnlyNewRows /\ ~LosesOnlyNewRows' => TapUpdateNotSaved]_vars

(***************************************************************************)
(* README, line 14: the favourites are saved, so that the status of a      *)
(* movie does not change when the app is started again (here: after the    *)
(* user has left it).                                                      *)
(***************************************************************************)
StatusSurvivesRestart ==
    [][app = "background" /\ Kill =>
        \A m \in Movie : Retrieved(m)' = Retrieved(m)]_vars

-----------------------------------------------------------------------------
\* The set of favourites this implements: rows whose flag is "liked".
Liked(rows) == {m \in Movie : rows[m] = <<"liked">>}

Store == INSTANCE FavouriteStore WITH live <- Liked(context), durable <- Liked(disk)

(***************************************************************************)
(* Taps, screens, saves and kills amount to a FavouriteStore: a tap adds   *)
(* or removes one movie, and a relaunch finds a set that once was saved.   *)
(***************************************************************************)
ImplementsStore == Store!Spec
=============================================================================
