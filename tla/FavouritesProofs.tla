-------------------------- MODULE FavouritesProofs --------------------------
(***************************************************************************)
(* Theorems about Favourites, for every set of movies and every bound on   *)
(* the number of screens.                                                  *)
(***************************************************************************)
EXTENDS Favourites, TLAPS

\* Flipping a flag gives the other flag.
LEMMA FlippedType == ASSUME NEW f \in Flag PROVE Flipped(f) \in Flag /\ Flipped(f) # f
BY DEF Flag, Flipped

\* The top screen of a nonempty stack, and the stack once its heart flipped.
LEMMA FlipHeartType ==
    ASSUME TypeOK, FlipHeart
    PROVE  /\ Top.movie \in Movie /\ Top.heart \in Flag
           /\ screens' \in Seq(Screen)
           /\ app' = app
<1>1. Len(screens) \in 1..Len(screens)
    BY DEF TypeOK, FlipHeart
<1>2. Top \in Screen
    BY <1>1 DEF TypeOK, Top
<1>3. Top.movie \in Movie /\ Top.heart \in Flag
    BY <1>2 DEF Screen
<1>4. [Top EXCEPT !.heart = Flipped(Top.heart)] \in Screen
    BY <1>2, <1>3, FlippedType DEF Screen
<1>5. screens' = [screens EXCEPT ![Len(screens)] =
                      [Top EXCEPT !.heart = Flipped(Top.heart)]]
    BY <1>1 DEF FlipHeart, Top, TypeOK
<1>6. screens' \in Seq(Screen)
    BY <1>1, <1>4, <1>5 DEF TypeOK
<1> QED
    BY <1>3, <1>6 DEF FlipHeart

\* The flag a pushed screen reads is a flag.
LEMMA RetrievedType == ASSUME TypeOK, NEW m \in Movie PROVE Retrieved(m) \in Flag
BY DEF TypeOK, Retrieved, Flag

\* Pushing a screen keeps the type and leaves the rows alone.
LEMMA PushType ==
    ASSUME TypeOK, NEW m \in Movie, NEW heart \in Flag, Push(m, heart)
    PROVE  TypeOK' /\ context' = context /\ disk' = disk
<1> [movie |-> m, heart |-> heart] \in Screen
    BY DEF Screen
<1> QED
    BY DEF TypeOK, Push

\* A one-row sequence of a flag.
LEMMA OneRow ==
    ASSUME NEW f \in Flag
    PROVE  <<f>> \in Seq(Flag) /\ Len(<<f>>) = 1 /\ <<f>>[1] = f
OBVIOUS

\* What the three ways to change a row do to the context.
LEMMA TapRows ==
    ASSUME TypeOK, TapInsert \/ TapUpdate \/ TapUpdateNotSaved
    PROVE  \E f \in Flag :
              /\ context' = [context EXCEPT ![Top.movie] = <<f>>]
              /\ Top.movie \in Movie
              /\ context[Top.movie] # <<f>>
<1>1. Top.movie \in Movie /\ Top.heart \in Flag
    BY FlipHeartType DEF TapInsert, TapUpdate, TapUpdateNotSaved
<1>2. context[Top.movie] \in Seq(Flag)
    BY <1>1 DEF TypeOK
<1>3. CASE TapInsert
    <2>1. Flipped(Top.heart) \in Flag
        BY <1>1, FlippedType
    <2>2. context[Top.movie] # <<Flipped(Top.heart)>>
        <3>1. Len(context[Top.movie]) = 0
            BY <1>3 DEF TapInsert
        <3>2. Len(<<Flipped(Top.heart)>>) = 1
            BY <2>1, OneRow
        <3> QED
            BY <3>1, <3>2
    <2> QED
        BY <1>1, <1>3, <2>1, <2>2 DEF TapInsert
<1>4. CASE TapUpdate \/ TapUpdateNotSaved
    <2> DEFINE old == context[Top.movie][1]
    <2>1. Len(context[Top.movie]) = 1
        BY <1>4 DEF TapUpdate, TapUpdateNotSaved
    <2>2. old \in Flag
        BY <1>2, <2>1
    <2>3. Flipped(old) \in Flag /\ Flipped(old) # old
        BY <2>2, FlippedType
    <2>4. context[Top.movie] # <<Flipped(old)>>
        BY <2>3, OneRow
    <2>5. context' = [context EXCEPT ![Top.movie] = <<Flipped(old)>>]
        BY <1>4 DEF TapUpdate, TapUpdateNotSaved
    <2> QED
        BY <1>1, <2>3, <2>4, <2>5
<1> QED
    BY <1>3, <1>4

-----------------------------------------------------------------------------
\* The first state is typed ...
LEMMA TypeInit == Init => TypeOK
<1> <<>> \in Seq(Flag) /\ <<>> \in Seq(Screen)
    OBVIOUS
<1> QED
    BY DEF Init, TypeOK

\* ... and so is every one after it.
LEMMA TypeStep == TypeOK /\ [Next]_vars => TypeOK'
<1> SUFFICES ASSUME TypeOK, [Next]_vars PROVE TypeOK'
    OBVIOUS
<1>1. ASSUME NEW m \in Movie, Open(m) \/ OpenFetchFails(m) PROVE TypeOK'
    BY <1>1, PushType, RetrievedType DEF Open, OpenFetchFails, Flag
<1>2. CASE Back
    <2>1. screens \in Seq(Screen) /\ screens # <<>>
        BY <1>2 DEF Back, TypeOK
    <2>2. SubSeq(screens, 1, Len(screens) - 1) \in Seq(Screen)
        BY <2>1
    <2> QED
        BY <1>2, <2>2 DEF Back, TypeOK
<1>3. CASE TapInsert \/ TapUpdate \/ TapUpdateNotSaved
    <2>1. FlipHeart
        BY <1>3 DEF TapInsert, TapUpdate, TapUpdateNotSaved
    <2>2. context' \in [Movie -> Seq(Flag)]
        <3>1. PICK f \in Flag : context' = [context EXCEPT ![Top.movie] = <<f>>]
            BY <1>3, TapRows
        <3> QED
            BY <3>1, OneRow DEF TypeOK
    <2>3. disk' = disk \/ disk' = context'
        BY <1>3 DEF TapInsert, TapUpdate, TapUpdateNotSaved
    <2> QED
        BY <2>1, <2>2, <2>3, FlipHeartType DEF TypeOK
<1>4. CASE TapFetchFails
    BY <1>4, FlipHeartType DEF TapFetchFails, TypeOK
<1>5. CASE EnterBackground \/ EnterForeground
    BY <1>5 DEF EnterBackground, EnterForeground, TypeOK
<1>6. CASE Kill
    <2> <<>> \in Seq(Screen)
        OBVIOUS
    <2> QED
        BY <1>6 DEF Kill, TypeOK
<1>7. CASE UNCHANGED vars
    BY <1>7 DEF vars, TypeOK
<1> QED
    BY <1>1, <1>2, <1>3, <1>4, <1>5, <1>6, <1>7 DEF Next

\* Rows and screens always have their type.
THEOREM TypeCorrect == Spec => []TypeOK
BY TypeInit, TypeStep, PTL DEF Spec

\* There are no rows at first ...
LEMMA UniqueRowsInit == Init => UniqueRows
<1>1. Len(<<>>) <= 1
    OBVIOUS
<1>2. ASSUME Init, NEW m \in Movie PROVE context[m] = <<>> /\ disk[m] = <<>>
    BY <1>2 DEF Init
<1> QED
    BY <1>1, <1>2 DEF UniqueRows

\* ... and every step keeps at most one of each movie.
LEMMA UniqueRowsStep == TypeOK /\ UniqueRows /\ [Next]_vars => UniqueRows'
<1> SUFFICES ASSUME TypeOK, UniqueRows, [Next]_vars PROVE UniqueRows'
    OBVIOUS
<1>1. ASSUME UNCHANGED <<context, disk>> PROVE UniqueRows'
    BY <1>1 DEF UniqueRows
<1>2. ASSUME NEW m \in Movie, Open(m) \/ OpenFetchFails(m) PROVE UniqueRows'
    <2> UNCHANGED <<context, disk>>
        BY <1>2 DEF Open, OpenFetchFails, Push
    <2> QED
        BY <1>1
<1>3. CASE TapInsert \/ TapUpdate \/ TapUpdateNotSaved
    <2>1. PICK f \in Flag : context' = [context EXCEPT ![Top.movie] = <<f>>]
        BY <1>3, TapRows
    <2>2. \A m \in Movie : Len(context'[m]) <= 1
        BY <2>1, OneRow DEF TypeOK, UniqueRows
    <2>3. disk' = disk \/ disk' = context'
        BY <1>3 DEF TapInsert, TapUpdate, TapUpdateNotSaved
    <2> QED
        BY <2>2, <2>3 DEF UniqueRows
<1>4. CASE Back \/ TapFetchFails \/ EnterBackground \/ EnterForeground
    BY <1>1, <1>4 DEF Back, TapFetchFails, EnterBackground, EnterForeground
<1>5. CASE Kill
    BY <1>5 DEF Kill, UniqueRows
<1>6. CASE UNCHANGED vars
    BY <1>1, <1>6 DEF vars
<1> QED
    BY <1>2, <1>3, <1>4, <1>5, <1>6 DEF Next

(***************************************************************************)
(* No movie ever has two rows.  Context and store must be taken together:  *)
(* a save copies one to the other, and a relaunch copies it back.          *)
(***************************************************************************)
THEOREM UniqueRowsTheorem == Spec => []UniqueRows
BY UniqueRowsInit, UniqueRowsStep, TypeCorrect, PTL DEF Spec

-----------------------------------------------------------------------------
\* The set of liked movies after the row of movie t was set to f.
LEMMA LikedAfter ==
    ASSUME NEW rows \in [Movie -> Seq(Flag)], NEW t \in Movie, NEW f \in Flag
    PROVE  Liked([rows EXCEPT ![t] = <<f>>]) =
              IF f = "liked" THEN Liked(rows) \cup {t} ELSE Liked(rows) \ {t}
<1>1. f # "liked" => <<f>> # <<"liked">>
    OBVIOUS
<1>2. \A m \in Movie : [rows EXCEPT ![t] = <<f>>][m] = IF m = t THEN <<f>> ELSE rows[m]
    OBVIOUS
<1> QED
    BY <1>1, <1>2 DEF Liked

(***************************************************************************)
(* The screens, taps, saves and kills implement FavouriteStore.  A tap     *)
(* either changes the membership of the top screen's movie or (a row       *)
(* inserted as unliked after a fetch that threw) changes no set at all.    *)
(***************************************************************************)
THEOREM StoreTheorem == Spec => ImplementsStore
<1>1. Init => Store!Init
    <2>1. <<>> # <<"liked">>
        OBVIOUS
    <2> QED
        BY <2>1 DEF Init, Store!Init, Liked
<1>2. TypeOK /\ [Next]_vars => [Store!Next]_<<Liked(context), Liked(disk)>>
    <2> SUFFICES ASSUME TypeOK, [Next]_vars
                 PROVE  [Store!Next]_<<Liked(context), Liked(disk)>>
        OBVIOUS
    <2>1. ASSUME UNCHANGED <<context, disk>>
          PROVE  UNCHANGED <<Liked(context), Liked(disk)>>
        BY <2>1 DEF Liked
    <2>2. ASSUME NEW m \in Movie, Open(m) \/ OpenFetchFails(m)
          PROVE  UNCHANGED <<context, disk>>
        BY <2>2 DEF Open, OpenFetchFails, Push
    <2>3. CASE TapInsert \/ TapUpdate \/ TapUpdateNotSaved
        <3>1. PICK f \in Flag : /\ context' = [context EXCEPT ![Top.movie] = <<f>>]
                               /\ Top.movie \in Movie
                               /\ context[Top.movie] # <<f>>
            BY <2>3, TapRows
        <3>2. Liked(context') = IF f = "liked" THEN Liked(context) \cup {Top.movie}
                                               ELSE Liked(context) \ {Top.movie}
            BY <3>1, LikedAfter DEF TypeOK
        <3>3. Liked(disk') \in {Liked(disk), Liked(context')}
            BY <2>3 DEF TapInsert, TapUpdate, TapUpdateNotSaved
        <3>4. CASE f = "liked"
            <4> Top.movie \notin Liked(context)
                BY <3>1, <3>4 DEF Liked
            <4> QED
                BY <3>1, <3>2, <3>3, <3>4 DEF Store!Next, Store!Toggle, Liked
        <3>5. CASE f # "liked" /\ Top.movie \in Liked(context)
            BY <3>1, <3>2, <3>3, <3>5 DEF Store!Next, Store!Toggle, Liked
        <3>6. CASE f # "liked" /\ Top.movie \notin Liked(context)
            <4> Liked(context') = Liked(context)
                BY <3>2, <3>6
            <4> QED
                BY <3>3 DEF Store!Next, Store!Flush, Liked
        <3> QED
            BY <3>4, <3>5, <3>6
    <2>4. CASE Back \/ TapFetchFails \/ EnterBackground \/ EnterForeground
        <3> UNCHANGED <<context, disk>>
            BY <2>4 DEF Back, TapFetchFails, EnterBackground, EnterForeground
        <3> QED
            BY <2>1
    <2>5. CASE Kill
        BY <2>5 DEF Kill, Store!Next, Store!Crash, Liked
    <2>6. CASE UNCHANGED vars
        BY <2>1, <2>6 DEF vars
    <2> QED
        BY <2>1, <2>2, <2>3, <2>4, <2>5, <2>6 DEF Next
<1> QED
    BY <1>1, <1>2, TypeCorrect, PTL DEF Spec, ImplementsStore, Store!Spec

-----------------------------------------------------------------------------
\* A row that is there, and what is read from it.
LEMMA RowCases ==
    ASSUME TypeOK, UniqueRows, NEW m \in Movie
    PROVE  \/ context[m] = <<>> /\ Len(context[m]) = 0 /\ Retrieved(m) = "unliked"
           \/ Len(context[m]) = 1 /\ Retrieved(m) = context[m][1] /\ context[m] # <<>>
<1>1. context[m] \in Seq(Flag) /\ Len(context[m]) <= 1
    BY DEF TypeOK, UniqueRows
<1>2. Len(context[m]) = 0 \/ Len(context[m]) = 1
    <2> DEFINE n == Len(context[m])
    <2>1. n \in Nat /\ n <= 1
        BY <1>1
    <2> HIDE DEF n
    <2>2. n = 0 \/ n = 1
        BY <2>1
    <2> QED
        BY <2>2 DEF n
<1>3. Len(context[m]) = 0 <=> context[m] = <<>>
    BY <1>1
<1> QED
    BY <1>2, <1>3 DEF Retrieved

\* Every screen of the stack is one, of one of the movies.
LEMMA ScreensType ==
    ASSUME TypeOK, NEW i \in DOMAIN screens
    PROVE  screens[i] \in Screen /\ screens[i].movie \in Movie
<1>1. screens[i] \in Screen
    BY DEF TypeOK
<1> QED
    BY <1>1 DEF Screen

\* What FlipHeart does to the stack, screen by screen.
LEMMA FlippedScreens ==
    ASSUME TypeOK, FlipHeart
    PROVE  /\ Len(screens) \in DOMAIN screens /\ DOMAIN screens' = DOMAIN screens
           /\ \A i \in DOMAIN screens : screens'[i].movie = screens[i].movie
           /\ \A i \in DOMAIN screens : i # Len(screens) => screens'[i] = screens[i]
           /\ screens'[Len(screens)].heart = Flipped(Top.heart)
<1>1. screens \in Seq(Screen) /\ Len(screens) \in DOMAIN screens
    BY DEF TypeOK, FlipHeart
<1>2. Top \in Screen
    BY <1>1 DEF Top
<1>3. screens' = [screens EXCEPT ![Len(screens)] =
                      [Top EXCEPT !.heart = Flipped(Top.heart)]]
    BY <1>1 DEF FlipHeart, Top
<1>4. /\ [Top EXCEPT !.heart = Flipped(Top.heart)].movie = Top.movie
      /\ [Top EXCEPT !.heart = Flipped(Top.heart)].heart = Flipped(Top.heart)
    BY <1>2 DEF Screen
<1> QED
    BY <1>1, <1>3, <1>4 DEF Top

\* Pushing and popping screens, screen by screen.
LEMMA PushedScreens ==
    ASSUME TypeOK, NEW m \in Movie, NEW heart \in Flag, Push(m, heart)
    PROVE  /\ context' = context
           /\ \A i \in DOMAIN screens' :
                 \/ i \in DOMAIN screens /\ screens'[i] = screens[i]
                 \/ screens'[i] = [movie |-> m, heart |-> heart]
BY DEF TypeOK, Push

\* Going back leaves the screens below as they were.
LEMMA PoppedScreens ==
    ASSUME TypeOK, Back
    PROVE  /\ context' = context
           /\ \A i \in DOMAIN screens' : i \in DOMAIN screens /\ screens'[i] = screens[i]
BY DEF TypeOK, Back

(***************************************************************************)
(* Without a fetch that throws, a movie that has no row has no red heart,  *)
(* so that the row inserted by the next tap is a liked one.                *)
(***************************************************************************)
THEOREM NoRowTheorem == Spec => OnlyFetchUpsetsNoRowNoLike
<1>1. TypeOK /\ UniqueRows /\ [Next]_vars
        => [NoRowNoLike /\ ~NoRowNoLike' => TapFetchFails]_vars
    <2> SUFFICES ASSUME TypeOK, UniqueRows, [Next]_vars, NoRowNoLike, ~TapFetchFails
                 PROVE  NoRowNoLike'
        OBVIOUS
    <2>0. ASSUME NEW m \in Movie, NEW h \in Flag, Push(m, h),
                 context[m] = <<>> => h = "unliked"
          PROVE  NoRowNoLike'
        <3>1. /\ context' = context
              /\ \A i \in DOMAIN screens' :
                    \/ i \in DOMAIN screens /\ screens'[i] = screens[i]
                    \/ screens'[i] = [movie |-> m, heart |-> h]
            BY <2>0, PushedScreens
        <3>2. ASSUME NEW i \in DOMAIN screens', context[screens'[i].movie] = <<>>
              PROVE  screens'[i].heart = "unliked"
            <4>1. CASE i \in DOMAIN screens /\ screens'[i] = screens[i]
                BY <3>2, <4>1 DEF NoRowNoLike
            <4>2. CASE screens'[i] = [movie |-> m, heart |-> h]
                BY <2>0, <3>2, <4>2
            <4> QED
                BY <3>1, <4>1, <4>2
        <3> QED
            BY <3>1, <3>2 DEF NoRowNoLike
    <2>1. ASSUME NEW m \in Movie, Open(m) \/ OpenFetchFails(m) PROVE NoRowNoLike'
        <3>1. context[m] = <<>> => Retrieved(m) = "unliked"
            BY RowCases
        <3>2. Retrieved(m) \in Flag /\ "unliked" \in Flag
            BY RetrievedType DEF Flag
        <3> QED
            BY <2>0, <2>1, <3>1, <3>2 DEF Open, OpenFetchFails
    <2>2. CASE Back
        BY <2>2, PoppedScreens DEF NoRowNoLike
    <2>3. CASE TapInsert \/ TapUpdate \/ TapUpdateNotSaved
        <3>1. FlipHeart
            BY <2>3 DEF TapInsert, TapUpdate, TapUpdateNotSaved
        <3>2. PICK f \in Flag : /\ context' = [context EXCEPT ![Top.movie] = <<f>>]
                               /\ Top.movie \in Movie
            BY <2>3, TapRows
        <3>3. \A i \in DOMAIN screens : screens[i].movie \in Movie
            BY ScreensType
        <3>4. <<f>> # <<>>
            OBVIOUS
        <3>5. ASSUME NEW i \in DOMAIN screens', context'[screens'[i].movie] = <<>>
              PROVE  screens'[i].heart = "unliked"
            <4>1. i \in DOMAIN screens /\ screens'[i].movie = screens[i].movie
                BY <3>1, <3>5, FlippedScreens
            <4>2. screens[i].movie # Top.movie /\ context[screens[i].movie] = <<>>
                BY <3>2, <3>3, <3>4, <3>5, <4>1 DEF TypeOK
            <4>3. i # Len(screens)
                BY <4>2 DEF Top
            <4> QED
                BY <3>1, <4>1, <4>2, <4>3, FlippedScreens DEF NoRowNoLike
        <3> QED
            BY <3>5 DEF NoRowNoLike
    <2>4. CASE Kill
        <3> DOMAIN screens' = {}
            BY <2>4 DEF Kill
        <3> QED
            BY DEF NoRowNoLike
    <2>5. CASE EnterBackground \/ EnterForeground \/ UNCHANGED vars
        BY <2>5 DEF EnterBackground, EnterForeground, vars, NoRowNoLike
    <2> QED
        BY <2>1, <2>2, <2>3, <2>4, <2>5 DEF Next
<1> QED
    BY <1>1, TypeCorrect, UniqueRowsTheorem, PTL DEF Spec, OnlyFetchUpsetsNoRowNoLike

\* Every step but a save that fails keeps a kill from losing saved rows: a save
\* copies the whole context, and a row is inserted only for a movie that has
\* none in the store either.
LEMMA LossStep ==
    TypeOK /\ UniqueRows /\ LosesOnlyNewRows /\ [Next]_vars /\ ~TapUpdateNotSaved
        => LosesOnlyNewRows'
<1> SUFFICES ASSUME TypeOK, UniqueRows, [Next]_vars, LosesOnlyNewRows, ~TapUpdateNotSaved
             PROVE  LosesOnlyNewRows'
    OBVIOUS
<1>1. ASSUME UNCHANGED <<context, disk>> PROVE LosesOnlyNewRows'
    BY <1>1 DEF LosesOnlyNewRows
<1>2. ASSUME disk' = context' PROVE LosesOnlyNewRows'
    BY <1>2 DEF LosesOnlyNewRows
<1>3. ASSUME NEW m \in Movie, Open(m) \/ OpenFetchFails(m) PROVE LosesOnlyNewRows'
    BY <1>1, <1>3 DEF Open, OpenFetchFails, Push
<1>4. CASE TapInsert
    <2>1. PICK f \in Flag : /\ context' = [context EXCEPT ![Top.movie] = <<f>>]
                           /\ Top.movie \in Movie
        BY <1>4, TapRows
    <2>2. context[Top.movie] = <<>>
        BY <1>4, <2>1, RowCases DEF TapInsert
    <2>3. disk[Top.movie] = <<>> /\ disk' = disk
        BY <1>4, <2>1, <2>2 DEF LosesOnlyNewRows, TapInsert
    <2> QED
        BY <2>1, <2>3 DEF LosesOnlyNewRows, TypeOK
<1>5. CASE TapUpdate \/ Kill
    BY <1>2, <1>5 DEF TapUpdate, Kill
<1>6. CASE Back \/ TapFetchFails \/ EnterBackground \/ EnterForeground \/ UNCHANGED vars
    BY <1>1, <1>6 DEF Back, TapFetchFails, EnterBackground, EnterForeground, vars
<1> QED
    BY <1>3, <1>4, <1>5, <1>6 DEF Next

(***************************************************************************)
(* A kill loses nothing but rows never saved until a save has failed.      *)
(***************************************************************************)
THEOREM LossTheorem == Spec => OnlyFailedSavesLoseChanges
<1>1. TypeOK /\ UniqueRows /\ [Next]_vars
        => [LosesOnlyNewRows /\ ~LosesOnlyNewRows' => TapUpdateNotSaved]_vars
    BY LossStep
<1> QED
    BY <1>1, TypeCorrect, UniqueRowsTheorem, PTL DEF Spec, OnlyFailedSavesLoseChanges

\* While no movie has two screens, a step that reads what it shows keeps every
\* heart true.
LEMMA HeartStep ==
    ASSUME TypeOK, UniqueRows, HeartsTrue, ~Twins,
           \/ \E m \in Movie : Open(m)
           \/ Back \/ TapInsert \/ TapUpdate \/ TapUpdateNotSaved
           \/ EnterBackground \/ EnterForeground \/ Kill \/ UNCHANGED vars
    PROVE  HeartsTrue'
<1>0. \A i \in DOMAIN screens : screens[i].movie \in Movie
    BY ScreensType
<1>1. ASSUME NEW m \in Movie, Open(m) PROVE HeartsTrue'
    <2>1. Push(m, Retrieved(m)) /\ Retrieved(m) \in Flag
        BY <1>1, RetrievedType DEF Open
    <2> QED
        BY <2>1, PushedScreens DEF HeartsTrue, Retrieved
<1>2. CASE Back
    BY <1>2, PoppedScreens DEF HeartsTrue, Retrieved
<1>3. CASE TapInsert \/ TapUpdate \/ TapUpdateNotSaved
    <2>1. FlipHeart
        BY <1>3 DEF TapInsert, TapUpdate, TapUpdateNotSaved
    <2>2. Top.movie \in Movie /\ Top.heart \in Flag /\ Top.heart = Retrieved(Top.movie)
        BY <2>1, FlipHeartType, FlippedScreens DEF HeartsTrue, Top
    <2>3. context' = [context EXCEPT ![Top.movie] = <<Flipped(Top.heart)>>]
        <3>1. CASE TapInsert
            BY <3>1 DEF TapInsert
        <3>2. CASE TapUpdate \/ TapUpdateNotSaved
            <4> Top.heart = context[Top.movie][1]
                BY <2>2, <3>2 DEF Retrieved, TapUpdate, TapUpdateNotSaved
            <4> QED
                BY <3>2 DEF TapUpdate, TapUpdateNotSaved
        <3> QED
            BY <1>3, <3>1, <3>2
    <2>4. /\ context'[Top.movie] = <<Flipped(Top.heart)>>
          /\ \A m \in Movie : m # Top.movie => context'[m] = context[m]
        BY <2>2, <2>3 DEF TypeOK
    <2>5. Retrieved(Top.movie)' = Flipped(Top.heart)
        <3>1. screens'[Len(screens')].movie = Top.movie
            BY <2>1, FlipHeartType, FlippedScreens DEF FlipHeart, TypeOK, Top
        <3>2. /\ Len(<<Flipped(Top.heart)>>) = 1
              /\ <<Flipped(Top.heart)>>[1] = Flipped(Top.heart)
            OBVIOUS
        <3> QED
            BY <2>4, <3>1, <3>2 DEF Retrieved, Top
    <2>6. ASSUME NEW i \in DOMAIN screens'
          PROVE  screens'[i].heart = Retrieved(screens[i].movie)'
        <3>1. i \in DOMAIN screens
            BY <2>1, FlippedScreens
        <3>2. CASE i = Len(screens)
            BY <2>1, <2>5, <3>2, FlippedScreens DEF Top
        <3>3. CASE i # Len(screens)
            BY <2>1, <2>4, <3>1, <3>3, <1>0, FlippedScreens DEF HeartsTrue, Retrieved, Twins, Top
        <3> QED
            BY <3>2, <3>3
    <2> QED
        BY <2>1, <2>6, FlippedScreens DEF HeartsTrue, Retrieved
<1>4. CASE Kill
    <2> DOMAIN screens' = {}
        BY <1>4 DEF Kill
    <2> QED
        BY DEF HeartsTrue
<1>5. CASE EnterBackground \/ EnterForeground \/ UNCHANGED vars
    BY <1>5 DEF EnterBackground, EnterForeground, vars, HeartsTrue, Retrieved
<1> QED
    BY <1>1, <1>2, <1>3, <1>4, <1>5

(***************************************************************************)
(* Hearts go wrong only by a fetch that throws, or on a stack with two     *)
(* screens of one movie: otherwise the screen whose heart a tap flips is   *)
(* the only one that reads the row the tap changes, and both take the same *)
(* value.                                                                  *)
(***************************************************************************)
THEOREM HeartTheorem == Spec => OnlyTwinsLie
<1>1. TypeOK /\ UniqueRows /\ [Next]_vars
        => [HeartsTrue /\ ~HeartsTrue' =>
                Twins \/ TapFetchFails \/ \E m \in Movie : OpenFetchFails(m)]_vars
    BY HeartStep DEF Next
<1> QED
    BY <1>1, TypeCorrect, UniqueRowsTheorem, PTL DEF Spec, OnlyTwinsLie

-----------------------------------------------------------------------------
(***************************************************************************)
(* A device on which every save succeeds.                                  *)
(***************************************************************************)
SavingSpec == Init /\ [][Next /\ ~TapUpdateNotSaved]_vars

(***************************************************************************)
(* What is then left of the promise that favourites survive a restart: it  *)
(* can forget a like whose row was inserted and never saved, and nothing   *)
(* else.  In particular no movie the user has unliked comes back.          *)
(***************************************************************************)
RelaunchForgetsOnly ==
    [][Kill => \A m \in Movie :
            \/ Retrieved(m)' = Retrieved(m)
            \/ /\ disk[m] = <<>>
               /\ Retrieved(m) = "liked" /\ Retrieved(m)' = "unliked"]_vars

\* On such a device a kill never loses the change of a saved row.
LEMMA SavingInvariant == SavingSpec => [](TypeOK /\ UniqueRows /\ LosesOnlyNewRows)
<1>1. Init => LosesOnlyNewRows
    BY DEF Init, LosesOnlyNewRows
<1>2. TypeOK /\ UniqueRows /\ LosesOnlyNewRows /\ [Next /\ ~TapUpdateNotSaved]_vars
        => LosesOnlyNewRows'
    BY LossStep DEF vars, LosesOnlyNewRows
<1>3. [Next /\ ~TapUpdateNotSaved]_vars => [Next]_vars
    OBVIOUS
<1> QED
    BY <1>1, <1>2, <1>3, TypeInit, TypeStep, UniqueRowsInit, UniqueRowsStep, PTL DEF SavingSpec

(***************************************************************************)
(* A relaunch reads the rows of the store, and these are the rows of the   *)
(* context wherever there are any.                                         *)
(***************************************************************************)
THEOREM RelaunchTheorem == SavingSpec => []LosesOnlyNewRows /\ RelaunchForgetsOnly
<1>1. TypeOK /\ UniqueRows /\ LosesOnlyNewRows
        => [Kill => \A m \in Movie :
                \/ Retrieved(m)' = Retrieved(m)
                \/ /\ disk[m] = <<>>
                   /\ Retrieved(m) = "liked" /\ Retrieved(m)' = "unliked"]_vars
    <2> SUFFICES ASSUME TypeOK, UniqueRows, LosesOnlyNewRows, Kill, NEW m \in Movie
                 PROVE  \/ Retrieved(m)' = Retrieved(m)
                        \/ /\ disk[m] = <<>>
                           /\ Retrieved(m) = "liked" /\ Retrieved(m)' = "unliked"
        OBVIOUS
    <2>1. context' = disk
        BY DEF Kill
    <2>2. CASE disk[m] = context[m]
        BY <2>1, <2>2 DEF Retrieved
    <2>3. CASE disk[m] = <<>>
        <3>1. Retrieved(m)' = "unliked"
            BY <2>1, <2>3 DEF Retrieved
        <3>2. Retrieved(m) \in {"liked", "unliked"}
            BY RetrievedType DEF Flag
        <3> QED
            BY <2>3, <3>1, <3>2
    <2> QED
        BY <2>2, <2>3 DEF LosesOnlyNewRows
<1> QED
    BY <1>1, SavingInvariant, PTL DEF SavingSpec, RelaunchForgetsOnly

-----------------------------------------------------------------------------
(***************************************************************************)
(* A user who opens no movie twice, on a device where no fetch throws.     *)
(* (A fetch that throws for a movie not liked shows the same screen as one *)
(* that does not.)                                                         *)
(***************************************************************************)
Listed == {screens[i].movie : i \in DOMAIN screens}

CalmNext ==
    /\ Next /\ ~TapFetchFails
    /\ \A m \in Movie : Open(m) \/ OpenFetchFails(m) => Open(m) /\ m \notin Listed

CalmSpec == Init /\ [][CalmNext]_vars

\* Then no movie ever has two screens: only opening one adds a screen.
LEMMA NoTwinsStep == TypeOK /\ ~Twins /\ [CalmNext]_vars => ~Twins'
<1> SUFFICES ASSUME TypeOK, ~Twins, [CalmNext]_vars PROVE ~Twins'
    OBVIOUS
<1>1. ASSUME NEW m \in Movie, Open(m) \/ OpenFetchFails(m), m \notin Listed PROVE ~Twins'
    <2>1. PICK h \in Flag : Push(m, h)
        BY <1>1, RetrievedType DEF Open, OpenFetchFails, Flag
    <2>2. /\ screens' = Append(screens, [movie |-> m, heart |-> h])
          /\ screens \in Seq(Screen)
        BY <2>1 DEF Push, TypeOK
    <2>3. /\ DOMAIN screens' = DOMAIN screens \cup {Len(screens) + 1}
          /\ \A i \in DOMAIN screens : screens'[i] = screens[i]
          /\ screens'[Len(screens) + 1].movie = m
        <3>1. screens'[Len(screens) + 1] = [movie |-> m, heart |-> h]
            BY <2>2
        <3> QED
            BY <2>2, <3>1
    <2>4. \A i \in DOMAIN screens : screens[i].movie # m
        BY <1>1 DEF Listed
    <2> QED
        BY <2>3, <2>4 DEF Twins
<1>2. CASE Back
    BY <1>2, PoppedScreens DEF Twins
<1>3. CASE TapInsert \/ TapUpdate \/ TapUpdateNotSaved \/ TapFetchFails
    <2> FlipHeart
        BY <1>3 DEF TapInsert, TapUpdate, TapUpdateNotSaved, TapFetchFails
    <2> QED
        BY FlippedScreens DEF Twins
<1>4. CASE EnterBackground \/ EnterForeground \/ UNCHANGED vars
    BY <1>4 DEF EnterBackground, EnterForeground, vars, Twins
<1>5. CASE Kill
    <2> DOMAIN screens' = {}
        BY <1>5 DEF Kill
    <2> QED
        BY DEF Twins
<1> QED
    BY <1>1, <1>2, <1>3, <1>4, <1>5 DEF CalmNext, Next

(***************************************************************************)
(* Then every heart on the stack is true at all times, whatever saves fail *)
(* and whenever the process is killed.                                     *)
(***************************************************************************)
THEOREM CalmTheorem == CalmSpec => []HeartsTrue
<1>1. Init => HeartsTrue /\ ~Twins
    BY DEF Init, HeartsTrue, Twins
<1>2. TypeOK /\ UniqueRows /\ HeartsTrue /\ ~Twins /\ [CalmNext]_vars => HeartsTrue'
    BY HeartStep DEF CalmNext, Next
<1>3. [CalmNext]_vars => [Next]_vars
    BY DEF CalmNext
<1> QED
    BY <1>1, <1>2, <1>3, NoTwinsStep, TypeInit, TypeStep, UniqueRowsInit, UniqueRowsStep,
       PTL DEF CalmSpec
=============================================================================
