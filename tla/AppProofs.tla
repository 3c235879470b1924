----------------------------- MODULE AppProofs ------------------------------
(***************************************************************************)
(* Proofs about App, from the lemmas of SignInProofs and FavouritesProofs: *)
(* every step of the app is a step of each component or leaves it alone,   *)
(* so that what those modules prove of the components holds in the app.    *)
(***************************************************************************)
EXTENDS App, TLAPS

SP == INSTANCE SignInProofs
FP == INSTANCE FavouritesProofs

\* The assumption of Favourites, and its steps, in both instances.
LEMMA FavouritesBridge ==
    /\ FP!FavouritesAssumption
    /\ F!Init => FP!Init
    /\ [F!Next]_favourites => [FP!Next]_(FP!vars)
<1>1. FP!FavouritesAssumption
    BY AppAssumption DEF FP!FavouritesAssumption
<1>2. F!Init => FP!Init
    BY DEF F!Init, FP!Init
<1>3. [F!Next]_favourites => [FP!Next]_(FP!vars)
    BY DEF favourites, FP!vars, FP!Next, F!Next, FP!Open, F!Open, FP!OpenFetchFails,
           F!OpenFetchFails, FP!Push, F!Push, FP!Retrieved, F!Retrieved, FP!Back, F!Back,
           FP!TapInsert, F!TapInsert, FP!TapUpdate, F!TapUpdate, FP!TapUpdateNotSaved,
           F!TapUpdateNotSaved, FP!TapFetchFails, F!TapFetchFails, FP!FlipHeart,
           F!FlipHeart, FP!Flipped, F!Flipped, FP!Top, F!Top, FP!EnterBackground,
           F!EnterBackground, FP!EnterForeground, F!EnterForeground, FP!Kill, F!Kill
<1> QED
    BY <1>1, <1>2, <1>3

\* The lemmas of FavouritesProofs, in terms of App's own instance.
LEMMA FavouritesStep ==
    /\ F!Init => F!TypeOK /\ F!UniqueRows
    /\ F!TypeOK /\ [F!Next]_favourites => F!TypeOK'
    /\ F!TypeOK /\ F!UniqueRows /\ [F!Next]_favourites => F!UniqueRows'
<1>1. (FP!TypeOK <=> F!TypeOK) /\ (FP!UniqueRows <=> F!UniqueRows)
    BY DEF FP!TypeOK, F!TypeOK, FP!UniqueRows, F!UniqueRows, FP!Screen, F!Screen,
           FP!Flag, F!Flag
<1>2. (FP!TypeOK <=> F!TypeOK)' /\ (FP!UniqueRows <=> F!UniqueRows)'
    BY DEF FP!TypeOK, F!TypeOK, FP!UniqueRows, F!UniqueRows, FP!Screen, F!Screen,
           FP!Flag, F!Flag
<1> QED
    BY <1>1, <1>2, FavouritesBridge, FP!TypeInit, FP!TypeStep, FP!UniqueRowsInit,
       FP!UniqueRowsStep

\* With one screen there are no twins, so that a tap and a return keep its heart
\* true; and a tap keeps the number of screens.
LEMMA OneScreenStep ==
    ASSUME F!TypeOK
    PROVE  /\ F!FlipHeart => Len(screens') = Len(screens)
           /\ Len(screens) <= 1 /\ F!UniqueRows /\ F!HeartsTrue =>
                 \/ F!HeartsTrue'
                 \/ ~(\/ \E m \in Movie : F!Open(m)
                      \/ F!Back \/ F!TapInsert \/ F!TapUpdate \/ F!TapUpdateNotSaved
                      \/ F!EnterBackground \/ F!EnterForeground \/ UNCHANGED favourites)
<1>1. FP!FavouritesAssumption
    BY AppAssumption DEF FP!FavouritesAssumption
<1>2. FP!TypeOK /\ (FP!UniqueRows <=> F!UniqueRows)
    BY DEF FP!TypeOK, F!TypeOK, FP!UniqueRows, F!UniqueRows, FP!Screen, F!Screen,
           FP!Flag, F!Flag
<1>3. (FP!HeartsTrue <=> F!HeartsTrue) /\ (FP!HeartsTrue <=> F!HeartsTrue)'
    BY DEF FP!HeartsTrue, F!HeartsTrue, FP!Retrieved, F!Retrieved
<1>4. Len(screens) <= 1 => ~FP!Twins
    BY <1>2 DEF FP!TypeOK, FP!Twins
<1>5. F!FlipHeart => FP!FlipHeart
    BY DEF F!FlipHeart, FP!FlipHeart, F!Flipped, FP!Flipped
<1>6. ASSUME \/ \E m \in Movie : F!Open(m)
             \/ F!Back \/ F!TapInsert \/ F!TapUpdate \/ F!TapUpdateNotSaved
             \/ F!EnterBackground \/ F!EnterForeground \/ UNCHANGED favourites
      PROVE  \/ \E m \in Movie : FP!Open(m)
             \/ FP!Back \/ FP!TapInsert \/ FP!TapUpdate \/ FP!TapUpdateNotSaved
             \/ FP!EnterBackground \/ FP!EnterForeground \/ FP!Kill \/ UNCHANGED FP!vars
    BY <1>6 DEF favourites, FP!vars, FP!Open, F!Open, FP!Push, F!Push, FP!Retrieved,
           F!Retrieved, FP!Back, F!Back, FP!TapInsert, F!TapInsert, FP!TapUpdate,
           F!TapUpdate, FP!TapUpdateNotSaved, F!TapUpdateNotSaved, FP!FlipHeart,
           F!FlipHeart, FP!Flipped, F!Flipped, FP!Top, F!Top, FP!EnterBackground,
           F!EnterBackground, FP!EnterForeground, F!EnterForeground
<1>7. ASSUME F!FlipHeart PROVE Len(screens') = Len(screens)
    <2>1. /\ screens' \in Seq(FP!Screen) /\ screens \in Seq(FP!Screen)
          /\ DOMAIN screens' = DOMAIN screens
        BY <1>1, <1>2, <1>5, <1>7, FP!FlipHeartType, FP!FlippedScreens DEF FP!TypeOK
    <2> QED
        BY <2>1
<1> QED
    BY <1>1, <1>2, <1>3, <1>4, <1>6, <1>7, FP!HeartStep

\* The assumption of SignIn, and its steps, in both instances.
LEMMA SignInBridge ==
    /\ SP!SignInAssumption
    /\ S!Init => SP!Init
    /\ [S!Next]_signIn => [SP!Next]_(SP!vars)
<1>1. SP!SignInAssumption
    BY AppAssumption DEF SP!SignInAssumption
<1>2. S!Init => SP!Init
    BY DEF S!Init, SP!Init
<1>3. [S!Next]_signIn => [SP!Next]_(SP!vars)
    BY DEF signIn, SP!vars, SP!defaults, SP!window, SP!process, S!defaults, S!window,
           S!process, SP!Next, S!Next, SP!Reply, S!Reply, SP!Tap, S!Tap, SP!TokenReply,
           S!TokenReply, SP!LoginReply, S!LoginReply, SP!SessionReply, S!SessionReply,
           SP!AccountReply, S!AccountReply, SP!Failure, S!Failure, SP!Logout, S!Logout,
           SP!Relaunch, S!Relaunch, SP!Proceed, S!Proceed, SP!Configure, S!Configure,
           SP!InFlight, S!InFlight, SP!Awaited, S!Awaited
<1> QED
    BY <1>1, <1>2, <1>3

\* The types of SignIn, in terms of App's own instance.
LEMMA SignInStep ==
    /\ S!Init => S!TypeOK
    /\ S!TypeOK /\ [S!Next]_signIn => S!TypeOK'
<1>1. (SP!TypeOK <=> S!TypeOK) /\ (SP!TypeOK <=> S!TypeOK)'
    BY DEF SP!TypeOK, S!TypeOK, SP!Awaited, S!Awaited
<1> QED
    BY <1>1, SignInBridge, SP!TypeInit, SP!TypeStep

-----------------------------------------------------------------------------
\* While there is a sign-in screen there is neither a screen nor a request of
\* the main screen; so a reply that makes a new root takes nothing away.
LEMMA ReplyKeepsScreens ==
    ASSUME TypeOK, NEW c \in Attempt, AttemptReply(c)
    PROVE  /\ UNCHANGED favourites
           /\ UNCHANGED <<pending, history>> \/ (screens' = <<>> /\ NewRoot)
           /\ screens # <<>> \/ (\E m \in Movie : pending[m] > 0) => root' = "main"
<1>1. ASSUME c \in ours, NEW hasId \in BOOLEAN, S!AccountReply(c, hasId)
      PROVE  root # "main"
    BY <1>1 DEF TypeOK, S!TypeOK
<1>2. CASE c \in ours /\ \E hasId \in BOOLEAN : S!AccountReply(c, hasId)
    <2>1. root # "main"
        BY <1>1, <1>2
    <2>2. screens = <<>> /\ ~ \E m \in Movie : pending[m] > 0
        BY <2>1 DEF TypeOK
    <2>3. screens' = <<>> /\ NewRoot /\ UNCHANGED <<context, disk, app>>
        BY <1>2 DEF AttemptReply
    <2> QED
        BY <2>2, <2>3 DEF favourites, NewRoot
<1>3. CASE ~(c \in ours /\ \E hasId \in BOOLEAN : S!AccountReply(c, hasId))
    <2>1. UNCHANGED <<favourites, pending, history>>
        BY <1>3 DEF AttemptReply, favourites
    <2>2. root' = root
        BY <1>3 DEF AttemptReply, S!Reply, S!TokenReply, S!LoginReply, S!SessionReply,
                    S!AccountReply, S!Failure, S!window
    <2> QED
        BY <2>1, <2>2 DEF TypeOK
<1> QED
    BY <1>2, <1>3

\* Every step of the app is a step of its components, one, both or none.
LEMMA ComponentSteps ==
    ASSUME TypeOK, [Next]_vars
    PROVE  [S!Next]_signIn /\ [F!Next]_favourites
<1>1. ASSUME NEW c \in Attempt, AttemptReply(c)
      PROVE  S!Next /\ UNCHANGED favourites
    BY <1>1, ReplyKeepsScreens DEF AttemptReply, S!Next
<1>2. ASSUME NEW c \in Attempt, NEW u \in Account \cup {Refused}, Tap(c, u)
      PROVE  S!Next /\ UNCHANGED favourites
    BY <1>2 DEF Tap, S!Next
<1>3. CASE Logout
    BY <1>3 DEF Logout, S!Next
<1>4. ASSUME NEW m \in Movie, Touch(m) \/ DetailsFail(m)
      PROVE  UNCHANGED <<signIn, favourites>>
    BY <1>4 DEF Touch, DetailsFail, Answered
<1>5. ASSUME NEW m \in Movie, Open(m) \/ OpenFetchFails(m)
      PROVE  UNCHANGED signIn /\ F!Next
    BY <1>5 DEF Open, OpenFetchFails, Answered, F!Next
<1>6. CASE HeartTap \/ Back \/ SwitchApp
    BY <1>6 DEF HeartTap, Back, SwitchApp, F!Next
<1>7. CASE Relaunch
    BY <1>7 DEF Relaunch, S!Next, F!Next
<1>8. CASE UNCHANGED vars
    BY <1>8 DEF vars
<1> QED
    BY <1>1, <1>2, <1>3, <1>4, <1>5, <1>6, <1>7, <1>8 DEF Next

\* The requests of the main screen are counted, and end with it.
RequestsOK ==
    /\ pending \in [Movie -> Nat]
    /\ doubled \in BOOLEAN /\ failed \in BOOLEAN
    /\ screens # <<>> \/ (\E m \in Movie : pending[m] > 0) => root = "main"

\* What a reply to a request leaves of the others.
LEMMA AnsweredRequests ==
    ASSUME TypeOK, NEW m \in Movie, Answered(m)
    PROVE  /\ pending' \in [Movie -> Nat] /\ pending'[m] = pending[m] - 1
           /\ \A n \in Movie \ {m} : pending'[n] = pending[n]
           /\ pending[m] \in Nat /\ pending[m] > 0
<1>1. pending \in [Movie -> Nat]
    BY DEF TypeOK
<1>2. pending[m] \in Nat /\ pending[m] > 0
    BY <1>1 DEF Answered
<1>3. pending[m] - 1 \in Nat
    BY <1>2
<1>4. pending' = [pending EXCEPT ![m] = pending[m] - 1]
    BY DEF Answered
<1> QED
    BY <1>1, <1>2, <1>3, <1>4

\* Requests stay counted, and on the main screen.
LEMMA RequestsStep == TypeOK /\ [Next]_vars => RequestsOK'
<1> SUFFICES ASSUME TypeOK, [Next]_vars PROVE RequestsOK'
    OBVIOUS
<1>1. pending' \in [Movie -> Nat]
    <2>1. ASSUME NewRoot PROVE pending' \in [Movie -> Nat]
        BY <2>1 DEF NewRoot
    <2>2. ASSUME NEW c \in Attempt, AttemptReply(c) PROVE NewRoot \/ UNCHANGED pending
        BY <2>2, ReplyKeepsScreens
    <2>3. ASSUME NEW m \in Movie, Touch(m) PROVE pending' \in [Movie -> Nat]
        <3>1. pending \in [Movie -> Nat]
            BY DEF TypeOK
        <3>2. pending' = [pending EXCEPT ![m] = pending[m] + 1]
            BY <2>3 DEF Touch
        <3> QED
            BY <3>1, <3>2
    <2>4. ASSUME NEW m \in Movie, Answered(m) PROVE pending' \in [Movie -> Nat]
        BY <2>4, AnsweredRequests
    <2>5. ASSUME UNCHANGED pending PROVE pending' \in [Movie -> Nat]
        BY <2>5 DEF TypeOK
    <2>6. CASE Logout \/ Relaunch
        BY <2>1, <2>6 DEF Logout, Relaunch
    <2>7. ASSUME NEW c \in Attempt, NEW u \in Account \cup {Refused}, Tap(c, u)
          PROVE  UNCHANGED pending
        BY <2>7 DEF Tap
    <2>8. CASE HeartTap \/ Back \/ SwitchApp \/ UNCHANGED vars
        BY <2>5, <2>8 DEF HeartTap, Back, SwitchApp, vars
    <2>9. ASSUME NEW m \in Movie, Open(m) \/ OpenFetchFails(m) \/ DetailsFail(m)
          PROVE  Answered(m)
        BY <2>9 DEF Open, OpenFetchFails, DetailsFail
    <2> QED
        BY <2>1, <2>2, <2>3, <2>4, <2>5, <2>6, <2>7, <2>8, <2>9 DEF Next
<1>2. doubled' \in BOOLEAN /\ failed' \in BOOLEAN
    <2> DEFINE Kept == /\ doubled' = doubled \/ doubled' = FALSE
                       /\ failed' = failed \/ failed' = FALSE \/ failed' = TRUE
    <2>1. ASSUME NEW m \in Movie, Touch(m) PROVE doubled' \in BOOLEAN /\ failed' = failed
        BY <2>1 DEF Touch
    <2>2. ASSUME NewRoot \/ UNCHANGED history PROVE Kept
        BY <2>2 DEF NewRoot, history
    <2>3. ASSUME NEW c \in Attempt, AttemptReply(c) PROVE Kept
        BY <2>2, <2>3 DEF AttemptReply
    <2>4. ASSUME NEW m \in Movie, Open(m) \/ OpenFetchFails(m) \/ DetailsFail(m)
          PROVE  Kept
        BY <2>4 DEF Open, OpenFetchFails, DetailsFail, Answered
    <2>5. ASSUME HeartTap PROVE Kept
        BY <2>5 DEF HeartTap
    <2>6. ASSUME NEW c \in Attempt, NEW u \in Account \cup {Refused}, Tap(c, u)
          PROVE  Kept
        BY <2>2, <2>6 DEF Tap
    <2>7. ASSUME Back \/ SwitchApp \/ Logout \/ Relaunch \/ UNCHANGED vars PROVE Kept
        BY <2>2, <2>7 DEF Back, SwitchApp, Logout, Relaunch, vars
    <2>8. (\E m \in Movie : Touch(m)) \/ Kept
        <3> HIDE DEF Kept
        <3> QED
            BY <2>3, <2>4, <2>5, <2>6, <2>7 DEF Next
    <2> QED
        BY <2>1, <2>8 DEF TypeOK
<1>3. screens' # <<>> \/ (\E m \in Movie : pending'[m] > 0) => root' = "main"
    <2>1. ASSUME NEW c \in Attempt, AttemptReply(c)
          PROVE  screens' # <<>> \/ (\E m \in Movie : pending'[m] > 0) => root' = "main"
        <3>1. CASE screens' = <<>> /\ NewRoot
            BY <3>1 DEF NewRoot
        <3>2. CASE UNCHANGED <<favourites, pending>>
            BY <2>1, <3>2, ReplyKeepsScreens DEF favourites
        <3> QED
            BY <2>1, <3>1, <3>2, ReplyKeepsScreens
    <2>2. ASSUME UNCHANGED <<screens, pending, root>>
          PROVE  screens' # <<>> \/ (\E m \in Movie : pending'[m] > 0) => root' = "main"
        BY <2>2 DEF TypeOK
    <2>3. ASSUME OnMain, UNCHANGED signIn PROVE root' = "main"
        BY <2>3 DEF OnMain, signIn
    <2>4. ASSUME screens' = <<>>, NewRoot
          PROVE  screens' = <<>> /\ ~ \E m \in Movie : pending'[m] > 0
        BY <2>4 DEF NewRoot
    <2>5. ASSUME NEW c \in Attempt, NEW u \in Account \cup {Refused}, Tap(c, u)
          PROVE  UNCHANGED <<screens, pending, root>>
        BY <2>5 DEF Tap, S!Tap, favourites
    <2>6. CASE Logout
        BY <2>4, <2>6 DEF Logout, favourites
    <2>7. ASSUME NEW m \in Movie, Touch(m) \/ Open(m) \/ OpenFetchFails(m) \/ DetailsFail(m)
          PROVE  root' = "main"
        BY <2>3, <2>7 DEF Touch, Open, OpenFetchFails, DetailsFail, Answered
    <2>8. CASE HeartTap \/ Back
        BY <2>3, <2>8 DEF HeartTap, Back
    <2>9. CASE SwitchApp
        BY <2>2, <2>9 DEF SwitchApp, F!EnterBackground, F!EnterForeground, signIn
    <2>10. CASE Relaunch
        BY <2>4, <2>10 DEF Relaunch, F!Kill
    <2>11. CASE UNCHANGED vars
        BY <2>2, <2>11 DEF vars, favourites, signIn
    <2> QED
        BY <2>1, <2>2, <2>5, <2>6, <2>7, <2>8, <2>9, <2>10, <2>11 DEF Next
<1> QED
    BY <1>1, <1>2, <1>3 DEF RequestsOK

(***************************************************************************)
(* Both components keep their types in the app, and details are asked for  *)
(* and shown on the main screen only: no request or screen outlives it.    *)
(***************************************************************************)
THEOREM TypeCorrect == Spec => []TypeOK
<1>1. Init => TypeOK
    <2>1. ASSUME Init PROVE RequestsOK
        <3>1. doubled \in BOOLEAN /\ failed \in BOOLEAN
            BY <2>1 DEF Init
        <3> QED
            BY <2>1, <3>1 DEF Init, F!Init, RequestsOK
    <2> QED
        BY <2>1, SignInStep, FavouritesStep DEF Init, TypeOK, RequestsOK
<1>2. TypeOK /\ [Next]_vars => TypeOK'
    <2> SUFFICES ASSUME TypeOK, [Next]_vars PROVE TypeOK'
        OBVIOUS
    <2> QED
        BY ComponentSteps, SignInStep, FavouritesStep, RequestsStep DEF TypeOK, RequestsOK
<1> QED
    BY <1>1, <1>2, PTL DEF Spec

(***************************************************************************)
(* The app implements both components: sharing the window, the process and *)
(* the stack of screens gives neither a step that it does not have alone.  *)
(* What is proved of every step of SignIn and of Favourites holds here.    *)
(***************************************************************************)
THEOREM ComponentsTheorem == Spec => S!Init /\ [][S!Next]_signIn /\ F!Spec
<1>1. Init => S!Init /\ F!Init
    BY DEF Init
<1>2. TypeOK /\ [Next]_vars => [S!Next]_signIn /\ [F!Next]_favourites
    BY ComponentSteps
<1>3. [F!Next]_favourites => [F!Next]_(F!vars)
    BY DEF favourites, F!vars
<1> QED
    BY <1>1, <1>2, <1>3, TypeCorrect, PTL DEF Spec, F!Spec

\* The rows of Favourites are unique in the app, too.
LEMMA UniqueRowsInvariant == Spec => []F!UniqueRows
<1>1. Init => F!UniqueRows
    BY FavouritesStep DEF Init
<1>2. TypeOK /\ F!UniqueRows /\ [Next]_vars => F!UniqueRows'
    BY ComponentSteps, FavouritesStep DEF TypeOK
<1> QED
    BY <1>1, <1>2, TypeCorrect, PTL DEF Spec

-----------------------------------------------------------------------------
(* What the components promise, the app promises.                          *)

\* The app's behaviours are those of SignIn, without its fairness ...
LEMMA SignInSafety == Spec => SP!SafetySpec
BY SignInBridge, ComponentsTheorem, PTL DEF SP!SafetySpec

\* ... and those of Favourites.
LEMMA FavouritesSafety == Spec => FP!Spec
<1>1. [F!Next]_(F!vars) => [F!Next]_favourites
    BY DEF favourites, F!vars
<1> QED
    BY <1>1, FavouritesBridge, ComponentsTheorem, PTL DEF FP!Spec, F!Spec

(***************************************************************************)
(* The app implements Session: the guards that the window adds (no logout  *)
(* under a details screen, nothing while the app is in the background) and *)
(* the rest of the main screen give signing in and out no step that it     *)
(* does not have alone.                                                    *)
(***************************************************************************)
THEOREM SessionTheorem == Spec => S!ImplementsSession
<1>1. SP!UserSession!Init <=> S!UserSession!Init
    BY DEF SP!UserSession!Init, S!UserSession!Init, SP!SessionUser, S!SessionUser
<1>2. /\ SP!SessionUser = S!SessionUser
      /\ (SP!SessionUser = S!SessionUser)'
    BY DEF SP!SessionUser, S!SessionUser
<1>3. SP!UserSession!Next <=> S!UserSession!Next
    BY <1>2 DEF SP!UserSession!Next, S!UserSession!Next, SP!UserSession!Remember,
       S!UserSession!Remember, SP!UserSession!Enter, S!UserSession!Enter,
       SP!UserSession!Leave, S!UserSession!Leave, SP!UserSession!Launch,
       S!UserSession!Launch, SP!UserSession!Overlap, S!UserSession!Overlap,
       SP!UserSession!Open, S!UserSession!Open
<1>4. [SP!UserSession!Next]_<<IF root = "main" THEN SP!SessionUser ELSE None,
                              SP!SessionUser, overlapped>>
        => [S!UserSession!Next]_<<IF root = "main" THEN S!SessionUser ELSE None,
                                  S!SessionUser, overlapped>>
    BY <1>2, <1>3
<1> QED
    BY <1>1, <1>4, SignInBridge, SignInSafety, SP!RefinementSafety, PTL
       DEF SP!ImplementsSession, S!ImplementsSession, SP!UserSession!Spec, S!UserSession!Spec

(***************************************************************************)
(* The app implements FavouriteStore: attempts, logouts and new roots take *)
(* details screens along with them, and no movie joins or leaves the set   *)
(* or its durable copy by it.                                              *)
(***************************************************************************)
THEOREM StoreTheorem == Spec => F!ImplementsStore
<1>1. FP!Store!Init <=> F!Store!Init
    BY DEF FP!Store!Init, F!Store!Init, FP!Liked, F!Liked
<1>2. [FP!Store!Next]_<<FP!Liked(context), FP!Liked(disk)>>
        => [F!Store!Next]_<<F!Liked(context), F!Liked(disk)>>
    BY DEF FP!Store!Next, F!Store!Next, FP!Store!Toggle, F!Store!Toggle, FP!Store!Flush,
           F!Store!Flush, FP!Store!Crash, F!Store!Crash, FP!Liked, F!Liked
<1> QED
    BY <1>1, <1>2, FavouritesBridge, FavouritesSafety, FP!StoreTheorem, PTL
       DEF FP!ImplementsStore, F!ImplementsStore, FP!Store!Spec, F!Store!Spec

(***************************************************************************)
(* Stored sessions are accepted users', and a user whose attempts do not   *)
(* overlap never meets the cast that fails, in the whole app: touching     *)
(* rows, details screens and leaving the app change nothing about it.      *)
(***************************************************************************)
THEOREM SignInTheorem == Spec => []S!SessionIsAccepted /\ []S!WaitingIsSafe
<1>1. SP!AcceptedInv => S!SessionIsAccepted
    BY DEF SP!AcceptedInv, SP!SessionIsAccepted, S!SessionIsAccepted
<1>2. SP!WaitingIsSafe => S!WaitingIsSafe
    BY DEF SP!WaitingIsSafe, S!WaitingIsSafe, SP!CastSucceeds, S!CastSucceeds,
           SP!InFlight, S!InFlight, SP!Awaited, S!Awaited
<1> QED
    BY <1>1, <1>2, SignInBridge, SignInSafety, SP!AcceptedInvariant, SP!WaitingSafety, PTL

(***************************************************************************)
(* What may part session, account and screen, and what may sign a user in, *)
(* is in the whole app what it is in SignIn.                               *)
(***************************************************************************)
THEOREM SignInChangesTheorem ==
    Spec => /\ S!OnlyLateRepliesTakeSession
            /\ S!OnlyOverlapOrRelaunchMisfits
            /\ S!OnlyVisibleAttemptsSignIn
<1> DEFINE
        LateSP == SP!MainHasSession /\ ~SP!MainHasSession' =>
                    \E c \in Attempt \ ours : SP!SessionReply(c, FALSE)
        LateS  == S!MainHasSession /\ ~S!MainHasSession' =>
                    \E c \in Attempt \ ours : S!SessionReply(c, FALSE)
        FitSP  == SP!MainFits /\ ~SP!MainFits' =>
                    \/ SP!Relaunch /\ root = "signIn"
                    \/ overlapped /\ \E c \in Attempt : SP!AccountReply(c, TRUE) /\ sessionId # c
                    \/ overlapped /\ root = "main" /\ \E c \in Attempt : SP!SessionReply(c, TRUE)
        FitS   == S!MainFits /\ ~S!MainFits' =>
                    \/ S!Relaunch /\ root = "signIn"
                    \/ overlapped /\ \E c \in Attempt : S!AccountReply(c, TRUE) /\ sessionId # c
                    \/ overlapped /\ root = "main" /\ \E c \in Attempt : S!SessionReply(c, TRUE)
        Visible == ~overlapped /\ sessionId = None /\ sessionId' # None => sessionId' \in ours
<1>1. SP!vars = S!vars /\ (SP!vars = S!vars)'
    BY DEF SP!vars, S!vars, SP!defaults, S!defaults, SP!window, S!window, SP!process, S!process
<1>2. LateSP => LateS
    BY DEF SP!MainHasSession, S!MainHasSession, SP!SessionReply, S!SessionReply, SP!Proceed,
           S!Proceed, SP!window, S!window, SP!process, S!process
<1>3. FitSP => FitS
    BY DEF SP!MainFits, S!MainFits, SP!Relaunch, S!Relaunch, SP!AccountReply, S!AccountReply,
           SP!SessionReply, S!SessionReply, SP!Proceed, S!Proceed, SP!Configure, S!Configure,
           SP!window, S!window, SP!process, S!process, SP!defaults, S!defaults
<1>4. /\ [LateSP]_(SP!vars) => [LateS]_(S!vars)
      /\ [FitSP]_(SP!vars) => [FitS]_(S!vars)
      /\ [Visible]_(SP!vars) => [Visible]_(S!vars)
    BY <1>1, <1>2, <1>3
<1> QED
    BY <1>4, SignInBridge, SignInSafety, SP!LateReplySafety, SP!FitSafety, SP!LogoutSafety, PTL
       DEF SP!OnlyLateRepliesTakeSession, S!OnlyLateRepliesTakeSession,
           SP!OnlyOverlapOrRelaunchMisfits, S!OnlyOverlapOrRelaunchMisfits,
           SP!OnlyVisibleAttemptsSignIn, S!OnlyVisibleAttemptsSignIn

(***************************************************************************)
(* What may upset hearts and rows, and what a kill may lose, is in the     *)
(* whole app what it is in Favourites, and a movie has one row at most.    *)
(***************************************************************************)
THEOREM FavouritesTheorem ==
    Spec => /\ []F!UniqueRows
            /\ F!OnlyTwinsLie
            /\ F!OnlyFetchUpsetsNoRowNoLike
            /\ F!OnlyFailedSavesLoseChanges
<1> DEFINE
        LieFP  == FP!HeartsTrue /\ ~FP!HeartsTrue' =>
                    \/ FP!Twins
                    \/ FP!TapFetchFails
                    \/ \E m \in Movie : FP!OpenFetchFails(m)
        LieF   == F!HeartsTrue /\ ~F!HeartsTrue' =>
                    \/ F!Twins
                    \/ F!TapFetchFails
                    \/ \E m \in Movie : F!OpenFetchFails(m)
        RowFP  == FP!NoRowNoLike /\ ~FP!NoRowNoLike' => FP!TapFetchFails
        RowF   == F!NoRowNoLike /\ ~F!NoRowNoLike' => F!TapFetchFails
        LossFP == FP!LosesOnlyNewRows /\ ~FP!LosesOnlyNewRows' => FP!TapUpdateNotSaved
        LossF  == F!LosesOnlyNewRows /\ ~F!LosesOnlyNewRows' => F!TapUpdateNotSaved
<1>1. FP!vars = F!vars /\ (FP!vars = F!vars)'
    BY DEF FP!vars, F!vars
<1>2. LieFP => LieF
    BY DEF FP!HeartsTrue, F!HeartsTrue, FP!Retrieved, F!Retrieved, FP!Twins, F!Twins,
           FP!TapFetchFails, F!TapFetchFails, FP!FlipHeart, F!FlipHeart, FP!Flipped,
           F!Flipped, FP!OpenFetchFails, F!OpenFetchFails, FP!Push, F!Push
<1>3. RowFP => RowF
    BY DEF FP!NoRowNoLike, F!NoRowNoLike, FP!TapFetchFails, F!TapFetchFails, FP!FlipHeart,
           F!FlipHeart, FP!Flipped, F!Flipped
<1>4. LossFP => LossF
    BY DEF FP!LosesOnlyNewRows, F!LosesOnlyNewRows, FP!TapUpdateNotSaved,
           F!TapUpdateNotSaved, FP!FlipHeart, F!FlipHeart, FP!Flipped, F!Flipped, FP!Top, F!Top
<1>5. /\ [LieFP]_(FP!vars) => [LieF]_(F!vars)
      /\ [RowFP]_(FP!vars) => [RowF]_(F!vars)
      /\ [LossFP]_(FP!vars) => [LossF]_(F!vars)
    BY <1>1, <1>2, <1>3, <1>4
<1> QED
    BY <1>5, UniqueRowsInvariant, FavouritesBridge, FavouritesSafety, FP!HeartTheorem,
       FP!NoRowTheorem, FP!LossTheorem, PTL
       DEF FP!OnlyTwinsLie, F!OnlyTwinsLie, FP!OnlyFetchUpsetsNoRowNoLike,
           F!OnlyFetchUpsetsNoRowNoLike, FP!OnlyFailedSavesLoseChanges,
           F!OnlyFailedSavesLoseChanges

(***************************************************************************)
(* A details screen belongs to one user: while one is open, and attempts   *)
(* did not overlap, nobody else comes to be served under it, and even the  *)
(* end of the process brings the same user, session and account back.      *)
(***************************************************************************)
DetailsKeepUser ==
    [][screens # <<>> /\ ~overlapped =>
        UNCHANGED <<root, sessionId, accountId, S!SessionUser>>]_vars

(***************************************************************************)
(* It follows from StaysSignedIn: a details screen is on the main screen,  *)
(* and its bar hides the Logout button.                                    *)
(***************************************************************************)
THEOREM DetailsUserTheorem == Spec => DetailsKeepUser
<1> DEFINE Keeps == screens # <<>> /\ ~overlapped =>
                        UNCHANGED <<root, sessionId, accountId, S!SessionUser>>
           Stays == root = "main" /\ ~overlapped =>
                        SP!Logout \/ UNCHANGED <<root, sessionId, accountId, SP!SessionUser>>
<1>1. TypeOK /\ S!WaitingIsSafe /\ [Next]_vars /\ [Stays]_(SP!vars) => Keeps
    <2> SUFFICES ASSUME TypeOK, S!WaitingIsSafe, [Next]_vars, [Stays]_(SP!vars),
                        screens # <<>>, ~overlapped
                 PROVE  UNCHANGED <<root, sessionId, accountId, S!SessionUser>>
        OBVIOUS
    <2>1. root = "main" /\ sessionId # None
        BY DEF TypeOK, S!WaitingIsSafe
    <2>2. SP!Logout \/ UNCHANGED <<root, sessionId, accountId, S!SessionUser>>
        BY <2>1 DEF SP!vars, SP!defaults, SP!window, SP!SessionUser, S!SessionUser
    <2>3. ASSUME SP!Logout PROVE FALSE
        <3>1. UNCHANGED stage /\ root' = "signIn" /\ sessionId' = None
            BY <2>3 DEF SP!Logout, SP!Configure
        <3>2. ASSUME NEW c \in Attempt, AttemptReply(c) PROVE FALSE
            <4>1. S!InFlight = {} /\ S!Reply(c)
                BY <2>1, <3>2 DEF S!WaitingIsSafe, AttemptReply
            <4> QED
                BY <4>1 DEF S!InFlight, S!Awaited, S!Reply, S!TokenReply, S!LoginReply,
                   S!SessionReply, S!AccountReply, S!Failure, S!Proceed
        <3>3. ASSUME NEW c \in Attempt, NEW u \in Account \cup {Refused} PROVE ~Tap(c, u)
            BY <2>1 DEF Tap, S!Tap
        <3>4. ~Logout
            BY DEF Logout
        <3>5. ~Relaunch
            BY <2>1, <3>1 DEF Relaunch, S!Relaunch, S!defaults
        <3>6. ~UNCHANGED signIn
            BY <2>1, <3>1 DEF signIn
        <3> QED
            BY <3>2, <3>3, <3>4, <3>5, <3>6
               DEF Next, Touch, Open, OpenFetchFails, DetailsFail, Answered, HeartTap, Back,
                   SwitchApp, vars
    <2> QED
        BY <2>2, <2>3
<1>2. Spec => [][Stays]_(SP!vars)
    BY SignInBridge, SignInSafety, SP!StaySafety, PTL DEF SP!StaysSignedIn
<1> QED
    BY <1>1, <1>2, TypeCorrect, SignInTheorem, PTL DEF Spec, DetailsKeepUser

-----------------------------------------------------------------------------
\* A user who waits has one request or one screen, and not both.
OneAtATime ==
    ~doubled =>
        /\ Len(screens) <= 1
        /\ \A m \in Movie : pending[m] > 0 =>
              /\ screens = <<>> /\ pending[m] = 1
              /\ \A n \in Movie \ {m} : pending[n] = 0

\* A new root has neither.
LEMMA NewRootOneAtATime == ASSUME screens' = <<>>, NewRoot PROVE OneAtATime'
<1>1. Len(screens') <= 1 /\ \A m \in Movie : pending'[m] = 0
    BY DEF NewRoot
<1> QED
    BY <1>1 DEF OneAtATime

\* The reply that a waiting user has been waiting for leaves no request.
LEMMA OnlyRequest ==
    ASSUME TypeOK, OneAtATime, ~doubled, NEW m \in Movie, Answered(m)
    PROVE  screens = <<>> /\ \A n \in Movie : pending'[n] = 0
<1>1. /\ pending'[m] = pending[m] - 1 /\ pending[m] > 0
      /\ \A n \in Movie \ {m} : pending'[n] = pending[n]
    BY AnsweredRequests
<1>2. pending[m] = 1 /\ screens = <<>> /\ \A n \in Movie \ {m} : pending[n] = 0
    BY <1>1 DEF OneAtATime
<1> QED
    BY <1>1, <1>2

\* Each step keeps it: a reply turns the request into the screen.
LEMMA OneAtATimeStep == TypeOK /\ OneAtATime /\ [Next]_vars => OneAtATime'
<1> SUFFICES ASSUME TypeOK, OneAtATime, [Next]_vars PROVE OneAtATime'
    OBVIOUS
<1>0. screens \in Seq(F!Screen) /\ Len(screens) \in Nat /\ pending \in [Movie -> Nat]
    BY DEF TypeOK, F!TypeOK
<1>1. ASSUME UNCHANGED <<screens, pending, doubled>> PROVE OneAtATime'
    BY <1>1 DEF OneAtATime
<1>2. ASSUME NEW c \in Attempt, AttemptReply(c) PROVE OneAtATime'
    BY <1>1, <1>2, ReplyKeepsScreens, NewRootOneAtATime DEF favourites, history
<1>3. ASSUME NEW c \in Attempt, NEW u \in Account \cup {Refused}, Tap(c, u)
      PROVE  OneAtATime'
    BY <1>1, <1>3 DEF Tap, favourites, history
<1>4. CASE Logout
    BY <1>4, NewRootOneAtATime DEF Logout, favourites
<1>5. CASE Relaunch
    BY <1>5, NewRootOneAtATime DEF Relaunch, F!Kill
<1>6. CASE SwitchApp
    BY <1>1, <1>6 DEF SwitchApp, F!EnterBackground, F!EnterForeground, history
<1>7. CASE UNCHANGED vars
    BY <1>1, <1>7 DEF vars, favourites, history
<1>8. ASSUME NEW m \in Movie, Touch(m) PROVE OneAtATime'
    <2>1. screens' = <<>> /\ pending' = [pending EXCEPT ![m] = pending[m] + 1]
        BY <1>8 DEF Touch, favourites
    <2>2. ~doubled' => \A n \in Movie : ~(pending[n] > 0)
        BY <1>8 DEF Touch
    <2>3. ~doubled' => \A n \in Movie : pending[n] = 0
        BY <1>0, <2>2
    <2>4. ~doubled' => pending'[m] = 1 /\ \A n \in Movie \ {m} : pending'[n] = 0
        BY <1>0, <2>1, <2>3
    <2> QED
        BY <2>1, <2>4 DEF OneAtATime
<1>9. ASSUME NEW m \in Movie, Open(m) \/ OpenFetchFails(m) PROVE OneAtATime'
    <2>1. Answered(m) /\ doubled' = doubled
        BY <1>9 DEF Open, OpenFetchFails, Answered
    <2>2. ~doubled => screens = <<>> /\ \A n \in Movie : pending'[n] = 0
        BY <2>1, OnlyRequest
    <2>3. ~doubled => \A n \in Movie : ~(pending'[n] > 0)
        BY <2>2
    <2>4. ASSUME ~doubled PROVE Len(screens') <= 1
        <3>1. ASSUME NEW h, F!Push(m, h) PROVE Len(screens') <= 1
            <4> screens' = <<[movie |-> m, heart |-> h]>>
                BY <2>2, <2>4, <3>1 DEF F!Push
            <4> QED
                OBVIOUS
        <3>2. F!Push(m, F!Retrieved(m)) \/ F!Push(m, "unliked")
            BY <1>9 DEF Open, OpenFetchFails, F!Open, F!OpenFetchFails
        <3> QED
            BY <3>1, <3>2
    <2> QED
        BY <2>1, <2>3, <2>4 DEF OneAtATime
<1>10. ASSUME NEW m \in Movie, DetailsFail(m) PROVE OneAtATime'
    <2>1. Answered(m) /\ doubled' = doubled /\ screens' = screens
        BY <1>10 DEF DetailsFail, Answered, favourites
    <2>2. ~doubled => \A n \in Movie : pending'[n] = 0
        BY <2>1, OnlyRequest
    <2> QED
        BY <2>1, <2>2 DEF OneAtATime
<1>11. CASE HeartTap \/ Back
    <2>1. screens # <<>> /\ UNCHANGED <<pending, doubled>>
        BY <1>11 DEF HeartTap, Back, F!TapInsert, F!TapUpdate, F!TapUpdateNotSaved,
                     F!TapFetchFails, F!FlipHeart, F!Back, history
    <2>2. ~doubled => \A m \in Movie : ~(pending'[m] > 0)
        BY <2>1 DEF OneAtATime
    <2>3. Len(screens') \in Nat /\ Len(screens') <= Len(screens)
        <3>1. CASE Back
            BY <1>0, <2>1, <3>1 DEF Back, F!Back
        <3>2. CASE HeartTap
            <4> F!FlipHeart
                BY <3>2 DEF HeartTap, F!TapInsert, F!TapUpdate, F!TapUpdateNotSaved,
                            F!TapFetchFails
            <4> QED
                BY <1>0, OneScreenStep DEF TypeOK
        <3> QED
            BY <1>11, <3>1, <3>2
    <2>4. ~doubled => Len(screens') <= 1
        BY <1>0, <2>3 DEF OneAtATime
    <2> QED
        BY <2>1, <2>2, <2>4 DEF OneAtATime
<1> QED
    BY <1>2, <1>3, <1>4, <1>5, <1>6, <1>7, <1>8, <1>9, <1>10, <1>11 DEF Next

\* What the user who waits sees.
HeartsInv == ~doubled => failed \/ F!HeartsTrue

\* With one screen at most, a heart lies only after a fetch that threw.
LEMMA HeartsInvStep ==
    TypeOK /\ F!UniqueRows /\ OneAtATime /\ HeartsInv /\ [Next]_vars => HeartsInv'
<1> SUFFICES ASSUME TypeOK, F!UniqueRows, OneAtATime, HeartsInv, [Next]_vars
             PROVE  HeartsInv'
    OBVIOUS
<1>1. ASSUME screens' = <<>> PROVE HeartsInv'
    BY <1>1 DEF HeartsInv, F!HeartsTrue
<1>2. ASSUME UNCHANGED <<favourites, doubled, failed>> PROVE HeartsInv'
    BY <1>2 DEF HeartsInv, F!HeartsTrue, F!Retrieved, favourites
<1>3. ASSUME \/ \E m \in Movie : F!Open(m)
             \/ F!Back \/ F!TapInsert \/ F!TapUpdate \/ F!TapUpdateNotSaved
             \/ F!EnterBackground \/ F!EnterForeground \/ UNCHANGED favourites,
             UNCHANGED <<doubled, failed>>
      PROVE  HeartsInv'
    BY <1>3, OneScreenStep DEF TypeOK, OneAtATime, HeartsInv
<1>4. ASSUME failed' = TRUE PROVE HeartsInv'
    BY <1>4 DEF HeartsInv
<1>5. ASSUME NEW c \in Attempt, AttemptReply(c) PROVE HeartsInv'
    BY <1>1, <1>2, <1>5, ReplyKeepsScreens DEF history
<1>6. ASSUME NEW c \in Attempt, NEW u \in Account \cup {Refused}, Tap(c, u)
      PROVE  HeartsInv'
    BY <1>2, <1>6 DEF Tap, history
<1>7. CASE Logout \/ Relaunch
    BY <1>1, <1>7 DEF Logout, Relaunch, F!Kill, favourites
<1>8. ASSUME NEW m \in Movie, Touch(m) PROVE HeartsInv'
    BY <1>1, <1>8 DEF Touch, favourites
<1>9. ASSUME NEW m \in Movie, Open(m) PROVE HeartsInv'
    BY <1>3, <1>9 DEF Open, Answered
<1>10. ASSUME NEW m \in Movie, OpenFetchFails(m) PROVE HeartsInv'
    BY <1>4, <1>10 DEF OpenFetchFails
<1>11. ASSUME NEW m \in Movie, DetailsFail(m) PROVE HeartsInv'
    BY <1>2, <1>11 DEF DetailsFail, Answered
<1>12. CASE HeartTap
    BY <1>3, <1>4, <1>12 DEF HeartTap
<1>13. CASE Back \/ SwitchApp
    BY <1>3, <1>13 DEF Back, SwitchApp, history
<1>14. CASE UNCHANGED vars
    BY <1>2, <1>14 DEF vars, history
<1> QED
    BY <1>5, <1>6, <1>7, <1>8, <1>9, <1>10, <1>11, <1>12, <1>13, <1>14 DEF Next

(***************************************************************************)
(* A user who waits never has two details screens, and the heart he sees   *)
(* is true unless a fetch threw.  The strengthening counts the requests in *)
(* flight: one, and then no screen, or a screen, and then none.            *)
(***************************************************************************)
THEOREM WaitingTheorem == Spec => []WaitingKeepsHearts
<1>1. Init => OneAtATime /\ HeartsInv
    <2> SUFFICES ASSUME Init PROVE OneAtATime /\ HeartsInv
        OBVIOUS
    <2>1. screens = <<>> /\ \A m \in Movie : ~(pending[m] > 0)
        BY DEF Init, F!Init
    <2>2. Len(<<>>) <= 1
        OBVIOUS
    <2> QED
        BY <2>1, <2>2 DEF OneAtATime, HeartsInv, F!HeartsTrue
<1>2. OneAtATime /\ HeartsInv => WaitingKeepsHearts
    BY DEF OneAtATime, HeartsInv, WaitingKeepsHearts
<1> QED
    BY <1>1, <1>2, OneAtATimeStep, HeartsInvStep, TypeCorrect, UniqueRowsInvariant, PTL
    DEF Spec

(***************************************************************************)
(* Only the user's way back, or the end of the process, takes a details    *)
(* screen away: a reply that makes a new root finds no details screen,     *)
(* because the main screen has no attempts of its own left.                *)
(***************************************************************************)
THEOREM LeavingTheorem == Spec => OnlyUserLeavesDetails
<1>1. TypeOK /\ [Next]_vars => [Len(screens') < Len(screens) => Back \/ Relaunch]_vars
    <2> SUFFICES ASSUME TypeOK, [Next]_vars, Len(screens') < Len(screens)
                 PROVE  Back \/ Relaunch
        OBVIOUS
    <2>0. screens \in Seq(F!Screen) /\ Len(screens) \in Nat
        BY DEF TypeOK, F!TypeOK
    <2>1. ~UNCHANGED screens
        BY <2>0
    <2>2. ASSUME NEW m \in Movie PROVE ~Open(m) /\ ~OpenFetchFails(m)
        <3>1. ASSUME NEW h, F!Push(m, h) PROVE FALSE
            <4> Len(screens') = Len(screens) + 1
                BY <2>0, <3>1 DEF F!Push
            <4> QED
                BY <2>0
        <3> QED
            BY <3>1 DEF Open, OpenFetchFails, F!Open, F!OpenFetchFails
    <2>3. ~HeartTap
        <3>1. ~F!FlipHeart
            BY <2>0, OneScreenStep DEF TypeOK
        <3> QED
            BY <3>1 DEF HeartTap, F!TapInsert, F!TapUpdate, F!TapUpdateNotSaved,
                        F!TapFetchFails
    <2>4. ASSUME NEW c \in Attempt PROVE ~AttemptReply(c)
        BY <2>1, ReplyKeepsScreens DEF favourites
    <2>5. ASSUME NEW c \in Attempt, NEW u \in Account \cup {Refused} PROVE ~Tap(c, u)
        BY <2>1 DEF Tap, favourites
    <2>6. ASSUME NEW m \in Movie PROVE ~Touch(m) /\ ~DetailsFail(m)
        BY <2>1 DEF Touch, DetailsFail, favourites
    <2>7. ~Logout /\ ~SwitchApp /\ ~UNCHANGED vars
        BY <2>1 DEF Logout, SwitchApp, F!EnterBackground, F!EnterForeground, vars, favourites
    <2> QED
        BY <2>2, <2>3, <2>4, <2>5, <2>6, <2>7 DEF Next
<1> QED
    BY <1>1, TypeCorrect, PTL DEF Spec, OnlyUserLeavesDetails
=============================================================================
