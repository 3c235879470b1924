-------------------------------- MODULE App ---------------------------------
(***************************************************************************)
(* Signing in, the main screen and the details screens together: SignIn    *)
(* and Favourites share one window, one navigation stack and one process.  *)
(*                                                                         *)
(* Between the two lies the request for the details of a movie, made when  *)
(* a row of the main screen is touched.  Rows can be touched while earlier *)
(* requests are in flight (the HUD blocks no touches), and each reply      *)
(* pushes a screen, also onto the screens that others have pushed.         *)
(*                                                                         *)
(* A new root controller takes the whole navigation stack away, and the    *)
(* subscriptions of the main screen with it: they are in its dispose bag.  *)
(* The Logout button is on the bar of the main screen, which a details     *)
(* screen covers.                                                          *)
(***************************************************************************)
EXTENDS Naturals, Sequences, Functions

CONSTANTS
    Attempt, Account, Refused, None,    \* as in SignIn
    Movie, MaxScreens                   \* as in Favourites

ASSUME AppAssumption ==
    /\ Refused \notin Account
    /\ None \notin Account \cup Attempt
    /\ MaxScreens \in Nat

VARIABLES
    stage, user, ours, sessionId, accountId, root, trap, overlapped,
    context, disk, screens, app,
    pending,        \* pending[m]: requests for m's details in flight
    doubled,        \* history: a row was touched while one was in flight
    failed          \* history: a fetch threw; both since the root was replaced

S == INSTANCE SignIn
F == INSTANCE Favourites

signIn     == <<stage, user, ours, sessionId, accountId, root, trap, overlapped>>
favourites == <<context, disk, screens, app>>
history    == <<doubled, failed>>
vars       == <<signIn, favourites, pending, history>>

Init ==
    /\ S!Init
    /\ F!Init
    /\ pending = [m \in Movie |-> 0]
    /\ doubled = FALSE
    /\ failed = FALSE

\* A new main screen has asked for nothing.
NewRoot ==
    /\ pending' = [m \in Movie |-> 0]
    /\ doubled' = FALSE
    /\ failed' = FALSE

-----------------------------------------------------------------------------
\* The user signs in.
Tap(c, u) ==
    /\ app = "active"
    /\ S!Tap(c, u)
    /\ UNCHANGED <<favourites, pending, history>>

\* A reply to an attempt, wherever the user has got to meanwhile: if it is the
\* account of an attempt of the screen, a new root takes the window.
AttemptReply(c) ==
    /\ S!Reply(c)
    /\ IF c \in ours /\ \E hasId \in BOOLEAN : S!AccountReply(c, hasId)
       THEN screens' = <<>> /\ NewRoot
       ELSE UNCHANGED <<screens, pending, history>>
    /\ UNCHANGED <<context, disk, app>>

\* Mutant: the requests of the main screen outlive it.
LogoutKeepsRequests ==
    /\ app = "active" /\ screens = <<>>
    /\ S!Logout
    /\ UNCHANGED <<favourites, pending, history>>

\* The Logout button, which a details screen covers.
Logout ==
    /\ app = "active" /\ screens = <<>>
    /\ S!Logout
    /\ NewRoot
    /\ UNCHANGED favourites

-----------------------------------------------------------------------------
OnMain == ~trap /\ root = "main"

\* didSelectItemAt: the main screen asks for the details of a row's movie.
Touch(m) ==
    /\ OnMain /\ app = "active" /\ screens = <<>>
    /\ FoldFunction(+, 0, pending) < MaxScreens
    /\ pending' = [pending EXCEPT ![m] = @ + 1]
    /\ doubled' = (doubled \/ \E n \in Movie : pending[n] > 0)
    /\ UNCHANGED <<signIn, favourites, failed>>

\* A reply to a request for m's details is handled.
Answered(m) ==
    /\ OnMain /\ pending[m] > 0
    /\ pending' = [pending EXCEPT ![m] = @ - 1]
    /\ UNCHANGED <<signIn, doubled>>

\* The details arrive: their screen is pushed, and reads its heart ...
Open(m) ==
    /\ Answered(m)
    /\ F!Open(m)
    /\ UNCHANGED failed

\* ... or cannot read it.
OpenFetchFails(m) ==
    /\ Answered(m)
    /\ F!OpenFetchFails(m)
    /\ failed' = TRUE

\* The request for the details fails.
DetailsFail(m) ==
    /\ Answered(m)
    /\ UNCHANGED <<favourites, failed>>

\* The heart of the top screen is touched, or the screen is left.
HeartTap ==
    /\ OnMain
    /\ \/ UNCHANGED failed /\ (F!TapInsert \/ F!TapUpdate \/ F!TapUpdateNotSaved)
       \/ failed' = TRUE /\ F!TapFetchFails
    /\ UNCHANGED <<signIn, pending, doubled>>

Back ==
    /\ OnMain /\ app = "active"
    /\ F!Back
    /\ UNCHANGED <<signIn, pending, history>>

-----------------------------------------------------------------------------
\* The app is left for another one, or returned to.
SwitchApp ==
    /\ ~trap
    /\ F!EnterBackground \/ F!EnterForeground
    /\ UNCHANGED <<signIn, pending, history>>

\* The process ends, killed or by the forced cast; the app is launched.
Relaunch ==
    /\ S!Relaunch
    /\ F!Kill
    /\ NewRoot

Next ==
    \/ \E c \in Attempt : AttemptReply(c) \/ \E u \in Account \cup {Refused} : Tap(c, u)
    \/ \E m \in Movie : Touch(m) \/ Open(m) \/ OpenFetchFails(m) \/ DetailsFail(m)
    \/ HeartTap \/ Back
    \/ Logout \/ SwitchApp \/ Relaunch

Spec == Init /\ [][Next]_vars

-----------------------------------------------------------------------------
\* In a state of both components, only the main screen has details: asked for
\* or shown.  A request or a screen that outlived a logout would break it.
TypeOK ==
    /\ S!TypeOK
    /\ F!TypeOK
    /\ pending \in [Movie -> Nat]
    /\ doubled \in BOOLEAN /\ failed \in BOOLEAN
    /\ screens # <<>> \/ (\E m \in Movie : pending[m] > 0) => root = "main"

(***************************************************************************)
(* A user who waits for the details of a movie before he touches another   *)
(* row never has two details screens, so that every heart he sees is true  *)
(* unless a fetch threw: the second screen of a movie that makes a heart   *)
(* lie comes from touches that overlap, whatever attempts, logouts and     *)
(* relaunches there were.                                                  *)
(***************************************************************************)
WaitingKeepsHearts ==
    ~doubled =>
        /\ Len(screens) <= 1
        /\ failed \/ F!HeartsTrue

(***************************************************************************)
(* A details screen, and the like that may not have been saved on it, goes *)
(* only when the user leaves it or the process ends: no reply to an        *)
(* attempt of the sign-in screen before, nor a logout, takes it away.      *)
(***************************************************************************)
OnlyUserLeavesDetails ==
    [][Len(screens') < Len(screens) => Back \/ Relaunch]_vars
=============================================================================
