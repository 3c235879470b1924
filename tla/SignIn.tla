------------------------------- MODULE SignIn -------------------------------
(***************************************************************************)
(* Signing in and out: SignInViewController.swift, SignInViewModel.swift,  *)
(* SceneDelegate.swift and the logout of ViewController.swift.             *)
(*                                                                         *)
(* A tap on the button starts an attempt: four requests, each asked for by *)
(* the reply to the one before.  The button stays enabled meanwhile, and   *)
(* an attempt keeps its controller alive after that has left the screen,   *)
(* so attempts overlap each other, the main screen and a logout.  What     *)
(* they share is the user typed in, per controller, and UserDefaults.      *)
(*                                                                         *)
(* UserDefaults' "RequestToken" is left out: it is read back only by the   *)
(* closure that has just written it.  So is validateFields, which shows a  *)
(* message and stops nothing, and the onError closure, which nobody calls. *)
(***************************************************************************)
CONSTANTS
    Attempt,        \* the attempts made, each at most once
    Account,        \* the users with an account
    Refused,        \* credentials the server refuses: empty, wrong ...
    None            \* no such key in UserDefaults

ASSUME SignInAssumption ==
    /\ Refused \notin Account
    /\ None \notin Account \cup Attempt

VARIABLES
    stage,          \* stage[c]: "idle", the request awaited, or "over"
    user,           \* user[c]: the user attempt c signs in
    ours,           \* attempts of the controller that is on the screen
    sessionId,      \* UserDefaults' "SessionId", named by the attempt that made it
    accountId,      \* UserDefaults' "AccountId"
    root,           \* the root controller: "signIn" or "main"
    trap,           \* the forced cast failed and stopped the process
    overlapped      \* history: since the launch, a tap met an attempt under way

defaults == <<sessionId, accountId>>
window   == <<ours, root>>
process  == <<trap, overlapped>>
vars     == <<stage, user, defaults, window, process>>

Awaited  == {"token", "login", "session", "account"}
InFlight == {c \in Attempt : stage[c] \in Awaited}

Init ==
    /\ stage = [c \in Attempt |-> "idle"]
    /\ user = [c \in Attempt |-> Refused]
    /\ ours = {}
    /\ sessionId = None
    /\ accountId = None
    /\ root = "signIn"
    /\ trap = FALSE
    /\ overlapped = FALSE

\* Mutant: the controller that was on the screen stays there.
ConfigureKeepsOurs(session) ==
    /\ root' = IF session # None THEN "main" ELSE "signIn"
    /\ UNCHANGED ours

\* confugureInitialViewController: a new root controller, by what is stored.
Configure(session) ==
    /\ root' = IF session # None THEN "main" ELSE "signIn"
    /\ ours' = {}

\* The reply that attempt c waits for has come, and the next step is taken.
Proceed(c, from, to) ==
    /\ ~trap /\ stage[c] = from
    /\ stage' = [stage EXCEPT ![c] = to]

-----------------------------------------------------------------------------
\* Mutant: the user is read anew by every closure, not just the first.
TapChangesAll(c, u) ==
    /\ root = "signIn"
    /\ Proceed(c, "idle", "token")
    /\ ours' = ours \cup {c}
    /\ user' = [d \in Attempt |-> IF d = c \/ d \in ours THEN u ELSE user[d]]
    /\ overlapped' = (overlapped \/ InFlight # {})
    /\ UNCHANGED <<defaults, root, trap>>

\* signInDidTaped: the controller's user changes under the attempts of the
\* same controller that have not logged in yet.
Tap(c, u) ==
    /\ root = "signIn"
    /\ Proceed(c, "idle", "token")
    /\ ours' = ours \cup {c}
    /\ user' = [d \in Attempt |->
                    IF d = c \/ (d \in ours /\ stage[d] = "token") THEN u ELSE user[d]]
    /\ overlapped' = (overlapped \/ InFlight # {})
    /\ UNCHANGED <<defaults, root, trap>>

\* getRequestToken: log in with the token; without one, to be refused.
TokenReply(c, hasToken) ==
    /\ Proceed(c, "token", "login")
    /\ user' = IF hasToken THEN user ELSE [user EXCEPT ![c] = Refused]
    /\ UNCHANGED <<defaults, window, process>>

\* Mutant: the root controller is replaced before there is a session.
LoginReplyConfigures(c) ==
    /\ user[c] # Refused
    /\ Proceed(c, "login", "session")
    /\ Configure(sessionId)
    /\ UNCHANGED <<user, defaults, process>>

\* getSessionWithLogin: the server accepts users with an account.
LoginReply(c) ==
    /\ user[c] # Refused
    /\ Proceed(c, "login", "session")
    /\ UNCHANGED <<user, defaults, window, process>>

\* Mutant: the main screen is shown before the account is known.
SessionReplyEntersMain(c, hasSession) ==
    /\ Proceed(c, "session", "account")
    /\ sessionId' = IF hasSession THEN c ELSE None
    /\ user' = IF hasSession THEN user ELSE [user EXCEPT ![c] = Refused]
    /\ Configure(sessionId')
    /\ UNCHANGED <<accountId, process>>

\* getSession: store the session's id (or remove it, when the reply has none)
\* and ask for its account, which no account has without a session.
SessionReply(c, hasSession) ==
    /\ Proceed(c, "session", "account")
    /\ sessionId' = IF hasSession THEN c ELSE None
    /\ user' = IF hasSession THEN user ELSE [user EXCEPT ![c] = Refused]
    /\ UNCHANGED <<accountId, window, process>>

\* Mutant: an account that is already stored is kept.
AccountReplyStoresFirst(c, hasId) ==
    /\ user[c] # Refused
    /\ Proceed(c, "account", "over")
    /\ accountId' = IF accountId = None /\ hasId THEN user[c] ELSE accountId
    /\ IF c \in ours THEN Configure(sessionId) /\ UNCHANGED trap
                     ELSE trap' = TRUE /\ UNCHANGED window
    /\ UNCHANGED <<user, sessionId, overlapped>>

\* Mutant: the reply is delivered and the attempt goes on waiting for it.
AccountReplyStays(c, hasId) ==
    /\ user[c] # Refused
    /\ Proceed(c, "account", "account")
    /\ accountId' = IF hasId THEN user[c] ELSE None
    /\ IF c \in ours THEN Configure(sessionId) /\ UNCHANGED trap
                     ELSE trap' = TRUE /\ UNCHANGED window
    /\ UNCHANGED <<user, sessionId, overlapped>>

\* getAccount: store its id, and show the main screen.  A controller that is
\* off the screen has no window, whose scene's delegate is cast by force.
AccountReply(c, hasId) ==
    /\ user[c] # Refused
    /\ Proceed(c, "account", "over")
    /\ accountId' = IF hasId THEN user[c] ELSE None
    /\ IF c \in ours THEN Configure(sessionId) /\ UNCHANGED trap
                     ELSE trap' = TRUE /\ UNCHANGED window
    /\ UNCHANGED <<user, sessionId, overlapped>>

\* Mutant: after a failure the attempt waits on.
FailureWaits(c) ==
    /\ ~trap /\ c \in InFlight
    /\ UNCHANGED vars

\* A request fails, with a ServiceError or not: the attempt ends in silence.
Failure(c) ==
    /\ ~trap /\ c \in InFlight
    /\ stage' = [stage EXCEPT ![c] = "over"]
    /\ UNCHANGED <<user, defaults, window, process>>

-----------------------------------------------------------------------------
\* Mutant: the session is forgotten and the main screen stays.
LogoutForgetsToLeave ==
    /\ ~trap /\ root = "main"
    /\ sessionId' = None
    /\ UNCHANGED <<stage, user, accountId, window, process>>

\* handleLogout: forget the session (the account's id stays stored).
Logout ==
    /\ ~trap /\ root = "main"
    /\ sessionId' = None
    /\ Configure(sessionId')
    /\ UNCHANGED <<stage, user, accountId, process>>

\* The process ends, killed or stopped by the trap, and the app is launched.
Relaunch ==
    /\ stage' = [c \in Attempt |-> IF stage[c] = "idle" THEN "idle" ELSE "over"]
    /\ Configure(sessionId)
    /\ trap' = FALSE
    /\ overlapped' = FALSE
    /\ UNCHANGED <<user, defaults>>

Reply(c) ==
    \/ \E has \in BOOLEAN :
            TokenReply(c, has) \/ SessionReply(c, has) \/ AccountReply(c, has)
    \/ LoginReply(c)
    \/ Failure(c)

Next ==
    \/ \E c \in Attempt : Reply(c) \/ \E u \in Account \cup {Refused} : Tap(c, u)
    \/ Logout
    \/ Relaunch

\* Every request is answered in the end; nothing is assumed of the user.
FairTo(c) == WF_vars(Reply(c))
Fairness  == \A c \in Attempt : FairTo(c)

Spec == Init /\ [][Next]_vars /\ Fairness
-----------------------------------------------------------------------------
TypeOK ==
    /\ stage \in [Attempt -> Awaited \cup {"idle", "over"}]
    /\ user \in [Attempt -> Account \cup {Refused}]
    /\ ours \subseteq {c \in Attempt : stage[c] # "idle"}
    /\ sessionId \in Attempt \cup {None}
    /\ accountId \in Account \cup {None}
    /\ root \in {"signIn", "main"}
    /\ root = "main" => ours = {}
    /\ trap \in BOOLEAN
    /\ overlapped \in BOOLEAN

(***************************************************************************)
(* The stored session is one the server made for a user it knows, whatever *)
(* was typed and tapped while the attempt that made it was under way.      *)
(***************************************************************************)
SessionIsAccepted ==
    sessionId # None => user[sessionId] # Refused /\ stage[sessionId] \in {"account", "over"}

MainHasSession == root = "main" => sessionId # None

(***************************************************************************)
(* The main screen loses its session only to an attempt of the screen      *)
(* before, whose late reply has no session id (SignInViewModel 103): the   *)
(* logout that also removes it leaves the main screen with it.             *)
(***************************************************************************)
OnlyLateRepliesTakeSession ==
    [][MainHasSession /\ ~MainHasSession' =>
        \E c \in Attempt \ ours : SessionReply(c, FALSE)]_vars

\* On the main screen, the stored account is that of the stored session.
MainFits ==
    root = "main" /\ sessionId # None => accountId \in {None, user[sessionId]}

(***************************************************************************)
(* Session and account part only when the process ends on the sign-in      *)
(* screen, where a session was stored whose account is still awaited or    *)
(* whose account request failed, or, after a tap during an attempt, when   *)
(* the account of another attempt than the session's arrives or a session  *)
(* arrives on the main screen.  A launch from the main screen never does.  *)
(***************************************************************************)
OnlyOverlapOrRelaunchMisfits ==
    [][MainFits /\ ~MainFits' =>
        \/ Relaunch /\ root = "signIn"
        \/ overlapped /\ \E c \in Attempt : AccountReply(c, TRUE) /\ sessionId # c
        \/ overlapped /\ root = "main" /\ \E c \in Attempt : SessionReply(c, TRUE)]_vars

\* Every attempt ends, signed in or not, unless it stops the process.
AttemptsEnd ==
    \A c \in Attempt : stage[c] \in Awaited ~> stage[c] = "over" \/ trap

\* What `mySceneDelegate as! SceneDelegate' asserts.
CastSucceeds == ~trap

-----------------------------------------------------------------------------
(* What the code is written for: a user who lets an attempt end before he  *)
(* taps again.                                                             *)

(***************************************************************************)
(* The forced cast finds its window, and the main screen has a session and *)
(* no attempt that could still change it (SignInViewController 227, 228).  *)
(***************************************************************************)
WaitingIsSafe ==
    ~overlapped =>
        /\ CastSucceeds
        /\ root = "main" => InFlight = {} /\ sessionId # None

(***************************************************************************)
(* A logout lasts: where no session is stored, one is stored only by an    *)
(* attempt of the sign-in screen the user sees (ViewController 324).       *)
(***************************************************************************)
OnlyVisibleAttemptsSignIn ==
    [][~overlapped /\ sessionId = None /\ sessionId' # None => sessionId' \in ours]_vars

-----------------------------------------------------------------------------
\* The user of the stored session, and the one the main screen serves.
SessionUser == IF sessionId = None THEN None ELSE user[sessionId]

UserSession == INSTANCE Session WITH
    User <- Account,
    Nobody <- None,
    served <- IF root = "main" THEN SessionUser ELSE None,
    kept <- SessionUser,
    void <- overlapped

(***************************************************************************)
(* The chain of four requests, UserDefaults and the root controller amount *)
(* to a Session: one user at a time is served, and a launch at any moment  *)
(* serves the user whose session was stored last.                          *)
(***************************************************************************)
ImplementsSession == UserSession!Spec
=============================================================================
