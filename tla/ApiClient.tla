----------------------------- MODULE ApiClient ------------------------------
(***************************************************************************)
(* ApiClient.request for several requests at once, with the one HUD they   *)
(* share.  A request is subscribed to from any thread, answered in any     *)
(* order on the main queue, and its subscriber may be disposed of (its     *)
(* view model freed) while the exchange goes on: the disposable that       *)
(* request() returns does not cancel anything.                             *)
(*                                                                         *)
(* SVProgressHUD.show(), showError() and dismiss() only enqueue work on    *)
(* the main operation queue; the fade that hides the HUD runs one hop      *)
(* later.  An error message dismisses itself by a timer, which starts when *)
(* the HUD has faded in and which the next show() or showError() stops.    *)
(* The one caller of showError() is the check of the sign-in form, which   *)
(* the first request of the attempt follows at once.  The HUD's            *)
(* activityCount is left out: only popActivity reads it, which the app     *)
(* never calls.                                                            *)
(***************************************************************************)
EXTENDS ApiReply

CONSTANT Request    \* the requests made, each at most once

\* The work SVProgressHUD enqueues: show(), showError() and dismiss().
HudOp == {"show", "error", "dismiss"}

VARIABLES
    inFlight,       \* requests Alamofire has not answered
    asked,          \* requests subscribed to so far
    disposed,       \* requests whose subscription was disposed of
    heard,          \* heard[q]: how many events q's subscriber was given
    hudOps,         \* SVProgressHUD work waiting on the main operation queue
    fades,          \* fade-outs dispatched by dismiss and not yet run
    hudShown,       \* the HUD is on the screen
    hudImage,       \* it holds an error message, not the spinner
    fadeIns,        \* error messages that are still fading in
    timer,          \* fadeOutTimer: the message's own dismissal is to come
    unfilled        \* history: requests sent although the form was not filled in

requests == <<inFlight, asked, disposed, heard, unfilled>>
message  == <<hudImage, fadeIns, timer>>
hud      == <<fades, hudShown, message>>
vars     == <<requests, hudOps, hud>>

Init ==
    /\ inFlight = {}
    /\ asked = {}
    /\ disposed = {}
    /\ heard = [q \in Request |-> 0]
    /\ hudOps = <<>>
    /\ fades = 0
    /\ hudShown = FALSE
    /\ hudImage = FALSE
    /\ fadeIns = 0
    /\ timer = FALSE
    /\ unfilled = {}

Ask(q) ==
    /\ q \notin asked
    /\ asked' = asked \cup {q}
    /\ inFlight' = inFlight \cup {q}
    /\ UNCHANGED <<disposed, heard, hud>>

\* request() is subscribed to: show the HUD, start the Alamofire request.
Subscribe(q) ==
    /\ Ask(q)
    /\ hudOps' = Append(hudOps, "show")
    /\ UNCHANGED unfilled

\* Mutant: the form is checked after the attempt has started.
SubscribeUnfilledLate(q) ==
    /\ Ask(q)
    /\ hudOps' = hudOps \o <<"show", "error">>
    /\ unfilled' = unfilled \cup {q}

\* The same after validateFields has found an empty field: it says so and
\* does not keep the attempt from asking for its token.
SubscribeUnfilled(q) ==
    /\ Ask(q)
    /\ hudOps' = hudOps \o <<"error", "show">>
    /\ unfilled' = unfilled \cup {q}

\* Mutant: the HUD is dismissed in the no-connection branch only.
DismissWhenOffline(r) == IF r.offline THEN <<"dismiss">> ELSE <<>>

\* dismiss() is called once, and again in the no-connection branch.
DismissCalls(r) == IF r.offline THEN <<"dismiss", "dismiss">> ELSE <<"dismiss">>

\* What q's subscriber sees of the observer calls: nothing once disposed.
Delivered(q, r) == IF q \in disposed THEN <<>> ELSE Passed(ObserverCalls(r))

\* The completion closure runs for response r.
Complete(q, r) ==
    /\ q \in inFlight
    /\ inFlight' = inFlight \ {q}
    /\ hudOps' = hudOps \o DismissCalls(r)
    /\ heard' = [heard EXCEPT ![q] = @ + Len(Delivered(q, r))]
    /\ UNCHANGED <<asked, disposed, unfilled, hud>>

\* The owner of q's subscription goes away and its dispose bag with it; once
\* q has been answered, that changes nothing.
Dispose(q) ==
    /\ q \in inFlight \ disposed
    /\ disposed' = disposed \cup {q}
    /\ UNCHANGED <<inFlight, asked, heard, unfilled, hudOps, hud>>

\* The next block of the operation queue is of this kind, and runs.
Run(kind) ==
    /\ hudOps # <<>> /\ Head(hudOps) = kind
    /\ hudOps' = Tail(hudOps)
    /\ UNCHANGED requests

\* Mutant: the spinner is given a display time, as a message is.
RunShowTimed ==
    /\ Run("show")
    /\ hudShown' = TRUE
    /\ hudImage' = FALSE
    /\ timer' = FALSE
    /\ fadeIns' = fadeIns + 1
    /\ UNCHANGED fades

\* The block show() enqueued: stop the timer, hide the message, fade in.
RunShow ==
    /\ Run("show")
    /\ hudShown' = TRUE
    /\ hudImage' = FALSE
    /\ timer' = FALSE
    /\ UNCHANGED <<fades, fadeIns>>

\* The block showError() enqueued: the timer starts at once when the HUD is
\* up already, and else when it has faded in.
RunError ==
    /\ Run("error")
    /\ hudShown' = TRUE
    /\ hudImage' = TRUE
    /\ timer' = hudShown
    /\ fadeIns' = IF hudShown THEN fadeIns ELSE fadeIns + 1
    /\ UNCHANGED fades

\* Mutant: dismiss() balances the activity count but never fades out.
RunDismissWithoutFade ==
    /\ Run("dismiss")
    /\ UNCHANGED hud

\* The block dismiss() enqueued: dispatch the fade-out.  The timer runs on.
RunDismiss ==
    /\ Run("dismiss")
    /\ fades' = fades + 1
    /\ UNCHANGED <<hudShown, message>>

\* Mutant: a fade-out runs that no dismiss dispatched.
FadeOutUndispatched ==
    /\ hudShown
    /\ fades' = fades - 1
    /\ hudShown' = FALSE
    /\ UNCHANGED <<requests, hudOps, message>>

\* A dispatched fade-out hides the HUD, whatever was shown in between.
FadeOut ==
    /\ fades > 0
    /\ fades' = fades - 1
    /\ hudShown' = FALSE
    /\ UNCHANGED <<requests, hudOps, message>>

\* A message has faded in, unless it was hidden again: its timer starts, even
\* if a spinner has taken its place.
FadedIn ==
    /\ fadeIns > 0
    /\ fadeIns' = fadeIns - 1
    /\ timer' = (timer \/ hudShown)
    /\ UNCHANGED <<requests, hudOps, fades, hudShown, hudImage>>

\* The timer fires: dismiss().
TimerFires ==
    /\ timer
    /\ timer' = FALSE
    /\ hudOps' = Append(hudOps, "dismiss")
    /\ UNCHANGED <<requests, fades, hudShown, hudImage, fadeIns>>

Next ==
    \/ \E q \in Request : Subscribe(q) \/ SubscribeUnfilled(q) \/ Dispose(q)
    \/ \E q \in Request, r \in Response : Complete(q, r)
    \/ RunShow \/ RunError \/ RunDismiss
    \/ FadeOut \/ FadedIn \/ TimerFires

\* The exchange for q ends, with whatever response.
Answer(q)       == \E r \in Response : Complete(q, r)
FairExchange(q) == WF_vars(Answer(q))

(***************************************************************************)
(* Every exchange ends (URLSession answers or times out) and the main      *)
(* queue keeps running.                                                    *)
(***************************************************************************)
Fairness ==
    /\ \A q \in Request : FairExchange(q)
    /\ WF_vars(RunShow \/ RunError \/ RunDismiss)
    /\ WF_vars(FadeOut)

Spec == Init /\ [][Next]_vars /\ Fairness

-----------------------------------------------------------------------------
TypeOK ==
    /\ inFlight \subseteq asked
    /\ asked \subseteq Request
    /\ disposed \subseteq asked
    /\ heard \in [Request -> Nat]
    /\ unfilled \subseteq asked
    /\ hudOps \in Seq(HudOp)
    /\ fades \in Nat /\ fadeIns \in Nat
    /\ hudShown \in BOOLEAN /\ hudImage \in BOOLEAN /\ timer \in BOOLEAN

(***************************************************************************)
(* Although the closure reports a 401 or 404 failure twice (ApiClient 53   *)
(* to 57), a live subscriber gets exactly one event once its request is    *)
(* answered, and none before: the dispatch group of the main screen is     *)
(* left at most once, and no failure callback runs twice.                  *)
(***************************************************************************)
ExactlyOneEvent ==
    \A q \in Request :
        /\ heard[q] <= 1
        /\ q \in inFlight => heard[q] = 0
        /\ q \in (asked \ inFlight) \ disposed => heard[q] = 1

(***************************************************************************)
(* The HUD never stays up for nothing: while it is shown, a request is in  *)
(* flight or its removal is already under way.                             *)
(***************************************************************************)
HudHasReason ==
    hudShown => inFlight # {} \/ fades > 0 \/ \E i \in DOMAIN hudOps : hudOps[i] = "dismiss"

(***************************************************************************)
(* A form that is not filled in is reported for as long as the main queue  *)
(* takes to reach its next block: the show() of the attempt that goes on   *)
(* regardless (SignInViewController 225, 226) already waits there.         *)
(***************************************************************************)
MessageIsReplaced ==
    hudShown /\ hudImage => hudOps # <<>> /\ Head(hudOps) = "show"

(***************************************************************************)
(* Until the first reply the spinner is up or about to be, unless a form   *)
(* was reported: the timer of its message, started by a fade-in that ends  *)
(* after the spinner has taken its place, can take the spinner away.       *)
(***************************************************************************)
FirstWaitIsShown ==
    asked # {} /\ inFlight = asked /\ unfilled = {} =>
        hudShown \/ \E i \in DOMAIN hudOps : hudOps[i] = "show"

\* The HUD always goes away again, although dismiss() and show() interleave.
HudGoesAway == hudShown ~> ~hudShown
=============================================================================
