# Thousand-Test in TLA+

Thousand-Test is an iOS client of The Movie Database, in Swift. After signing
in, the user scrolls through the popular movies, searches, refreshes, opens the
details of a movie and marks it as a favourite. This directory models the parts
of the app that keep state across callbacks, checks them with TLC on small
instances and proves, with TLAPS, what holds for instances of any size.

Paths below are relative to `src/Thousand-Test/Thousand-Test/`.

## The system

Almost all of the app runs on the main thread. What makes it hard is that
every request is answered by a callback, in any order, possibly long after the
screen that asked has changed or gone, and that each handler decides by the
state *at reply time* what the reply means.

| component | state | operations | interacts with | hard behaviour |
|---|---|---|---|---|
| HTTP client and HUD (`Source/Service/ApiClient.swift`, the RxSwift `Create` sink, `SVProgressHUD.m`) | requests in flight, one shared HUD, blocks on the main queue, the timer of a message | `request`, the completion closure, dispose, `show`, `showError`, `dismiss`, fade-in, fade-out, timer | called by every view model; calls their observers | overlapping requests, errors reported twice, uncounted dismissals, a timer that outlives its message |
| Main screen (`ViewController.swift`, `MainViewModel.swift`) | list, pagination cursor, search mode, search text, item count of the collection view, reload timers, spinner | start-up, four kinds of replies in success and two kinds of failure, pull, scope button, search button, scrolling, selection, logout | HTTP client; pushes details screens | replies out of order and under another mode, stale item count, delayed reload, lifetime |
| Favourites (`MovieDetailVC.swift`, `FavouriteButton.swift`, `AppDelegate.swift`) | rows in the managed object context, rows in the store, hearts on the stack of screens | open, back, tap, save, background, kill | pushed by the main screen | unsaved inserts, swallowed errors, two screens of one movie, kill |
| Sign-in and session (`SignInViewController.swift`, `SignInViewModel.swift`, `SceneDelegate.swift`) | attempts and the request each awaits, `SessionId` and `AccountId` in UserDefaults, root controller | tap, four replies, failure, logout, relaunch | HTTP client; replaces the main screen and is replaced by it | overlapping attempts, attempts that outlive their screen, a kill between two stores |
| Window and navigation (`SceneDelegate.swift`, the two controllers, `MovieDetailVC.swift`) | root controller, stack of screens, requests for details | sign in, touch a row, details arrive or fail, back, logout, switch apps, relaunch | joins sign-in, main screen and favourites | touches before an earlier reply, replies to an earlier screen |
| Image views (`UIImageView+Extension.swift`, `MovieViewCell.swift`) | address wanted and picture shown per view, shared cache, exchanges | load, reply, eviction, reuse of a cell | the cells of both lists | late replies for a reused cell, repeated exchanges, failures |
| Details table (`MovieDetailVC.swift`, `MovieDetailViewModel.swift`, `ImageViewCell.swift`, `RateDetailCell.swift`, `CommentCell.swift`) | the reviews, the rows the table counted, what each reused cell was told, the cell with the button | one request, load, show and hide a row, reload, dismiss | HTTP client; the screen of a heart | reused cells that remember, flags told late, reviews that arrive meanwhile |
| Comments screen (`MovieCommentsVC.swift`) | the same list | the same request | – | not modelled: no code creates it |
| Routing, transfer types | none | URL building, decoding | every request | partly: what is optional in a reply is a case of its own |
| Layout, fonts, headers, connectivity banner, recommendations | none that matters | drawing | – | not modelled: no control |
| Vendored libraries (Alamofire, RxSwift, SVProgressHUD, Realm, SnapKit, DZNEmptyDataSet) | their own | – | everything | modelled only where the app turns on them: the sink and the HUD |

What makes each component correct:

* **HTTP client**: a subscriber hears of its request exactly once; the HUD is up
  only for a reason and goes away; the spinner shows a wait.
* **Main screen**: the cursor is the end of the list; the rows on the screen
  are those of the list, or soon will be; mode and rows agree; the spinner
  stops; a row that is touched exists; a search shows one query's results.
* **Favourites**: one row per movie; the heart tells the truth; what was saved
  comes back.
* **Sign-in**: a stored session belongs to an accepted user and to the stored
  account; signing in ends on the main screen; a logout lasts.
* **Window and navigation**: one screen per movie, left only by the user.
* **Image views**: a row never shows another movie's poster.
* **Details table**: a reused cell shows the row it stands in, once.

## The modules

| module | what it is |
|---|---|
| `ApiReply` | what an HTTP response means: the observer calls of the completion closure, and which of them the sink lets through. Pure operators, shared by `ApiClient` and `MovieList` |
| `ApiClient` | several requests and the one HUD |
| `MovieList` | the main screen and its view model |
| `FavouriteStore` | abstract: a set of favourites and a durable copy of it |
| `Favourites` | the details screens' hearts and Core Data; implements `FavouriteStore` |
| `Session` | abstract: the user served and the user kept for the next launch |
| `SignIn` | sign-in attempts, session, root controller, logout, relaunch; implements `Session` |
| `App` | `SignIn` and `Favourites` in one window, with the requests for details between them; implements both |
| `PictureSlots` | abstract: a view shows the picture asked for last, or none |
| `ImageLoader` | image views, exchanges and the cache; implements `PictureSlots` |
| `DetailsTable` | the cells of a details screen and the request for its reviews |
| `MC…` | the instances for TLC: definitions of constants and symmetry |
| `…Proofs` | theorems about the module they extend, or, of `AppProofs`, about the components' too |

Definitions named "Mutant" in a comment are not part of a specification. Each
is a plausible bug in the definition after it, kept to show that a property
would notice.

### How state and actions correspond to the code

**ApiReply / ApiClient.** A response is reduced to what the closure looks at:
whether its description mentions `-1009`, whether it is a decodable model,
other JSON or a failure, and the status code. `ObserverCalls` has a case per
branch of `ApiClient.swift` 22–62; a 401 or 404 failure yields *two* calls.
`Passed` is the `isStopped` logic of `Create.swift` 40–56. `Subscribe` and
`Complete` are `request` and its closure; `Dispose` is a dispose bag going
away, which cancels nothing (line 63). `SubscribeUnfilled` is the same request
made by `signInDidTaped` after `validateFields` has found an empty field: its
`showError` and the request's `show` are enqueued back to back. `show`,
`showError` and `dismiss` only enqueue; `RunShow`, `RunError`, `RunDismiss` and
`FadeOut` are the blocks that run later, the last one a further hop later. A
message that had to fade in starts its timer in the completion block of that
animation (`FadedIn`), whatever the HUD holds by then; a message on a HUD that
is up starts it at once. `TimerFires` is `dismiss` again. `activityCount` is left
out: only `popActivity` reads it and the app never calls that. `heard` counts the
events a subscriber was given, `unfilled` the requests sent with an empty form.

**MovieList.** The variables are `MainViewModel`'s (`movie`, `movieList`,
`searching`), the requests in flight (`asked`, counted per page, and `details`),
the start-up's dispatch group (`boot`), and what the views hold: the search
text, the item count the collection view took at its last layout (`shown`), a
pending `reloadData` (`dirty`), the one-second reload blocks (`timers`), the
spinner. A page of results is one row, named by its source and page number; the
rows themselves play no part in the control. Each reply has one action per
outcome: `ListPage`, `ListServiceError`, `ListOtherError`, and the same for a
search, with `hasResults` for the optional `results`. An action includes the
view model's closure *and* the controller's closure that it calls. `trap` says
that the Swift runtime has stopped the process: an index out of range
(`RowTrap`) or an unowned reference (`Notify`). A logged-out controller stays
alive while one of its reload blocks is scheduled (`Freed`): the block captures
`wSelf` strongly. `settled` is a history variable: the text in the bar is that of
the last search, and that search was started with no other in flight.

**Favourites.** `context` and `disk` hold the `isFav` of each row per movie, a
sequence because nothing in the Core Data model makes `movieID` unique.
`screens` is the stack of details screens. A tap is one of `TapInsert` (no row:
insert, *no* save), `TapUpdate` (one row: flip and save the whole context),
`TapUpdateNotSaved` (the save throws and is swallowed) and `TapFetchFails`.

**SignIn.** `stage[c]` is the request attempt `c` awaits. `ours` are the
attempts whose controller is still the root, so that its view has a window.
The four replies write UserDefaults exactly where the code does; a `nil` id
*removes* the key. `RequestToken` is left out: it is read only by the closure
that has just written it. `validateFields` stops nothing (its message is in
`ApiClient`) and `onError` is never called. `overlapped` is a history variable:
since the launch, a tap met an attempt under way. What the code was written for,
a user who waits, is then not another specification but a hypothesis:
`~overlapped => ...`.

**App.** `App` instantiates `SignIn` and `Favourites` over its own variables and
adds `pending`, the requests for details in flight. Its actions are theirs, with
the guards that only the whole has: the Logout button is on the bar of the main
screen, which a details screen covers; a new root takes the stack of screens and
the subscriptions of the main screen with it; a details screen is pushed by the
reply to a touched row, wherever the user is by then. The list of `MovieList` is
left out, since any row may be touched. `doubled` and `failed` are history: a row
was touched while details were awaited, and a fetch threw, since the root was
replaced.

**ImageLoader.** A reused cell is bound to row after row; `about` is the row's
poster, `wanted` is `imageUrlString`, `picture` is `image`. There is one action
per path through `loadImageFromUrl`, and `Picture` / `Junk` are the main queue
block of the reply.

**DetailsTable.** `at[c]` is the index path a cell is displayed at; a cell off
the screen keeps all it was told. Whether UIKit reuses a cell or makes one is
left open. `AddLabels` is the guard of `setupGenreLabels` and `setupStackView`
followed by the assignment of `isSet`, in the order of `cellForRowAt`; the
movie of a screen never changes, so labels are counted and not named. `Reply`
is the view model's closure and the reload that it calls. `Wordless` reviews
have no content, or HTML that cannot be read: their cell keeps the text of
before.

### What is taken from outside

The server answers or the connection fails, in any order; it accepts only users
with an account and only tokens and sessions it made (`SignIn`). A page of movies
whose reply has no `results` is taken to have no `page` and no `total_pages`
either: the three are independent optionals in `Movie.swift` (11–16), and
`MainViewModel` (23, 69) keeps whatever came, so the model's cursor is then
`NoMovies`. `CursorIsTail`, `OnlyLeavingSplitsMode`, their theorems and
`ScrollTheorem` rest on it. UIKit lays out
after `reloadData`, delivers touches only to the controller on the screen, and
asks for rows up to the count it last took. `NSCache` may drop anything. The
button and refresh targets are taken to reach their controllers. The
window that `AppDelegate` also creates belongs to no scene and is ignored.

## The runs

| run | shows |
|---|---|
| `api_client` | `ExactlyOneEvent`, `HudHasReason`, `MessageIsReplaced`, `FirstWaitIsShown`, `HudGoesAway`: three concurrent requests with filled and unfilled forms, every kind of reply, disposal at any time. Without the hypothesis of a filled form `FirstWaitIsShown` fails: the timer of the message takes the attempt's spinner away |
| `movie_list` | `CursorIsTail`, `StaleRowsHeal`, `SettledSearchIsPure`, and three properties that name the only steps which can part rows from mode (and so let popular movies and search results stand in one list), part mode from cursor, or hang the spinner; `RowsGetShown`, `ListGetsAsked` under fairness |
| `movie_list_trap` | *violation*: after a search was started, the list is empty and the collection view still asks for old rows |
| `movie_list_refresh` | *violation*: pulling down appends page 1 instead of refreshing (README, line 10) |
| `movie_list_notify` | *violation*: the notify block runs on a freed controller |
| `favourites` | `UniqueRows`, three "only" properties on hearts and saves, and refinement of `FavouriteStore` |
| `favourites_restart` | *violation*: a first like does not survive a restart (README, line 14) |
| `sign_in` | overlapping attempts: `SessionIsAccepted`, which steps part session from screen or account (without an overlap only a launch after the process ended on the sign-in screen, with the account of a stored session awaited or its request failed), `AttemptsEnd`, refinement of `Session`; attempts that do not overlap: `WaitingIsSafe` (cast and main screen), `OnlyVisibleAttemptsSignIn` (a logout lasts) |
| `sign_in_cast` | *violation*: two overlapping attempts stop the process |
| `app` | `WaitingKeepsHearts`: a user who waits for details has one details screen at most, with a true heart; `OnlyUserLeavesDetails`: no reply or logout takes a details screen away |
| `image_loader` | `PostersFit`, `OnlyJunkLeavesBlank`, refinement of `PictureSlots` |
| `details_table` | `LabelsOnce`, `ReviewsFit`, `ButtonInItsRow` |

Many properties have the form `[][Good /\ ~Good' => A]_vars`: *Good* is what one
would want, the code does not keep it, and the property says which steps break
it, so that no other one ever does.

### Bounds

* `ApiClient`: three requests. Two are needed for an overlap, a third to be
  asked for while a dismissal of the first is under way, and a message, a spinner
  and a timer then fit between the two. Status codes 200, 404
  and 500 reach all branches of the closure.
* `MovieList`: two queries, two pages per source, at most two requests and
  timers outstanding and three rows held or asked for. That is enough for a
  reply to find the other mode or another query, for a list longer than the one
  that replaces it, for page 1 twice, and for a logout with a request or a timer
  and the group's block pending. (With three outstanding the properties hold too,
  in twice the states.)
* `Favourites`: three interchangeable movies and three screens: twins with
  another movie's screen above, between or below them.
* `SignIn`: three attempts of two users: one before a logout, one that
  outlives it and one after.
* `App`: two attempts of two users, two movies and three requests and screens:
  an attempt that outlives its screen, a screen on top of another and twins.
* `ImageLoader`: two cells, two posters and one malformed address, three
  exchanges: a cell can go to another poster and back while both are fetched.

* `DetailsTable`: five cells for five rows, so that the first section can be on the
  screen while review cells change rows; three reviews, one without text, in
  lists of up to two.

### Fairness

* `ApiClient`: each request is answered (URLSession answers or times out), and
  the main queue runs its blocks.
* `MovieList`: the genres request is answered, the notify block and the reload
  blocks run, and UIKit lays out. Nothing is assumed of the user.
* `SignIn`: each awaited reply comes.

These are weak fairness conditions on steps that stay enabled until taken. The
other modules state safety only.

### Where the code may stop

`CHECK_DEADLOCK FALSE` is set for `ApiClient` (when all requests were made,
answered and disposed of, nothing is left to do) and for `DetailsTable` (a
dismissed screen does nothing more).

## What is proved

The `…Proofs` modules prove, for every value of the constants that satisfies
the named assumptions (which only say that names differ, that `LastPage` is a
function into `0..MaxPage`, that bounds are numbers):

* `ApiClientProofs`: `TypeOK`; `OneEventPerResponse` (a lemma about the pure
  operators: of any response one event passes); from it `ExactlyOneEvent`,
  strengthened by "no event for a request not made"; `HudHasReason`, which is not
  inductive: once nothing is in flight the queue must be known to end with a
  dismissal (`HudInv`); `MessageIsReplaced`, because every message in the queue
  is followed by a spinner; `FirstWaitIsShown`, because without a reply and
  without a message there is no dismissal, no fade and no timer; and the stages of
  `HudGoesAway` (see below).
* `MovieListProofs`: `TypeOK`, `CursorIsTail`, `StaleRowsHeal` (inductive with
  the types), `IndexTrapNeedsShrink`, which follows from `StaleRowsHeal` (so that
  no run needs to check it), and the three "only" properties on rows, mode and
  spinner. The one on rows, `OnlyNamedRepliesMixRows`, speaks of both modes:
  popular rows in the search mode (a search that failed oddly), search results
  outside it (a details reply, a popular page's ServiceError), and of the step
  that then appends one kind to the other. `SettledSearchIsPure` excludes the
  results of other queries from a settled search and lets popular rows stand;
  with the property on rows it gives `OnlyOddErrorsSpoilSearch`: in the search
  mode, all rows are results of the text until the search fails oddly.
  `ScrollAsksForNext` follows from
  `CursorIsTail` and `SettledSearchIsPure`: what `willDisplay` asks for is the page
  after the row it displays, although it looks at the mode, the text and the
  cursor and never at the row. `RowsGetShown` and `ListGetsAsked`: see below.
* `FavouritesProofs`: `TypeOK`, `UniqueRows`, and `ImplementsStore`: every tap
  toggles one movie because there is at most one row of it; every save replaces the
  durable set as a whole. The three "only" properties follow step by step from
  the first two.
* `SignInProofs`: `TypeOK`; `SessionIsAccepted`, which needs that an attempt asks
  for a session only once its user was accepted (`AcceptedInv`); `WaitingIsSafe`,
  which needs that without an overlap there is at most one attempt and it belongs to
  the screen; from these the three "only" properties, `ImplementsSession`, and
  `StaysSignedIn`: user, session and account of a user who is signed in change
  only by a logout. `AttemptsEnd`: see below.
* `SessionProofs`: that the abstract `Session` promises what its comment says,
  and so what implements it does: the user served is the one remembered, and being
  served ends only by leaving.
* `AppProofs`: that every step of the app is a step of each component or leaves
  it alone (`ComponentsTheorem`). By it the results on the components are
  theorems about the whole app: `ImplementsSession` and `ImplementsStore`,
  `SessionIsAccepted`, `WaitingIsSafe` and the three "only" properties of sign-in,
  `UniqueRows` and those of the favourites. Further `TypeOK`, with the new fact
  that details are asked for and shown on the main screen only;
  `WaitingKeepsHearts`, strengthened by "one request and no screen, or a screen
  and no request"; `OnlyUserLeavesDetails`; and `DetailsKeepUser`: the user,
  session and account stay the same under an open details screen. The lemmas of
  the two components' proofs are cited through INSTANCE.
* `ImageLoaderProofs`: `TypeOK` (needing that malformed addresses are never asked for),
  `PostersFit` (needing that the view of a row with a poster wants that
  poster), `OnlyJunkLeavesBlank` and `ImplementsSlots`.
* `DetailsTableProofs`: `TypeOK` (needing that the table counted the list it has),
  `LabelsOnce` (needing that a made cell has its labels and knows it, displayed
  or not: `LabelInv`), `ReviewsFit` and `ButtonInItsRow`.

Every safety property of a passing run is proved.

### What holds if the user or the device is kind

Three of the runs that find a violation have a counterpart among the theorems:
what the code does promise, and to whom. Each is stated of a specification whose
next-state relation leaves out one thing.

* `BrowsingTheorem`: of a user who never presses the search button, no row is
  ever asked for past the end of the list (against `movie_list_trap`). The
  invariant: no page of a query is asked for, so that the list only grows.
* `PatientTheorem`: of a user who logs out only once the start-up is over, the
  notify block finds its controller (against `movie_list_notify`).
* `RelaunchTheorem`: on a device where no save fails, a relaunch forgets likes
  that were never saved and nothing else (against `favourites_restart`): no movie
  the user unliked comes back.

(The counterpart of `sign_in_cast` is `WaitingIsSafe`: attempts that do not
overlap.) `CalmTheorem` is of the same kind: if no fetch throws and no movie is opened on top
of itself, every heart is true at all times, whatever saves fail.

### Liveness

The prover knows weak fairness but cannot expand ENABLED. Where a property needs a
bounded number of fair steps it is proved from the hypothesis that each fair
step can be taken when its guard says so: `StartTheorem` (`ListGetsAsked`, under
`StartCanGoOn`), `ShownTheorem` (`RowsGetShown`, under `ReloadsCanRun`), `EndTheorem`
(`AttemptsEnd`, under `RepliesCanCome`). What the proofs establish is the rest of the
argument, for every value of the constants: that nothing else takes the
condition away, that each step leads to the next stage, that the stages end. The
hypotheses say `guard => ENABLED <<action>>_vars`, with the guard the action's
definition begins with; the runs check the same properties without them, on
their instances.

`HudGoesAway` takes as many steps as the operation queue is long, and the
induction on that length is out of the prover's reach. Proved are its parts:
every exchange leads to a dismissal in the queue (`ExchangeTheorem`, under
`ExchangesCanEnd`); a dismissal in any place leads to one in the place before, the
one at the head to a fade-out, and a fade-out to a hidden HUD (`StagesTheorem`,
under `MainQueueCanRun`). The property as a whole is only model-checked.

## What is not modelled

* `MovieList` is not part of `App`: its list decides which rows can be touched,
  and `App` lets any movie be touched. The lifetime of the main screen under
  logout and relaunch is in both.
* The connectivity banner of `UIViewController+Extension.swift`: labels that
  remove themselves after two seconds and touch no other state.
* The likes of one user on a device that the next one uses: the rows are not
  tied to an account, and the repository does not say that they should be.
* The comments screen, `markFavorite` and `getFavouriteMovies`: no caller.
* Drawing, fonts, labels, logging, URL building, the test template, and the
  vendored libraries apart from the sink and the HUD. Realm, whose C++ headers are
  by far the largest part of the tree, is linked for one class that is never used.
