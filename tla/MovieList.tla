----------------------------- MODULE MovieList ------------------------------
(***************************************************************************)
(* The main screen: ViewController.swift and its MainViewModel.swift.      *)
(*                                                                         *)
(* One list serves two purposes.  It shows the popular movies, page after  *)
(* page, until the user searches; then it shows search results, page       *)
(* after page.  `searching' says which, `movie' is the last page received  *)
(* (the cursor of the pagination), `movieList' the rows.  Every handler    *)
(* runs on the main thread; between two handlers any number of requests    *)
(* may be in flight, and their replies come back in any order.             *)
(*                                                                         *)
(* The collection view keeps a row count of its own, taken at the last     *)
(* layout after a reloadData(); it asks the controller for rows by index   *)
(* up to that count, whatever has become of movieList.                     *)
(*                                                                         *)
(* A page of results is modelled by one row, named by where it came from.  *)
(***************************************************************************)
EXTENDS ApiReply, Functions

CONSTANTS
    Query,          \* the texts the user may type
    NoText,         \* an empty search bar
    Popular,        \* the source of movie/popular pages
    NoMovies,       \* Movies(): no page, no total_pages, no results
    MaxPage,        \* no source has more pages than this
    LastPage,       \* LastPage[s]: total_pages of source s
    MaxRequests,    \* bound: requests and reload timers outstanding
    MaxRows         \* bound: rows held plus rows asked for

Source == Query \cup {Popular}
Page   == 1..MaxPage

\* A request for a page, the page itself (a Movies value with its `page') and
\* the page's row are all named by the source and the page number.
PageOf == [src : Source, page : Page]

ASSUME MovieListAssumption ==
    /\ MaxPage \in Nat \ {0}
    /\ LastPage \in [Source -> 0..MaxPage]
    /\ Popular \notin Query
    /\ NoText \notin Source
    /\ NoMovies \notin PageOf
    /\ MaxRequests \in Nat /\ MaxRows \in Nat

VARIABLES
    movie,          \* MainViewModel.movie: the last page received
    movieList,      \* MainViewModel.movieList
    searching,      \* MainViewModel.searching
    asked,          \* asked[m]: requests in flight for page m
    details,        \* getMovieDetails requests in flight
    boot,           \* start-up: "genres" asked, "left" the group, list
                    \* "started", or "lost" when the group is never left
    searchText,     \* the text in the search bar
    shown,          \* the collection view's own row count
    dirty,          \* reloadData() called, layout not done yet
    timers,         \* one-second reloads scheduled by getMovieList
    refreshing,     \* the pull-to-refresh spinner turns
    onScreen,       \* this controller is the one on the screen
    trap,           \* why the process was stopped by the Swift runtime, if it was
    settled         \* history: the text is that of the last search, which was
                    \* started with no other search in flight

model   == <<movie, movieList, searching>>
network == <<asked, details, boot>>
view    == <<searchText, shown, dirty, timers, refreshing>>
process == <<onScreen, trap, settled>>
vars    == <<model, network, view, process>>

-----------------------------------------------------------------------------
\* viewDidLoad: makeRequest asks for the genres before anything else.
Init ==
    /\ movie = NoMovies
    /\ movieList = <<>>
    /\ searching = FALSE
    /\ asked = [m \in PageOf |-> 0]
    /\ details = 0
    /\ boot = "genres"
    /\ searchText = NoText
    /\ shown = 0
    /\ dirty = FALSE
    /\ timers = 0
    /\ refreshing = FALSE
    /\ onScreen = TRUE
    /\ trap = "none"
    /\ settled = TRUE

\* A logged-out controller lives on only as long as a timer block holds it.
Freed   == ~onScreen /\ timers = 0
Running == trap = "none" /\ ~Freed      \* replies and timers are handled
Usable  == trap = "none" /\ onScreen    \* the user can act on the list

\* Bounds: what may still be asked for when the list will have n rows.
Outstanding == FoldFunction(+, 0, asked) + details + timers
Room(n)     == Outstanding < MaxRequests /\ n + Outstanding < MaxRows

\* Mutant: a reply is counted twice, as if both error calls were delivered.
AnsweredTwice(m) == asked' = [asked EXCEPT ![m] = @ - 2]

PageAt(s, p) == [src |-> s, page |-> p]
Ask(s, p)    == asked' = [asked EXCEPT ![PageAt(s, p)] = @ + 1]
Answered(m)  == asked' = [asked EXCEPT ![m] = @ - 1]

\* Some response makes the subscriber see event e.
Replies(e) == \E r \in Response : Outcome(r) = e

\* The rows of page m: none past the last page.
Results(m) == IF m.page <= LastPage[m.src] THEN <<m>> ELSE <<>>

-----------------------------------------------------------------------------
(* Start-up: genres first, then page 1 of the popular movies.              *)

\* Mutant: the failure closure does not leave the dispatch group.
GenresReplyLeavesOnSuccess ==
    /\ Running /\ boot = "genres"
    /\ \E e \in Event : Replies(e) /\ boot' = IF e = "next" THEN "left" ELSE "entered"
    /\ UNCHANGED <<model, asked, details, view, process>>

\* getGenres succeeds or fails: either callback leaves the dispatch group.
GenresReply ==
    /\ Running /\ boot = "genres"
    /\ \E e \in Event : Replies(e)
    /\ boot' = "left"
    /\ UNCHANGED <<model, asked, details, view, process>>

\* A decoded reply without a `genres' field: neither callback is called.
GenresMissing ==
    /\ Running /\ boot = "genres"
    /\ Replies("next")
    /\ boot' = "lost"
    /\ UNCHANGED <<model, asked, details, view, process>>

\* The group's notify block, on a global queue, with an unowned self.
Notify ==
    /\ trap = "none" /\ boot = "left"
    /\ boot' = "started"
    /\ IF Freed
       THEN trap' = "unowned" /\ UNCHANGED asked
       ELSE Ask(Popular, 1) /\ UNCHANGED trap
    /\ UNCHANGED <<model, details, view, onScreen, settled>>

-----------------------------------------------------------------------------
(* Replies.  `hasResults' is whether the optional `results' is there; a    *)
(* decoded reply without it is taken to have no page and no total either.  *)

\* Mutant: a popular page that arrives does not end the search mode.
ListPageKeepsMode(m, hasResults) ==
    /\ Running /\ m.src = Popular /\ asked[m] > 0 /\ Replies("next")
    /\ Answered(m)
    /\ movie' = IF hasResults THEN m ELSE NoMovies
    /\ movieList' = IF hasResults THEN movieList \o Results(m) ELSE movieList
    /\ timers' = timers + 1
    /\ UNCHANGED <<searching, details, boot, searchText, shown, dirty, refreshing, process>>

\* getList, onNext: leave the search mode, or append; reload in a second.
ListPage(m, hasResults) ==
    /\ Running /\ m.src = Popular /\ asked[m] > 0 /\ Replies("next")
    /\ Answered(m)
    /\ movie' = IF hasResults THEN m ELSE NoMovies
    /\ searching' = (searching /\ ~hasResults)
    /\ movieList' = CASE ~hasResults -> movieList
                      [] hasResults /\ searching -> Results(m)
                      [] hasResults /\ ~searching -> movieList \o Results(m)
    /\ timers' = timers + 1
    /\ UNCHANGED <<details, boot, searchText, shown, dirty, refreshing, process>>

\* Mutant: the failure closure of getMovieList forgets endRefreshing.
ListServiceErrorKeepsSpinner(m) ==
    /\ Running /\ m.src = Popular /\ asked[m] > 0 /\ Replies("service")
    /\ Answered(m)
    /\ searching' = FALSE
    /\ UNCHANGED <<movie, movieList, details, boot, view, process>>

\* getList, onError with a ServiceError: the failure closure stops the spinner.
ListServiceError(m) ==
    /\ Running /\ m.src = Popular /\ asked[m] > 0 /\ Replies("service")
    /\ Answered(m)
    /\ searching' = FALSE
    /\ refreshing' = FALSE
    /\ UNCHANGED <<movie, movieList, details, boot,
                   searchText, shown, dirty, timers, process>>

\* getList, onError with any other error: neither callback is called.
ListOtherError(m) ==
    /\ Running /\ m.src = Popular /\ asked[m] > 0 /\ Replies("other")
    /\ Answered(m)
    /\ UNCHANGED <<model, details, boot, view, process>>

\* Mutant: the success closure of searchByText does not reload the view.
SearchPageNoReload(m, hasResults) ==
    /\ Running /\ m.src \in Query /\ asked[m] > 0 /\ Replies("next")
    /\ Answered(m)
    /\ movie' = IF hasResults THEN m ELSE NoMovies
    /\ searching' = (searching \/ hasResults)
    /\ movieList' = CASE ~hasResults -> movieList
                      [] hasResults /\ searching -> movieList \o Results(m)
                      [] hasResults /\ ~searching -> Results(m)
    /\ UNCHANGED <<details, boot, view, process>>

\* searchByText, onNext: enter the search mode, or append; reload now.
SearchPage(m, hasResults) ==
    /\ Running /\ m.src \in Query /\ asked[m] > 0 /\ Replies("next")
    /\ Answered(m)
    /\ movie' = IF hasResults THEN m ELSE NoMovies
    /\ searching' = (searching \/ hasResults)
    /\ movieList' = CASE ~hasResults -> movieList
                      [] hasResults /\ searching -> movieList \o Results(m)
                      [] hasResults /\ ~searching -> Results(m)
    /\ dirty' = TRUE
    /\ UNCHANGED <<details, boot, searchText, shown, timers, refreshing, process>>

\* Mutant: a failed search empties the list but keeps the cursor.
SearchServiceErrorKeepsCursor(m) ==
    /\ Running /\ m.src \in Query /\ asked[m] > 0 /\ Replies("service")
    /\ Answered(m)
    /\ searching' = TRUE
    /\ movieList' = <<>>
    /\ UNCHANGED <<movie, details, boot, view, process>>

\* searchByText, onError with a ServiceError: nothing is left to show, and
\* the failure closure does not reload the view.
SearchServiceError(m) ==
    /\ Running /\ m.src \in Query /\ asked[m] > 0 /\ Replies("service")
    /\ Answered(m)
    /\ searching' = TRUE
    /\ movie' = NoMovies
    /\ movieList' = <<>>
    /\ UNCHANGED <<details, boot, view, process>>

\* searchByText, onError with any other error: the rows stay.
SearchOtherError(m) ==
    /\ Running /\ m.src \in Query /\ asked[m] > 0 /\ Replies("other")
    /\ Answered(m)
    /\ searching' = TRUE
    /\ movie' = NoMovies
    /\ UNCHANGED <<movieList, details, boot, view, process>>

\* getMovieDetails, onNext and onError alike: the search mode ends.
DetailsReply ==
    /\ Running /\ details > 0
    /\ \E e \in Event : Replies(e)
    /\ details' = details - 1
    /\ searching' = FALSE
    /\ UNCHANGED <<movie, movieList, asked, boot, view, process>>

-----------------------------------------------------------------------------
(* What the user does.                                                     *)

\* updateList: pull to refresh.
Pull ==
    /\ Usable /\ ~refreshing /\ Room(Len(movieList))
    /\ refreshing' = TRUE
    /\ Ask(Popular, 1)
    /\ UNCHANGED <<model, details, boot, searchText, shown, dirty, timers, process>>

\* The "Popular" scope button.
PopularScope ==
    /\ Usable /\ Room(Len(movieList))
    /\ Ask(Popular, 1)
    /\ UNCHANGED <<model, details, boot, view, process>>

\* The user types, or closing the search controller clears the bar.
EditText(t) ==
    /\ Usable /\ t # searchText
    /\ searchText' = t
    /\ settled' = FALSE
    /\ UNCHANGED <<model, network, shown, dirty, timers, refreshing, onScreen, trap>>

\* Mutant: a search keeps the rows of the search before until it is answered.
SearchClickedKeepsRows ==
    /\ Usable /\ searchText # NoText /\ Room(0)
    /\ movie' = NoMovies
    /\ Ask(searchText, 1)
    /\ settled' = \A m \in PageOf : m.src \in Query => asked[m] = 0
    /\ UNCHANGED <<movieList, searching, details, boot, view, onScreen, trap>>

\* searchBarSearchButtonClicked (the button is disabled on an empty bar):
\* the list is emptied at once, without a reloadData().
SearchClicked ==
    /\ Usable /\ searchText # NoText /\ Room(0)
    /\ searching' = FALSE
    /\ movieList' = <<>>
    /\ movie' = NoMovies
    /\ Ask(searchText, 1)
    /\ settled' = \A m \in PageOf : m.src \in Query => asked[m] = 0
    /\ UNCHANGED <<details, boot, view, onScreen, trap>>

\* Rows can be touched or scrolled once the pending layout is done.
OnRow(i) == Usable /\ ~dirty /\ i \in 1..shown

\* cellForItemAt or didSelectItemAt indexes movieList out of range.
RowTrap(i) ==
    /\ OnRow(i) /\ i > Len(movieList)
    /\ trap' = "index"
    /\ UNCHANGED <<model, network, view, onScreen, settled>>

\* didSelectItemAt: ask for the details of the row's movie.
SelectRow(i) ==
    /\ OnRow(i) /\ i <= Len(movieList) /\ Room(Len(movieList))
    /\ details' = details + 1
    /\ UNCHANGED <<model, asked, boot, view, process>>

\* willDisplay for the last row, with more pages to come: ask for the next
\* page of the search bar's text, or of the popular movies.
DisplayLastRow(i) ==
    /\ OnRow(i) /\ i = Len(movieList) /\ Room(Len(movieList))
    /\ movie # NoMovies /\ LastPage[movie.src] > movie.page
    /\ \/ searching /\ searchText # NoText /\ Ask(searchText, movie.page + 1)
       \/ ~searching /\ Ask(Popular, movie.page + 1)
    /\ UNCHANGED <<model, details, boot, view, process>>

\* handleLogout: another root controller takes the screen.
Logout ==
    /\ Usable
    /\ onScreen' = FALSE
    /\ UNCHANGED <<model, network, view, trap, settled>>

\* Signing in again, or starting the app again after a trap: a new controller.
Restart ==
    /\ trap # "none" \/ (Freed /\ boot # "left")
    /\ movie' = NoMovies /\ movieList' = <<>> /\ searching' = FALSE
    /\ asked' = [m \in PageOf |-> 0] /\ details' = 0 /\ boot' = "genres"
    /\ searchText' = NoText /\ shown' = 0 /\ dirty' = FALSE
    /\ timers' = 0 /\ refreshing' = FALSE
    /\ onScreen' = TRUE /\ trap' = "none" /\ settled' = TRUE

-----------------------------------------------------------------------------
(* What UIKit and the main queue do.                                       *)

\* The layout pass after reloadData(): numberOfItemsInSection is asked.
Layout ==
    /\ Usable /\ dirty
    /\ shown' = Len(movieList)
    /\ dirty' = FALSE
    /\ UNCHANGED <<model, network, searchText, timers, refreshing, process>>

\* The block getMovieList scheduled a second ago.
ReloadTimer ==
    /\ Running /\ timers > 0
    /\ timers' = timers - 1
    /\ dirty' = TRUE
    /\ refreshing' = FALSE
    /\ UNCHANGED <<model, network, searchText, shown, process>>

Next ==
    \/ GenresReply \/ GenresMissing \/ Notify
    \/ \E m \in PageOf, hasResults \in BOOLEAN :
            ListPage(m, hasResults) \/ SearchPage(m, hasResults)
    \/ \E m \in PageOf :
            \/ ListServiceError(m) \/ ListOtherError(m)
            \/ SearchServiceError(m) \/ SearchOtherError(m)
    \/ DetailsReply
    \/ Pull \/ PopularScope \/ SearchClicked \/ Logout \/ Restart
    \/ \E t \in Query \cup {NoText} : EditText(t)
    \/ \E i \in 1..shown : RowTrap(i) \/ SelectRow(i) \/ DisplayLastRow(i)
    \/ Layout \/ ReloadTimer

(***************************************************************************)
(* The genres request is answered, blocks handed to a queue run, and UIKit *)
(* lays the view out.  Nothing is assumed of the user.                     *)
(***************************************************************************)
Fairness ==
    /\ WF_vars(GenresReply \/ GenresMissing)
    /\ WF_vars(Notify)
    /\ WF_vars(ReloadTimer)
    /\ WF_vars(Layout)

Spec == Init /\ [][Next]_vars /\ Fairness

-----------------------------------------------------------------------------
TypeOK ==
    /\ movie \in PageOf \cup {NoMovies}
    /\ movieList \in Seq(PageOf)
    /\ searching \in BOOLEAN
    /\ asked \in [PageOf -> Nat]
    /\ details \in Nat
    /\ boot \in {"genres", "left", "started", "lost"}
    /\ searchText \in Query \cup {NoText}
    /\ shown \in Nat
    /\ dirty \in BOOLEAN
    /\ timers \in Nat
    /\ refreshing \in BOOLEAN
    /\ onScreen \in BOOLEAN
    /\ trap \in {"none", "index", "unowned"}
    /\ settled \in BOOLEAN

(***************************************************************************)
(* The cursor is about the end of the list: whenever `movie' holds a page  *)
(* that had rows, they are the last rows of movieList.  Every handler that *)
(* replaces, empties or extends one has to keep the other in step, or      *)
(* willDisplay would page on from somewhere else.                          *)
(***************************************************************************)
CursorIsTail ==
    movie # NoMovies /\ movie.page <= LastPage[movie.src] =>
        movieList # <<>> /\ movieList[Len(movieList)] = movie

(***************************************************************************)
(* A view that shows another number of rows than the list has is about to  *)
(* be laid out again (a reload is pending or scheduled), unless the list   *)
(* was emptied: the search button and a failed search leave it that way.   *)
(***************************************************************************)
StaleRowsHeal ==
    shown # Len(movieList) => movieList = <<>> \/ dirty \/ timers > 0

\* The collection view can run past the list only while it is empty or a
\* scheduled reload of replaced rows has not happened yet.
IndexTrapNeedsShrink ==
    [][trap = "none" /\ trap' = "index" => movieList = <<>> \/ timers > 0]_vars

\* In search mode the list holds search results only, else popular movies only.
SearchRowsOnly ==
    searching => \A i \in DOMAIN movieList : movieList[i].src \in Query
PopularRowsOnly ==
    ~searching => \A i \in DOMAIN movieList : movieList[i].src = Popular

\* Popular movies and search results stand in one list.
Mixed ==
    \E i, j \in DOMAIN movieList : movieList[i].src = Popular /\ movieList[j].src \in Query

(***************************************************************************)
(* Popular movies and search results come to stand in one list only after  *)
(* the mode said one thing and the rows another.  Popular rows get listed  *)
(* in the search mode only by a search that fails outside it with an error *)
(* that is not a ServiceError (MainViewModel 80 to 86).  Search results    *)
(* stay listed outside the search mode only when it ends by a details      *)
(* reply (49, 52) or a popular page's ServiceError (35), both of which     *)
(* keep the rows.                                                          *)
(***************************************************************************)
OnlyNamedRepliesMixRows ==
    [][/\ SearchRowsOnly /\ ~SearchRowsOnly' =>
            ~searching /\ \E m \in PageOf : SearchOtherError(m)
       /\ PopularRowsOnly /\ ~PopularRowsOnly' =>
            searching /\ (DetailsReply \/ \E m \in PageOf : ListServiceError(m))
       /\ ~Mixed /\ Mixed' => ~SearchRowsOnly \/ ~PopularRowsOnly]_vars

(***************************************************************************)
(* Results of two queries are listed together only after the text was      *)
(* edited once a search had been started, or a search started while a page *)
(* of one was in flight: willDisplay asks for the next page of the text    *)
(* now in the bar (ViewController 241), and a page is appended to whatever *)
(* results are listed when it arrives (MainViewModel 71 to 76).            *)
(***************************************************************************)
SettledSearchIsPure ==
    settled => \A i \in DOMAIN movieList : movieList[i].src \in {Popular, searchText}

\* The mode and the cursor agree: `searching' with a page of search results.
ModeMatchesCursor ==
    movie # NoMovies => (searching <=> movie.src \in Query)

(***************************************************************************)
(* Mode and cursor part, so that willDisplay asks for popular movies below *)
(* search results, only when search results are listed and a details reply *)
(* (MainViewModel 49, 52) or a failed popular page (35) ends the mode.     *)
(***************************************************************************)
OnlyLeavingSplitsMode ==
    [][ModeMatchesCursor /\ ~ModeMatchesCursor' =>
        /\ searching /\ movie.src \in Query
        /\ DetailsReply \/ \E m \in PageOf : ListServiceError(m)]_vars

\* The spinner turns for a reason: a popular page or its reload is awaited.
SpinnerHasReason ==
    refreshing => timers > 0 \/ \E m \in PageOf : m.src = Popular /\ asked[m] > 0

(***************************************************************************)
(* The one way to leave the spinner turning for nothing is a getList reply *)
(* whose error is not a ServiceError (MainViewModel 33 to 37): neither     *)
(* callback runs.                                                          *)
(***************************************************************************)
OnlyOddErrorsHangSpinner ==
    [][SpinnerHasReason /\ ~SpinnerHasReason' => \E m \in PageOf : ListOtherError(m)]_vars

\* Rows that arrived are on the screen in the end, if the user stays on it.
RowsGetShown ==
    shown # Len(movieList) /\ movieList # <<>> ~> shown = Len(movieList) \/ ~Usable

\* Whatever the genres request comes to, the popular movies are asked for,
\* but for a reply that decodes and has no genres.
ListGetsAsked ==
    boot = "genres" ~> boot \in {"started", "lost"} \/ ~Usable

(***************************************************************************)
(* README, line 10: pulling down refreshes the data.  When page 1 arrives  *)
(* while the spinner turns, it is what the list then holds.                *)
(***************************************************************************)
PullRefreshes ==
    [][refreshing /\ ListPage(PageAt(Popular, 1), TRUE) =>
        movieList' = Results(PageAt(Popular, 1))]_vars

\* What `movieList[indexPath.row]' and `[unowned self]' assert.
RowsInRange     == trap # "index"
NotifyHasOwner  == trap # "unowned"
=============================================================================
