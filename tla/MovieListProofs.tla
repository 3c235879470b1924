-------------------------- MODULE MovieListProofs ---------------------------
(***************************************************************************)
(* Theorems about MovieList, for every set of queries, every number of     *)
(* pages and every bound on what is outstanding.                           *)
(***************************************************************************)
EXTENDS MovieList, TLAPS

\* A page's rows are a sequence of rows, and its only row is the page itself.
LEMMA ResultsType ==
    ASSUME NEW m \in PageOf
    PROVE  /\ Results(m) \in Seq(PageOf)
           /\ m.page <= LastPage[m.src] => Results(m) = <<m>>
           /\ m.page > LastPage[m.src] => Results(m) = <<>>
<1> m.page \in Nat /\ LastPage[m.src] \in Nat
    BY MovieListAssumption DEF PageOf, Page
<1> QED
    BY DEF Results

\* Asking for a page keeps the type of `asked', and so does a reply to a
\* request that was made.
LEMMA AskType ==
    ASSUME asked \in [PageOf -> Nat], NEW s \in Source, NEW p \in Page, Ask(s, p)
    PROVE  asked' \in [PageOf -> Nat]
<1> PageAt(s, p) \in PageOf
    BY DEF PageAt, PageOf
<1> QED
    BY DEF Ask

\* A reply keeps the counters of requests numbers.
LEMMA AnsweredType ==
    ASSUME asked \in [PageOf -> Nat], NEW m \in PageOf, asked[m] > 0, Answered(m)
    PROVE  asked' \in [PageOf -> Nat]
BY DEF Answered

-----------------------------------------------------------------------------
\* The specification without its fairness, which no invariant needs.
SafetySpec == Init /\ [][Next]_vars

\* The type invariant, from the initial state and the steps alone.
LEMMA TypeInvariant == SafetySpec => []TypeOK
<1>1. Init => TypeOK
    <2> SUFFICES ASSUME Init PROVE TypeOK
        OBVIOUS
    <2>1. asked \in [PageOf -> Nat] /\ movieList \in Seq(PageOf)
        BY DEF Init
    <2> QED
        BY <2>1 DEF Init, TypeOK
<1>2. TypeOK /\ [Next]_vars => TypeOK'
    <2> SUFFICES ASSUME TypeOK, [Next]_vars PROVE TypeOK'
        OBVIOUS
    <2> Popular \in Source /\ Query \subseteq Source /\ 1 \in Page
        BY MovieListAssumption DEF Source, Page
    <2> <<>> \in Seq(PageOf)
        OBVIOUS
    <2> USE DEF TypeOK, model, network, view, process
    <2>1. CASE GenresReply \/ GenresMissing
        BY <2>1 DEF GenresReply, GenresMissing
    <2>2. CASE Notify
        BY <2>2, AskType DEF Notify
    <2>3. ASSUME NEW m \in PageOf, NEW hasResults \in BOOLEAN, ListPage(m, hasResults)
          PROVE  TypeOK'
        BY <2>3, AnsweredType, ResultsType DEF ListPage
    <2>4. ASSUME NEW m \in PageOf, ListServiceError(m) \/ ListOtherError(m)
          PROVE  TypeOK'
        BY <2>4, AnsweredType DEF ListServiceError, ListOtherError
    <2>5. ASSUME NEW m \in PageOf, NEW hasResults \in BOOLEAN, SearchPage(m, hasResults)
          PROVE  TypeOK'
        BY <2>5, AnsweredType, ResultsType DEF SearchPage
    <2>6. ASSUME NEW m \in PageOf, SearchServiceError(m) \/ SearchOtherError(m)
          PROVE  TypeOK'
        <3>1. asked' \in [PageOf -> Nat]
            BY <2>6, AnsweredType DEF SearchServiceError, SearchOtherError
        <3>2. movieList' = <<>> \/ movieList' = movieList
            BY <2>6 DEF SearchServiceError, SearchOtherError
        <3>3. searching' \in BOOLEAN
            BY <2>6 DEF SearchServiceError, SearchOtherError
        <3>4. movieList' \in Seq(PageOf)
            BY <3>2
        <3> QED
            BY <2>6, <3>1, <3>3, <3>4 DEF SearchServiceError, SearchOtherError
    <2>7. CASE DetailsReply
        <3>1. details' \in Nat
            BY <2>7 DEF DetailsReply
        <3>2. searching' \in BOOLEAN
            BY <2>7 DEF DetailsReply
        <3> QED
            BY <2>7, <3>1, <3>2 DEF DetailsReply
    <2>8. CASE Pull \/ PopularScope \/ SearchClicked \/ Logout
        <3>1. asked' \in [PageOf -> Nat]
            BY <2>8, AskType DEF Pull, PopularScope, SearchClicked, Logout
        <3>2. movieList' = <<>> \/ movieList' = movieList
            BY <2>8 DEF Pull, PopularScope, SearchClicked, Logout
        <3>3. searching' \in BOOLEAN /\ refreshing' \in BOOLEAN /\ onScreen' \in BOOLEAN
            BY <2>8 DEF Pull, PopularScope, SearchClicked, Logout
        <3>4. movieList' \in Seq(PageOf)
            BY <3>2
        <3> QED
            BY <2>8, <3>1, <3>3, <3>4 DEF Pull, PopularScope, SearchClicked, Logout
    <2>9. CASE Restart
        <3>1. asked' \in [PageOf -> Nat] /\ movieList' \in Seq(PageOf)
            BY <2>9 DEF Restart
        <3> QED
            BY <2>9, <3>1 DEF Restart
    <2>10. ASSUME NEW t \in Query \cup {NoText}, EditText(t)
           PROVE  TypeOK'
        BY <2>10 DEF EditText
    <2>11. ASSUME NEW i \in 1..shown, RowTrap(i) \/ SelectRow(i)
           PROVE  TypeOK'
        BY <2>11 DEF RowTrap, SelectRow
    <2>12. ASSUME NEW i \in 1..shown, DisplayLastRow(i)
           PROVE  TypeOK'
        <3>1. movie.page + 1 \in Page
            BY <2>12, MovieListAssumption DEF DisplayLastRow, PageOf, Page
        <3> QED
            BY <2>12, <3>1, AskType DEF DisplayLastRow
    <2>13. CASE Layout \/ ReloadTimer
        <3>1. shown' \in Nat /\ timers' \in Nat
            BY <2>13 DEF Layout, ReloadTimer
        <3>2. dirty' \in BOOLEAN /\ refreshing' \in BOOLEAN
            BY <2>13 DEF Layout, ReloadTimer
        <3> QED
            BY <2>13, <3>1, <3>2 DEF Layout, ReloadTimer
    <2>14. CASE UNCHANGED vars
        BY <2>14 DEF vars
    <2> QED
        BY <2>1, <2>2, <2>3, <2>4, <2>5, <2>6, <2>7, <2>8, <2>9, <2>10, <2>11,
           <2>12, <2>13, <2>14 DEF Next
<1> QED
    BY <1>1, <1>2, PTL DEF SafetySpec

(***************************************************************************)
(* The state always has its type: in particular no reply is handled that   *)
(* was not asked for, and no timer fires that was not scheduled.           *)
(***************************************************************************)
THEOREM TypeCorrect == Spec => []TypeOK
BY TypeInvariant, PTL DEF Spec, SafetySpec

-----------------------------------------------------------------------------
\* Appending a page that has rows, or putting it in place of the list, makes
\* it the tail of the list.
LEMMA TailOfAppend ==
    ASSUME NEW m \in PageOf, NEW list \in Seq(PageOf), m.page <= LastPage[m.src]
    PROVE  /\ list \o Results(m) # <<>>
           /\ (list \o Results(m))[Len(list \o Results(m))] = m
           /\ Results(m) # <<>>
           /\ Results(m)[Len(Results(m))] = m
<1>1. Results(m) = <<m>>
    BY ResultsType
<1>2. /\ list \o <<m>> = Append(list, m)
      /\ Len(Append(list, m)) = Len(list) + 1
      /\ Append(list, m)[Len(list) + 1] = m
      /\ Append(list, m) # <<>>
    OBVIOUS
<1> QED
    BY <1>1, <1>2

(***************************************************************************)
(* The cursor of the pagination is the tail of the list.  Inductive by     *)
(* itself: each handler either sets `movie' and the end of movieList       *)
(* together, or drops the cursor, or leaves both alone.                    *)
(***************************************************************************)
THEOREM CursorTheorem == Spec => []CursorIsTail
<1>1. Init => CursorIsTail
    BY DEF Init, CursorIsTail
<1>2. TypeOK /\ CursorIsTail /\ [Next]_vars => CursorIsTail'
    <2> SUFFICES ASSUME TypeOK, CursorIsTail, [Next]_vars PROVE CursorIsTail'
        OBVIOUS
    <2>1. ASSUME UNCHANGED <<movie, movieList>> PROVE CursorIsTail'
        BY <2>1 DEF CursorIsTail
    <2>2. ASSUME movie' = NoMovies PROVE CursorIsTail'
        BY <2>2 DEF CursorIsTail
    <2>3. ASSUME NEW m \in PageOf, NEW hasResults \in BOOLEAN,
                 ListPage(m, hasResults) \/ SearchPage(m, hasResults)
          PROVE  CursorIsTail'
        <3>1. CASE ~hasResults
            <4> movie' = NoMovies
                BY <2>3, <3>1 DEF ListPage, SearchPage
            <4> QED
                BY <2>2
        <3>2. CASE hasResults
            <4>1. movie' = m
                BY <2>3, <3>2 DEF ListPage, SearchPage
            <4>2. movieList' = Results(m) \/ movieList' = movieList \o Results(m)
                BY <2>3, <3>2 DEF ListPage, SearchPage
            <4>3. movieList \in Seq(PageOf)
                BY DEF TypeOK
            <4> QED
                BY <4>1, <4>2, <4>3, TailOfAppend DEF CursorIsTail
        <3> QED
            BY <3>1, <3>2
    <2>4. ASSUME NEW m \in PageOf,
                 \/ ListServiceError(m) \/ ListOtherError(m)
                 \/ SearchServiceError(m) \/ SearchOtherError(m)
          PROVE  CursorIsTail'
        <3> movie' = NoMovies \/ UNCHANGED <<movie, movieList>>
            BY <2>4 DEF ListServiceError, ListOtherError, SearchServiceError,
                        SearchOtherError, model
        <3> QED
            BY <2>1, <2>2
    <2>5. CASE SearchClicked \/ Restart
        BY <2>2, <2>5 DEF SearchClicked, Restart
    <2>6. CASE GenresReply \/ GenresMissing \/ Notify \/ DetailsReply \/ Pull
                \/ PopularScope \/ Logout \/ Layout \/ ReloadTimer
        BY <2>1, <2>6 DEF GenresReply, GenresMissing, Notify, DetailsReply, Pull,
            PopularScope, Logout, Layout, ReloadTimer, model
    <2>7. ASSUME NEW t \in Query \cup {NoText}, EditText(t) PROVE CursorIsTail'
        BY <2>1, <2>7 DEF EditText, model
    <2>8. ASSUME NEW i \in 1..shown, RowTrap(i) \/ SelectRow(i) \/ DisplayLastRow(i)
          PROVE  CursorIsTail'
        BY <2>1, <2>8 DEF RowTrap, SelectRow, DisplayLastRow, model
    <2>9. CASE UNCHANGED vars
        BY <2>1, <2>9 DEF vars, model
    <2> QED
        BY <2>3, <2>4, <2>5, <2>6, <2>7, <2>8, <2>9 DEF Next
<1> QED
    BY <1>1, <1>2, TypeCorrect, PTL DEF Spec

(***************************************************************************)
(* A stale view is about to be laid out again, or the list is empty.       *)
(***************************************************************************)
THEOREM StaleRowsTheorem == Spec => []StaleRowsHeal
<1>1. Init => StaleRowsHeal
    BY DEF Init, StaleRowsHeal
<1>2. TypeOK /\ StaleRowsHeal /\ [Next]_vars => StaleRowsHeal'
    <2> SUFFICES ASSUME TypeOK, StaleRowsHeal, [Next]_vars PROVE StaleRowsHeal'
        OBVIOUS
    <2>1. ASSUME UNCHANGED <<movieList, shown, dirty, timers>> PROVE StaleRowsHeal'
        BY <2>1 DEF StaleRowsHeal
    <2>2. ASSUME movieList' = <<>> \/ dirty' \/ timers' > 0 PROVE StaleRowsHeal'
        BY <2>2 DEF StaleRowsHeal
    <2>3. ASSUME NEW m \in PageOf, NEW hasResults \in BOOLEAN,
                 ListPage(m, hasResults) \/ SearchPage(m, hasResults)
          PROVE  StaleRowsHeal'
        <3>1. CASE ListPage(m, hasResults)
            <4> timers' > 0
                BY <3>1 DEF ListPage, TypeOK
            <4> QED
                BY <2>2
        <3>2. CASE SearchPage(m, hasResults)
            BY <2>2, <3>2 DEF SearchPage
        <3> QED
            BY <2>3, <3>1, <3>2
    <2>4. ASSUME NEW m \in PageOf,
                 \/ ListServiceError(m) \/ ListOtherError(m)
                 \/ SearchServiceError(m) \/ SearchOtherError(m)
          PROVE  StaleRowsHeal'
        <3> movieList' = <<>> \/ UNCHANGED <<movieList, shown, dirty, timers>>
            BY <2>4 DEF ListServiceError, ListOtherError, SearchServiceError,
                        SearchOtherError, model, view
        <3> QED
            BY <2>1, <2>2
    <2>5. CASE SearchClicked \/ Restart
        BY <2>2, <2>5 DEF SearchClicked, Restart
    <2>6. CASE GenresReply \/ GenresMissing \/ Notify \/ DetailsReply \/ Pull
                \/ PopularScope \/ Logout
        BY <2>1, <2>6 DEF GenresReply, GenresMissing, Notify, DetailsReply, Pull,
            PopularScope, Logout, model, view
    <2>7. CASE Layout
        BY <2>7 DEF Layout, StaleRowsHeal, model
    <2>8. CASE ReloadTimer
        BY <2>2, <2>8 DEF ReloadTimer
    <2>9. ASSUME NEW t \in Query \cup {NoText}, EditText(t) PROVE StaleRowsHeal'
        BY <2>1, <2>9 DEF EditText, model
    <2>10. ASSUME NEW i \in 1..shown, RowTrap(i) \/ SelectRow(i) \/ DisplayLastRow(i)
           PROVE  StaleRowsHeal'
        BY <2>1, <2>10 DEF RowTrap, SelectRow, DisplayLastRow, model, view
    <2>11. CASE UNCHANGED vars
        BY <2>1, <2>11 DEF vars, model, view
    <2> QED
        BY <2>3, <2>4, <2>5, <2>6, <2>7, <2>8, <2>9, <2>10, <2>11 DEF Next
<1> QED
    BY <1>1, <1>2, TypeCorrect, PTL DEF Spec

(***************************************************************************)
(* The view runs past the list only while the list is empty or replaced    *)
(* rows await their scheduled reload: by StaleRowsHeal, since rows are     *)
(* touched only when no layout is pending.                                 *)
(***************************************************************************)
THEOREM IndexTrapTheorem == Spec => IndexTrapNeedsShrink
<1>1. TypeOK /\ StaleRowsHeal /\ [Next]_vars
        => [trap = "none" /\ trap' = "index" => movieList = <<>> \/ timers > 0]_vars
    <2> SUFFICES ASSUME TypeOK, StaleRowsHeal, Next, trap = "none", trap' = "index"
                 PROVE  movieList = <<>> \/ timers > 0
        OBVIOUS
    <2>1. ASSUME NEW i \in 1..shown, RowTrap(i)
          PROVE  movieList = <<>> \/ timers > 0
        <3>1. ~dirty /\ shown # Len(movieList)
            BY <2>1 DEF RowTrap, OnRow, TypeOK
        <3> QED
            BY <3>1 DEF StaleRowsHeal
    <2>2. ~ \/ GenresReply \/ GenresMissing \/ Notify \/ DetailsReply \/ Pull
            \/ PopularScope \/ SearchClicked \/ Logout \/ Restart \/ Layout
            \/ ReloadTimer
        BY DEF GenresReply, GenresMissing, Notify, DetailsReply, Pull, PopularScope,
            SearchClicked, Logout, Restart, Layout, ReloadTimer, process
    <2>3. ASSUME NEW m \in PageOf
          PROVE  /\ \A hasResults \in BOOLEAN :
                       ~ListPage(m, hasResults) /\ ~SearchPage(m, hasResults)
                 /\ ~ListServiceError(m) /\ ~ListOtherError(m)
                 /\ ~SearchServiceError(m) /\ ~SearchOtherError(m)
        BY DEF ListPage, SearchPage, ListServiceError, ListOtherError,
            SearchServiceError, SearchOtherError, process
    <2>4. ASSUME NEW t \in Query \cup {NoText} PROVE ~EditText(t)
        BY DEF EditText, process
    <2>5. ASSUME NEW i \in 1..shown PROVE ~SelectRow(i) /\ ~DisplayLastRow(i)
        BY DEF SelectRow, DisplayLastRow, process
    <2> QED
        BY <2>1, <2>2, <2>3, <2>4, <2>5 DEF Next
<1> QED
    BY <1>1, TypeCorrect, StaleRowsTheorem, PTL DEF Spec, IndexTrapNeedsShrink

-----------------------------------------------------------------------------
\* The rows after a page was put in place of the list, or at its end.
LEMMA RowsOfAppend ==
    ASSUME NEW m \in PageOf, NEW list \in Seq(PageOf)
    PROVE  /\ \A i \in DOMAIN Results(m) : Results(m)[i] = m
           /\ \A i \in DOMAIN (list \o Results(m)) :
                 \/ i \in DOMAIN list /\ (list \o Results(m))[i] = list[i]
                 \/ (list \o Results(m))[i] = m
<1>1. CASE Results(m) = <<m>>
    <2>1. list \o <<m>> = Append(list, m)
        OBVIOUS
    <2>2. \A i \in DOMAIN Append(list, m) :
              \/ i \in DOMAIN list /\ Append(list, m)[i] = list[i]
              \/ Append(list, m)[i] = m
        OBVIOUS
    <2> QED
        BY <1>1, <2>1, <2>2
<1>2. CASE Results(m) = <<>>
    <2>1. list \o <<>> = list
        OBVIOUS
    <2> QED
        BY <1>2, <2>1
<1> QED
    BY <1>1, <1>2 DEF Results

\* Asking and answering leave the other requests alone.
LEMMA AskCounts ==
    ASSUME asked \in [PageOf -> Nat], NEW s \in Source, NEW p \in Page, Ask(s, p)
    PROVE  /\ PageAt(s, p) \in PageOf /\ asked'[PageAt(s, p)] > 0
           /\ \A m \in PageOf : asked'[m] >= asked[m]
           /\ \A m \in PageOf : m # PageAt(s, p) => asked'[m] = asked[m]
<1> PageAt(s, p) \in PageOf
    BY DEF PageAt, PageOf
<1> QED
    BY DEF Ask

\* A reply takes from its own counter and from no other.
LEMMA AnsweredCounts ==
    ASSUME asked \in [PageOf -> Nat], NEW m \in PageOf, asked[m] > 0, Answered(m)
    PROVE  /\ \A p \in PageOf : asked'[p] <= asked[p]
           /\ \A p \in PageOf : p # m => asked'[p] = asked[p]
BY DEF Answered

\* The actions that leave the list, the mode and the cursor alone.
QuietStep ==
    \/ GenresReply \/ GenresMissing \/ Notify \/ Pull \/ PopularScope
    \/ Logout \/ Layout \/ ReloadTimer
    \/ \E m \in PageOf : ListOtherError(m)
    \/ \E t \in Query \cup {NoText} : EditText(t)
    \/ \E i \in 1..shown : RowTrap(i) \/ SelectRow(i) \/ DisplayLastRow(i)

\* Such a step changes none of the three.
LEMMA QuietSteps == QuietStep => UNCHANGED model
BY DEF QuietStep, GenresReply, GenresMissing, Notify, Pull, PopularScope, Logout,
    Layout, ReloadTimer, ListOtherError, EditText, RowTrap, SelectRow, DisplayLastRow

\* Every step is one of those, or one of these.
LEMMA Steps ==
    ASSUME [Next]_vars
    PROVE  \/ UNCHANGED vars \/ QuietStep
           \/ \E m \in PageOf, hasResults \in BOOLEAN :
                   ListPage(m, hasResults) \/ SearchPage(m, hasResults)
           \/ \E m \in PageOf :
                   ListServiceError(m) \/ SearchServiceError(m) \/ SearchOtherError(m)
           \/ DetailsReply \/ SearchClicked \/ Restart
BY DEF Next, QuietStep

(***************************************************************************)
(* Popular movies and search results come to stand in one list only after  *)
(* the mode and the rows parted, and they part by the named replies alone: *)
(* popular rows are kept in the search mode by a search that fails with an *)
(* error that is not a ServiceError, search results outside it by a        *)
(* details reply or a popular page's ServiceError.  Every other handler    *)
(* that changes the mode replaces the rows or empties the list, and a page *)
(* is appended in its own mode only.                                       *)
(***************************************************************************)
THEOREM MixedRowsTheorem == Spec => OnlyNamedRepliesMixRows
<1>1. ASSUME TypeOK, [Next]_vars, SearchRowsOnly, ~SearchRowsOnly'
      PROVE  ~searching /\ \E m \in PageOf : SearchOtherError(m)
    <2>1. ~ UNCHANGED model /\ ~ UNCHANGED vars /\ searching' /\ movieList' # <<>>
        BY <1>1 DEF SearchRowsOnly, model, vars
    <2>2. ASSUME NEW m \in PageOf, NEW hasResults \in BOOLEAN PROVE ~ListPage(m, hasResults)
        BY <1>1, <2>1 DEF ListPage, SearchRowsOnly
    <2>3. ASSUME NEW m \in PageOf, NEW hasResults \in BOOLEAN, SearchPage(m, hasResults)
          PROVE  FALSE
        <3>1. m.src \in Query /\ movieList \in Seq(PageOf)
            BY <1>1, <2>3 DEF SearchPage, TypeOK
        <3>2. CASE ~hasResults
            BY <1>1, <2>3, <3>2 DEF SearchPage, SearchRowsOnly
        <3>3. CASE hasResults /\ searching
            BY <1>1, <2>3, <3>1, <3>3, RowsOfAppend DEF SearchPage, SearchRowsOnly
        <3>4. CASE hasResults /\ ~searching
            BY <1>1, <2>3, <3>1, <3>4, RowsOfAppend DEF SearchPage, SearchRowsOnly
        <3> QED
            BY <3>2, <3>3, <3>4
    <2>4. ASSUME NEW m \in PageOf PROVE ~ListServiceError(m) /\ ~SearchServiceError(m)
        BY <2>1 DEF ListServiceError, SearchServiceError
    <2>5. ~DetailsReply /\ ~SearchClicked /\ ~Restart
        BY <2>1 DEF DetailsReply, SearchClicked, Restart
    <2>6. PICK m \in PageOf : SearchOtherError(m)
        BY <1>1, <2>1, <2>2, <2>3, <2>4, <2>5, Steps, QuietSteps
    <2>7. ~searching
        BY <1>1, <2>6 DEF SearchOtherError, SearchRowsOnly
    <2> QED
        BY <2>6, <2>7
<1>2. ASSUME TypeOK, [Next]_vars, PopularRowsOnly, ~PopularRowsOnly'
      PROVE  searching /\ (DetailsReply \/ \E m \in PageOf : ListServiceError(m))
    <2>1. ~ UNCHANGED model /\ ~ UNCHANGED vars /\ ~searching' /\ movieList' # <<>>
        BY <1>2 DEF PopularRowsOnly, model, vars
    <2>2. ASSUME NEW m \in PageOf, NEW hasResults \in BOOLEAN, ListPage(m, hasResults)
          PROVE  FALSE
        <3>1. m.src = Popular /\ movieList \in Seq(PageOf)
            BY <1>2, <2>2 DEF ListPage, TypeOK
        <3>2. CASE ~hasResults
            BY <1>2, <2>2, <3>2 DEF ListPage, PopularRowsOnly, TypeOK
        <3>3. CASE hasResults /\ searching
            BY <1>2, <2>2, <3>1, <3>3, RowsOfAppend DEF ListPage, PopularRowsOnly
        <3>4. CASE hasResults /\ ~searching
            BY <1>2, <2>2, <3>1, <3>4, RowsOfAppend DEF ListPage, PopularRowsOnly
        <3> QED
            BY <3>2, <3>3, <3>4
    <2>3. ASSUME NEW m \in PageOf, NEW hasResults \in BOOLEAN PROVE ~SearchPage(m, hasResults)
        BY <1>2, <2>1 DEF SearchPage, PopularRowsOnly
    <2>4. ASSUME NEW m \in PageOf PROVE ~SearchServiceError(m) /\ ~SearchOtherError(m)
        BY <2>1 DEF SearchServiceError, SearchOtherError
    <2>5. ~SearchClicked /\ ~Restart
        BY <2>1 DEF SearchClicked, Restart
    <2>6. DetailsReply \/ \E m \in PageOf : ListServiceError(m)
        BY <1>2, <2>1, <2>2, <2>3, <2>4, <2>5, Steps, QuietSteps
    <2>7. searching
        BY <1>2, <2>6 DEF DetailsReply, ListServiceError, PopularRowsOnly
    <2> QED
        BY <2>6, <2>7
<1>3. ASSUME TypeOK, [Next]_vars, SearchRowsOnly, PopularRowsOnly, ~Mixed, Mixed'
      PROVE  FALSE
    <2>1. movieList' # movieList /\ movieList' # <<>>
        BY <1>3 DEF Mixed
    <2>2. movieList \in Seq(PageOf) /\ Popular \notin Query
        BY <1>3, MovieListAssumption DEF TypeOK
    <2>3. ASSUME NEW m \in PageOf, NEW hasResults \in BOOLEAN, ListPage(m, hasResults)
          PROVE  FALSE
        <3>1. m.src = Popular /\ hasResults
            BY <2>1, <2>3 DEF ListPage
        <3>2. \A i \in DOMAIN movieList' : movieList'[i].src = Popular
            <4>1. CASE searching
                BY <2>2, <2>3, <3>1, <4>1, RowsOfAppend DEF ListPage
            <4>2. CASE ~searching
                BY <1>3, <2>2, <2>3, <3>1, <4>2, RowsOfAppend DEF ListPage, PopularRowsOnly
            <4> QED
                BY <4>1, <4>2
        <3> QED
            BY <1>3, <2>2, <3>2 DEF Mixed
    <2>4. ASSUME NEW m \in PageOf, NEW hasResults \in BOOLEAN, SearchPage(m, hasResults)
          PROVE  FALSE
        <3>1. m.src \in Query /\ hasResults
            BY <2>1, <2>4 DEF SearchPage
        <3>2. \A i \in DOMAIN movieList' : movieList'[i].src \in Query
            <4>1. CASE searching
                BY <1>3, <2>2, <2>4, <3>1, <4>1, RowsOfAppend DEF SearchPage, SearchRowsOnly
            <4>2. CASE ~searching
                BY <2>2, <2>4, <3>1, <4>2, RowsOfAppend DEF SearchPage
            <4> QED
                BY <4>1, <4>2
        <3> QED
            BY <1>3, <2>2, <3>2 DEF Mixed
    <2>5. ASSUME NEW m \in PageOf
          PROVE  ~ListServiceError(m) /\ ~SearchServiceError(m) /\ ~SearchOtherError(m)
        BY <2>1 DEF ListServiceError, SearchServiceError, SearchOtherError
    <2>6. ~DetailsReply /\ ~SearchClicked /\ ~Restart
        BY <2>1 DEF DetailsReply, SearchClicked, Restart
    <2>7. ~ UNCHANGED model /\ ~ UNCHANGED vars
        BY <2>1 DEF model, vars
    <2> QED
        BY <1>3, <2>3, <2>4, <2>5, <2>6, <2>7, Steps, QuietSteps
<1>4. TypeOK /\ [Next]_vars =>
        [/\ SearchRowsOnly /\ ~SearchRowsOnly' =>
              ~searching /\ \E m \in PageOf : SearchOtherError(m)
         /\ PopularRowsOnly /\ ~PopularRowsOnly' =>
              searching /\ (DetailsReply \/ \E m \in PageOf : ListServiceError(m))
         /\ ~Mixed /\ Mixed' => ~SearchRowsOnly \/ ~PopularRowsOnly]_vars
    BY <1>1, <1>2, <1>3
<1> QED
    BY <1>4, TypeCorrect, PTL DEF Spec, OnlyNamedRepliesMixRows

(***************************************************************************)
(* Mode and cursor come to disagree only when a details reply or a failed  *)
(* popular page ends the mode under search results: every page that        *)
(* arrives sets both, and every other failure drops the cursor.            *)
(***************************************************************************)
THEOREM SplitModeTheorem == Spec => OnlyLeavingSplitsMode
<1>1. TypeOK /\ [Next]_vars
        => [ModeMatchesCursor /\ ~ModeMatchesCursor' =>
                /\ searching /\ movie.src \in Query
                /\ DetailsReply \/ \E m \in PageOf : ListServiceError(m)]_vars
    <2> SUFFICES ASSUME TypeOK, [Next]_vars, ModeMatchesCursor, ~ModeMatchesCursor'
                 PROVE  /\ searching /\ movie.src \in Query
                        /\ DetailsReply \/ \E m \in PageOf : ListServiceError(m)
        OBVIOUS
    <2>1. ~ UNCHANGED model /\ ~ UNCHANGED vars
        BY DEF ModeMatchesCursor, model, vars
    <2>2. movie' # NoMovies
        BY DEF ModeMatchesCursor
    <2>3. ASSUME NEW m \in PageOf, NEW hasResults \in BOOLEAN,
                 ListPage(m, hasResults) \/ SearchPage(m, hasResults)
          PROVE  FALSE
        <3>1. hasResults /\ movie' = m
            BY <2>2, <2>3 DEF ListPage, SearchPage
        <3>2. CASE ListPage(m, hasResults)
            <4> movie'.src \notin Query /\ ~searching'
                BY <3>1, <3>2, MovieListAssumption DEF ListPage
            <4> QED
                BY DEF ModeMatchesCursor
        <3>3. CASE SearchPage(m, hasResults)
            <4> movie'.src \in Query /\ searching'
                BY <3>1, <3>3 DEF SearchPage
            <4> QED
                BY DEF ModeMatchesCursor
        <3> QED
            BY <2>3, <3>2, <3>3
    <2>4. ASSUME NEW m \in PageOf PROVE ~SearchServiceError(m) /\ ~SearchOtherError(m)
        BY <2>2 DEF SearchServiceError, SearchOtherError
    <2>5. ~SearchClicked /\ ~Restart
        BY <2>2 DEF SearchClicked, Restart
    <2>6. DetailsReply \/ \E m \in PageOf : ListServiceError(m)
        BY <2>1, <2>3, <2>4, <2>5, Steps, QuietSteps
    <2>7. movie' = movie /\ ~searching'
        BY <2>6 DEF DetailsReply, ListServiceError
    <2>8. searching /\ movie.src \in Query
        BY <2>2, <2>7 DEF ModeMatchesCursor, TypeOK
    <2> QED
        BY <2>6, <2>8
<1> QED
    BY <1>1, TypeCorrect, PTL DEF Spec, OnlyLeavingSplitsMode

(***************************************************************************)
(* The spinner is left turning only by a popular page that fails with an   *)
(* error that is not a ServiceError: a page that arrives schedules the     *)
(* block that stops it, a ServiceError stops it at once, and no reply to a *)
(* search takes a popular page out of flight.                              *)
(***************************************************************************)
THEOREM SpinnerTheorem == Spec => OnlyOddErrorsHangSpinner
<1>1. TypeOK /\ [Next]_vars
        => [SpinnerHasReason /\ ~SpinnerHasReason' => \E m \in PageOf : ListOtherError(m)]_vars
    <2> SUFFICES ASSUME TypeOK, [Next]_vars, SpinnerHasReason,
                        ~ \E m \in PageOf : ListOtherError(m)
                 PROVE  SpinnerHasReason'
        OBVIOUS
    <2> Popular \in Source /\ Query \subseteq Source /\ 1 \in Page /\ Popular \notin Query
        BY MovieListAssumption DEF Source, Page
    <2>0. asked \in [PageOf -> Nat] /\ timers \in Nat
        BY DEF TypeOK
    <2>1. ASSUME ~refreshing' \/ timers' > 0 PROVE SpinnerHasReason'
        BY <2>1 DEF SpinnerHasReason
    <2>2. ASSUME refreshing' = refreshing, timers' = timers,
                 \A p \in PageOf : p.src = Popular /\ asked[p] > 0 => asked'[p] > 0
          PROVE  SpinnerHasReason'
        BY <2>2 DEF SpinnerHasReason
    <2>3. ASSUME NEW m \in PageOf, NEW hasResults \in BOOLEAN, ListPage(m, hasResults)
          PROVE  SpinnerHasReason'
        <3> timers' > 0
            BY <2>0, <2>3 DEF ListPage
        <3> QED
            BY <2>1
    <2>4. ASSUME NEW m \in PageOf, m.src \in Query, asked[m] > 0, Answered(m), UNCHANGED <<refreshing, timers>>
          PROVE  SpinnerHasReason'
        <3> \A p \in PageOf : p.src = Popular => asked'[p] = asked[p]
            BY <2>0, <2>4, AnsweredCounts
        <3> QED
            BY <2>2, <2>4
    <2>5. ASSUME NEW m \in PageOf, NEW hasResults \in BOOLEAN, SearchPage(m, hasResults)
          PROVE  SpinnerHasReason'
        BY <2>4, <2>5 DEF SearchPage
    <2>6. ASSUME NEW m \in PageOf, SearchServiceError(m) \/ SearchOtherError(m)
          PROVE  SpinnerHasReason'
        BY <2>4, <2>6 DEF SearchServiceError, SearchOtherError, view
    <2>7. ASSUME NEW m \in PageOf, ListServiceError(m) PROVE SpinnerHasReason'
        BY <2>1, <2>7 DEF ListServiceError
    <2>8. CASE Restart \/ ReloadTimer
        BY <2>1, <2>8 DEF Restart, ReloadTimer
    <2>9. ASSUME NEW s \in Source, NEW p \in Page, Ask(s, p), UNCHANGED <<refreshing, timers>>
          PROVE  SpinnerHasReason'
        <3> \A m \in PageOf : asked[m] > 0 => asked'[m] > 0
            BY <2>0, <2>9, AskCounts
        <3> QED
            BY <2>2, <2>9
    <2>10. CASE Pull
        <3> PageAt(Popular, 1) \in PageOf /\ asked'[PageAt(Popular, 1)] > 0
            BY <2>0, <2>10, AskCounts DEF Pull
        <3> PageAt(Popular, 1).src = Popular
            BY DEF PageAt
        <3> QED
            BY DEF SpinnerHasReason
    <2>11. CASE PopularScope
        BY <2>9, <2>11 DEF PopularScope, view
    <2>12. CASE SearchClicked
        <3> searchText \in Source
            BY <2>12 DEF SearchClicked, TypeOK
        <3> QED
            BY <2>9, <2>12 DEF SearchClicked, view
    <2>13. ASSUME NEW i \in 1..shown, DisplayLastRow(i) PROVE SpinnerHasReason'
        <3>1. movie.page + 1 \in Page
            BY <2>13, MovieListAssumption DEF DisplayLastRow, PageOf, Page, TypeOK
        <3>2. PICK s \in Source : Ask(s, movie.page + 1)
            BY <2>13 DEF DisplayLastRow, TypeOK
        <3> QED
            BY <2>9, <2>13, <3>1, <3>2 DEF DisplayLastRow, view
    <2>14. CASE Notify
        <3>1. CASE Freed
            BY <2>2, <2>14, <3>1 DEF Notify, view
        <3>2. CASE ~Freed
            BY <2>9, <2>14, <3>2 DEF Notify, view
        <3> QED
            BY <3>1, <3>2
    <2>15. ASSUME UNCHANGED <<asked, refreshing, timers>> PROVE SpinnerHasReason'
        BY <2>15 DEF SpinnerHasReason
    <2>16. CASE GenresReply \/ GenresMissing \/ DetailsReply \/ Logout \/ Layout
        BY <2>15, <2>16 DEF GenresReply, GenresMissing, DetailsReply, Logout, Layout, network, view
    <2>17. ASSUME NEW t \in Query \cup {NoText}, EditText(t) PROVE SpinnerHasReason'
        BY <2>15, <2>17 DEF EditText, network
    <2>18. ASSUME NEW i \in 1..shown, RowTrap(i) \/ SelectRow(i) PROVE SpinnerHasReason'
        BY <2>15, <2>18 DEF RowTrap, SelectRow, network, view
    <2>19. CASE UNCHANGED vars
        BY <2>15, <2>19 DEF vars, network, view
    <2> QED
        BY <2>3, <2>5, <2>6, <2>7, <2>8, <2>10, <2>11, <2>12, <2>13, <2>14, <2>16,
           <2>17, <2>18, <2>19 DEF Next
<1> QED
    BY <1>1, TypeCorrect, PTL DEF Spec, OnlyOddErrorsHangSpinner

-----------------------------------------------------------------------------
(***************************************************************************)
(* Why a settled search is pure: no page of another query is in flight     *)
(* either, so that none can be appended or asked for.                      *)
(***************************************************************************)
SettledInv ==
    settled => /\ \A i \in DOMAIN movieList : movieList[i].src \in {Popular, searchText}
               /\ \A m \in PageOf : asked[m] > 0 => m.src \in {Popular, searchText}

\* A search comes to be settled by the search button or a new controller only.
LEMMA SettledByClick ==
    ASSUME [Next]_vars, ~settled, ~SearchClicked, ~Restart
    PROVE  ~settled'
<1>1. ASSUME NEW t \in Query \cup {NoText}, EditText(t) PROVE ~settled'
    BY <1>1 DEF EditText
<1>2. ASSUME \A t \in Query \cup {NoText} : ~EditText(t) PROVE ~settled'
    BY <1>2 DEF Next, vars, GenresReply, GenresMissing, Notify, ListPage, SearchPage,
        ListServiceError, ListOtherError, SearchServiceError, SearchOtherError,
        DetailsReply, Pull, PopularScope, Logout, RowTrap, SelectRow, DisplayLastRow,
        Layout, ReloadTimer, process
<1> QED
    BY <1>1, <1>2

(***************************************************************************)
(* A settled search lists what it found: while it is in the search mode,   *)
(* every row is a result of the text in the bar.                           *)
(***************************************************************************)
SettledSearchListed ==
    settled /\ searching => \A i \in DOMAIN movieList : movieList[i].src = searchText

\* Popular rows stay listed in a settled search by an odd failure of it alone.
OnlyOddErrorsSpoilSearch ==
    [][SettledSearchListed /\ ~SettledSearchListed' =>
        ~searching /\ \E m \in PageOf : SearchOtherError(m)]_vars

(***************************************************************************)
(* While a search is settled, no rows of another query are listed; popular *)
(* rows may be.  In the search mode they are so only after the search      *)
(* failed with an error that is not a ServiceError and kept them: up to    *)
(* then, whatever else happens, every row is a result of the text.         *)
(***************************************************************************)
THEOREM SettledTheorem == Spec => []SettledSearchIsPure /\ OnlyOddErrorsSpoilSearch
<1>1. Init => SettledInv
    BY DEF Init, SettledInv
<1>2. TypeOK /\ SettledInv /\ [Next]_vars => SettledInv'
    <2> SUFFICES ASSUME TypeOK, SettledInv, [Next]_vars PROVE SettledInv'
        OBVIOUS
    <2> Popular \in Source /\ Query \subseteq Source /\ 1 \in Page
        BY MovieListAssumption DEF Source, Page
    <2>0. asked \in [PageOf -> Nat] /\ movieList \in Seq(PageOf)
        BY DEF TypeOK
    <2>1. ASSUME ~settled' PROVE SettledInv'
        BY <2>1 DEF SettledInv
    <2>2. ASSUME settled, settled' = settled, searchText' = searchText,
                 \A m \in PageOf : asked'[m] > 0 => asked[m] > 0 \/ m.src \in {Popular, searchText},
                 \A i \in DOMAIN movieList' :
                    \/ i \in DOMAIN movieList /\ movieList'[i] = movieList[i]
                    \/ movieList'[i].src \in {Popular, searchText}
          PROVE  SettledInv'
        BY <2>2 DEF SettledInv
    <2>3. ASSUME NEW s \in {Popular, searchText}, s \in Source, NEW p \in Page, Ask(s, p),
                 settled, UNCHANGED <<movieList, settled, searchText>>
          PROVE  SettledInv'
        <3>1. PageAt(s, p).src = s
            BY DEF PageAt
        <3>2. \A m \in PageOf : asked'[m] > 0 => asked[m] > 0 \/ m.src \in {Popular, searchText}
            BY <2>0, <2>3, <3>1, AskCounts
        <3> QED
            BY <2>2, <2>3, <3>2
    <2>4. ASSUME NEW m \in PageOf, asked[m] > 0, Answered(m),
                 settled, UNCHANGED <<settled, searchText>>,
                 \/ movieList' = movieList \/ movieList' = <<>>
                 \/ movieList' = Results(m) \/ movieList' = movieList \o Results(m)
          PROVE  SettledInv'
        <3>1. m.src \in {Popular, searchText}
            BY <2>4 DEF SettledInv
        <3>2. \A p \in PageOf : asked'[p] > 0 => asked[p] > 0
            <4> asked' \in [PageOf -> Nat]
                BY <2>0, <2>4, AnsweredType
            <4> QED
                BY <2>0, <2>4, AnsweredCounts
        <3>3. \A i \in DOMAIN movieList' :
                  \/ i \in DOMAIN movieList /\ movieList'[i] = movieList[i]
                  \/ movieList'[i].src \in {Popular, searchText}
            <4>1. CASE movieList' = movieList \/ movieList' = <<>>
                BY <4>1
            <4>2. CASE movieList' = Results(m)
                BY <2>0, <3>1, <4>2, RowsOfAppend
            <4>3. CASE movieList' = movieList \o Results(m)
                BY <2>0, <3>1, <4>3, RowsOfAppend
            <4> QED
                BY <2>4, <4>1, <4>2, <4>3
        <3> QED
            BY <2>2, <2>4, <3>2, <3>3
    <2>5. ASSUME settled, UNCHANGED <<movieList, asked, settled, searchText>> PROVE SettledInv'
        BY <2>5 DEF SettledInv
    <2>6. CASE SearchClicked
        <3>0. settled' => \A m \in PageOf : m.src \in Query => asked[m] = 0
            BY <2>6, Zenon DEF SearchClicked
        <3>1. searchText \in Source /\ searchText \in Query
            BY <2>6 DEF SearchClicked, TypeOK
        <3>2. \A m \in PageOf :
                  asked'[m] > 0 => asked[m] > 0 \/ m = PageAt(searchText, 1)
            BY <2>0, <2>6, <3>1, AskCounts DEF SearchClicked
        <3>3. PageAt(searchText, 1).src = searchText
            BY DEF PageAt
        <3>4. ASSUME settled', NEW m \in PageOf, asked'[m] > 0
              PROVE  m.src \in {Popular, searchText}
            <4>1. CASE m = PageAt(searchText, 1)
                BY <3>3, <4>1
            <4>2. CASE asked[m] > 0
                <5> m.src \notin Query
                    BY <2>0, <3>0, <3>4, <4>2
                <5> QED
                    BY DEF PageOf, Source
            <4> QED
                BY <3>2, <3>4, <4>1, <4>2
        <3>5. movieList' = <<>> /\ searchText' = searchText
            BY <2>6 DEF SearchClicked, view
        <3> QED
            BY <3>4, <3>5 DEF SettledInv
    <2>7. ASSUME NEW t \in Query \cup {NoText}, EditText(t) PROVE SettledInv'
        BY <2>1, <2>7 DEF EditText
    <2>8. CASE Restart
        BY <2>8 DEF Restart, SettledInv
    <2>9. ASSUME ~SearchClicked, ~Restart, \A t \in Query \cup {NoText} : ~EditText(t),
                 settled
          PROVE  SettledInv'
        <3>1. ASSUME NEW m \in PageOf, NEW hasResults \in BOOLEAN,
                     ListPage(m, hasResults) \/ SearchPage(m, hasResults)
              PROVE  SettledInv'
            BY <2>4, <2>9, <3>1 DEF ListPage, SearchPage, process
        <3>2. ASSUME NEW m \in PageOf,
                     \/ ListServiceError(m) \/ ListOtherError(m)
                     \/ SearchServiceError(m) \/ SearchOtherError(m)
              PROVE  SettledInv'
            BY <2>4, <2>9, <3>2 DEF ListServiceError, ListOtherError, SearchServiceError,
                SearchOtherError, model, view, process
        <3>3. CASE Pull \/ PopularScope
            BY <2>3, <2>9, <3>3 DEF Pull, PopularScope, model, view, process
        <3>4. CASE Notify
            <4>1. CASE Freed
                BY <2>5, <2>9, <3>4, <4>1 DEF Notify, model, view
            <4>2. CASE ~Freed
                BY <2>3, <2>9, <3>4, <4>2 DEF Notify, model, view
            <4> QED
                BY <4>1, <4>2
        <3>5. ASSUME NEW i \in 1..shown, DisplayLastRow(i) PROVE SettledInv'
            <4>1. movie.page + 1 \in Page
                BY <3>5, MovieListAssumption DEF DisplayLastRow, PageOf, Page, TypeOK
            <4>2. PICK s \in {Popular, searchText} : s \in Source /\ Ask(s, movie.page + 1)
                BY <3>5 DEF DisplayLastRow, TypeOK
            <4> QED
                BY <2>3, <2>9, <3>5, <4>1, <4>2 DEF DisplayLastRow, model, view, process
        <3>6. CASE GenresReply \/ GenresMissing \/ DetailsReply \/ Logout \/ Layout \/ ReloadTimer
            BY <2>5, <2>9, <3>6 DEF GenresReply, GenresMissing, DetailsReply, Logout, Layout,
                ReloadTimer, model, network, view, process
        <3>7. ASSUME NEW i \in 1..shown, RowTrap(i) \/ SelectRow(i) PROVE SettledInv'
            BY <2>5, <2>9, <3>7 DEF RowTrap, SelectRow, model, network, view, process
        <3>8. CASE UNCHANGED vars
            BY <2>5, <2>9, <3>8 DEF vars, model, network, view, process
        <3> QED
            BY <2>9, <3>1, <3>2, <3>3, <3>4, <3>5, <3>6, <3>7, <3>8 DEF Next
    <2>10. ASSUME ~settled, ~SearchClicked, ~Restart
           PROVE  ~settled'
        BY <2>10, SettledByClick
    <2> QED
        BY <2>1, <2>6, <2>7, <2>8, <2>9, <2>10
<1>3. SettledInv => SettledSearchIsPure
    BY DEF SettledInv, SettledSearchIsPure
<1>4. ASSUME TypeOK, SettledSearchIsPure', TypeOK', [Next]_vars,
             SettledSearchListed, ~SettledSearchListed',
             SearchRowsOnly /\ ~SearchRowsOnly' =>
                 ~searching /\ \E m \in PageOf : SearchOtherError(m)
      PROVE  ~searching /\ \E m \in PageOf : SearchOtherError(m)
    <2>1. PICK i \in DOMAIN movieList' : movieList'[i].src # searchText'
        BY <1>4 DEF SettledSearchListed
    <2>2. movieList'[i].src = Popular /\ searching' /\ settled'
        BY <1>4, <2>1 DEF SettledSearchListed, SettledSearchIsPure
    <2>3. ~SearchRowsOnly'
        BY <2>1, <2>2, MovieListAssumption DEF SearchRowsOnly
    <2>4. CASE ~searching
        BY <1>4, <2>3, <2>4 DEF SearchRowsOnly
    <2>5. CASE searching
        <3>1. settled
            BY <1>4, <2>2, SettledByClick DEF SearchClicked, Restart
        <3>2. SearchRowsOnly
            <4>1. \A j \in DOMAIN movieList : movieList[j] \in PageOf
                BY <1>4 DEF TypeOK
            <4>2. \A j \in DOMAIN movieList : movieList[j].src \in Source
                BY <4>1 DEF PageOf
            <4> NoText \notin Source
                BY MovieListAssumption
            <4> QED
                BY <1>4, <2>5, <3>1, <4>2 DEF SettledSearchListed, SearchRowsOnly, TypeOK
        <3> QED
            BY <1>4, <2>3, <3>2
    <2> QED
        BY <2>4, <2>5
<1>5. SettledSearchIsPure' /\ TypeOK /\ TypeOK' /\ [Next]_vars
      /\ [/\ SearchRowsOnly /\ ~SearchRowsOnly' =>
              ~searching /\ \E m \in PageOf : SearchOtherError(m)
          /\ PopularRowsOnly /\ ~PopularRowsOnly' =>
              searching /\ (DetailsReply \/ \E m \in PageOf : ListServiceError(m))
          /\ ~Mixed /\ Mixed' => ~SearchRowsOnly \/ ~PopularRowsOnly]_vars
      => [SettledSearchListed /\ ~SettledSearchListed' =>
            ~searching /\ \E m \in PageOf : SearchOtherError(m)]_vars
    BY <1>4
<1>6. Spec => []SettledSearchIsPure
    BY <1>1, <1>2, <1>3, TypeCorrect, PTL DEF Spec
<1> QED
    BY <1>5, <1>6, TypeCorrect, MixedRowsTheorem, PTL
        DEF Spec, OnlyNamedRepliesMixRows, OnlyOddErrorsSpoilSearch

-----------------------------------------------------------------------------
(***************************************************************************)
(* What scrolling to the end asks for: the page after the one the last row *)
(* came from, of the same source.                                          *)
(***************************************************************************)
ScrollAsksForNext ==
    [][\A i \in 1..shown :
          DisplayLastRow(i) /\ settled /\ ModeMatchesCursor
                => /\ movieList[i].page < LastPage[movieList[i].src]
                   /\ Ask(movieList[i].src, movieList[i].page + 1)]_vars

(***************************************************************************)
(* willDisplay builds its request from the mode, the text in the bar and   *)
(* the cursor, none of which is the row on display.  While the search is   *)
(* settled and the mode matches the cursor they describe that row: the     *)
(* cursor is the tail of the list, and its results are those of the text.  *)
(***************************************************************************)
THEOREM ScrollTheorem == Spec => ScrollAsksForNext
<1>1. TypeOK /\ CursorIsTail /\ SettledSearchIsPure /\ [Next]_vars
        => [\A i \in 1..shown :
                DisplayLastRow(i) /\ settled /\ ModeMatchesCursor
                    => /\ movieList[i].page < LastPage[movieList[i].src]
                       /\ Ask(movieList[i].src, movieList[i].page + 1)]_vars
    <2> SUFFICES ASSUME TypeOK, CursorIsTail, SettledSearchIsPure,
                        NEW i \in 1..shown, DisplayLastRow(i), settled, ModeMatchesCursor
                 PROVE  /\ movieList[i].page < LastPage[movieList[i].src]
                        /\ Ask(movieList[i].src, movieList[i].page + 1)
        OBVIOUS
    <2>1. movie # NoMovies /\ movie \in PageOf /\ LastPage[movie.src] > movie.page
        BY DEF DisplayLastRow, TypeOK
    <2>2. movie.page \in Nat /\ LastPage[movie.src] \in Nat /\ movie.src \in Source
        BY <2>1, MovieListAssumption DEF PageOf, Page
    <2>3. movieList # <<>> /\ i = Len(movieList) /\ movieList[i] = movie
        BY <2>1, <2>2 DEF CursorIsTail, DisplayLastRow
    <2>4. i \in DOMAIN movieList
        BY <2>3 DEF TypeOK
    <2>5. movie.src \in {Popular, searchText}
        BY <2>3, <2>4 DEF SettledSearchIsPure
    <2>6. CASE movie.src \in Query
        <3>1. searching /\ movie.src # Popular
            BY <2>1, <2>6, MovieListAssumption DEF ModeMatchesCursor
        <3>2. Ask(searchText, movie.page + 1) /\ movie.src = searchText
            BY <2>5, <3>1 DEF DisplayLastRow
        <3> QED
            BY <2>1, <2>2, <2>3, <3>2
    <2>7. CASE movie.src = Popular
        <3>1. ~searching
            BY <2>1, <2>7, MovieListAssumption DEF ModeMatchesCursor
        <3>2. Ask(Popular, movie.page + 1)
            BY <3>1 DEF DisplayLastRow
        <3> QED
            BY <2>1, <2>2, <2>3, <2>7, <3>2
    <2> QED
        BY <2>2, <2>6, <2>7 DEF Source
<1> QED
    BY <1>1, TypeCorrect, CursorTheorem, SettledTheorem, PTL DEF Spec, ScrollAsksForNext

-----------------------------------------------------------------------------
(***************************************************************************)
(* A user who never presses the search button.  The list then only grows,  *)
(* and the view never holds more rows than the list.                       *)
(***************************************************************************)
BrowsingSpec == Init /\ [][Next /\ ~SearchClicked]_vars

BrowsingInv ==
    /\ ~searching
    /\ \A m \in PageOf : asked[m] > 0 => m.src = Popular
    /\ shown <= Len(movieList)
    /\ trap # "index"

\* Appending a page makes the list no shorter.
LEMMA AppendGrows ==
    ASSUME NEW m \in PageOf, NEW list \in Seq(PageOf)
    PROVE  Len(list \o Results(m)) >= Len(list)
BY ResultsType

(***************************************************************************)
(* Without a search no row is ever asked for past the end of the list: the *)
(* index trap is the work of the handlers that empty or replace the list   *)
(* before a reload, and all of those need a search.                        *)
(***************************************************************************)
THEOREM BrowsingTheorem == BrowsingSpec => []RowsInRange
<1>1. Init => BrowsingInv
    BY DEF Init, BrowsingInv
<1>2. TypeOK /\ BrowsingInv /\ [Next /\ ~SearchClicked]_vars => BrowsingInv'
    <2> SUFFICES ASSUME TypeOK, BrowsingInv, [Next /\ ~SearchClicked]_vars
                 PROVE  BrowsingInv'
        OBVIOUS
    <2> Popular \in Source /\ 1 \in Page /\ Popular \notin Query
        BY MovieListAssumption DEF Source, Page
    <2>0. /\ asked \in [PageOf -> Nat] /\ movieList \in Seq(PageOf)
          /\ shown \in Nat /\ shown <= Len(movieList) /\ trap # "index" /\ ~searching
        BY DEF TypeOK, BrowsingInv
    <2>1. ASSUME NEW m \in PageOf, asked[m] > 0 PROVE m.src = Popular
        BY <2>1 DEF BrowsingInv
    <2>2. ASSUME ~searching', shown' = shown, trap' # "index",
                 Len(movieList') >= Len(movieList), Len(movieList') \in Nat,
                 \A m \in PageOf : asked'[m] > 0 => asked[m] > 0 \/ m.src = Popular
          PROVE  BrowsingInv'
        <3>1. \A m \in PageOf : asked'[m] > 0 => m.src = Popular
            BY <2>1, <2>2
        <3>2. shown' <= Len(movieList')
            BY <2>0, <2>2
        <3> QED
            BY <2>2, <3>1, <3>2 DEF BrowsingInv
    <2>3. ASSUME NEW p \in Page, Ask(Popular, p)
          PROVE  \A m \in PageOf : asked'[m] > 0 => asked[m] > 0 \/ m.src = Popular
        <3> PageAt(Popular, p).src = Popular
            BY DEF PageAt
        <3> QED
            BY <2>0, <2>3, AskCounts
    <2>4. ASSUME NEW m \in PageOf, asked[m] > 0, Answered(m)
          PROVE  \A p \in PageOf : asked'[p] > 0 => asked[p] > 0
        <3> asked' \in [PageOf -> Nat]
            BY <2>0, <2>4, AnsweredType
        <3> QED
            BY <2>0, <2>4, AnsweredCounts
    <2>5. Len(movieList) \in Nat
        BY <2>0
    <2>6. ASSUME NEW m \in PageOf, NEW hasResults \in BOOLEAN, ListPage(m, hasResults)
          PROVE  BrowsingInv'
        <3>1. ~searching' /\ shown' = shown /\ trap' # "index"
            BY <2>0, <2>6 DEF ListPage, process
        <3>2. movieList' = movieList \/ movieList' = movieList \o Results(m)
            BY <2>0, <2>6 DEF ListPage
        <3>3. Len(movieList') >= Len(movieList) /\ Len(movieList') \in Nat
            BY <2>0, <2>5, <3>2, AppendGrows, ResultsType
        <3>4. \A p \in PageOf : asked'[p] > 0 => asked[p] > 0
            BY <2>4, <2>6 DEF ListPage
        <3> QED
            BY <2>2, <3>1, <3>3, <3>4
    <2>7. ASSUME NEW m \in PageOf
          PROVE  /\ \A hasResults \in BOOLEAN : ~SearchPage(m, hasResults)
                 /\ ~SearchServiceError(m) /\ ~SearchOtherError(m)
        BY <2>1 DEF SearchPage, SearchServiceError, SearchOtherError
    <2>8. ASSUME NEW m \in PageOf, ListServiceError(m) \/ ListOtherError(m)
          PROVE  BrowsingInv'
        <3>1. \A p \in PageOf : asked'[p] > 0 => asked[p] > 0
            BY <2>4, <2>8 DEF ListServiceError, ListOtherError
        <3>2. UNCHANGED <<movieList, shown, trap>> /\ ~searching'
            BY <2>0, <2>8 DEF ListServiceError, ListOtherError, model, view, process
        <3> QED
            BY <2>0, <2>2, <2>5, <3>1, <3>2
    <2>9. ASSUME UNCHANGED <<movieList, shown, asked>>, ~searching', trap' # "index"
          PROVE  BrowsingInv'
        BY <2>2, <2>5, <2>9
    <2>10. CASE GenresReply \/ GenresMissing \/ DetailsReply \/ Logout \/ ReloadTimer
        BY <2>0, <2>9, <2>10 DEF GenresReply, GenresMissing, DetailsReply, Logout,
            ReloadTimer, model, network, view, process
    <2>11. CASE Pull \/ PopularScope
        BY <2>0, <2>2, <2>3, <2>5, <2>11 DEF Pull, PopularScope, model, view, process
    <2>12. CASE Notify
        <3>1. CASE Freed
            BY <2>0, <2>9, <2>12, <3>1 DEF Notify, model, view
        <3>2. CASE ~Freed
            BY <2>0, <2>2, <2>3, <2>5, <2>12, <3>2 DEF Notify, model, view
        <3> QED
            BY <3>1, <3>2
    <2>13. ASSUME NEW i \in 1..shown, RowTrap(i) PROVE FALSE
        BY <2>0, <2>5, <2>13 DEF RowTrap
    <2>14. ASSUME NEW i \in 1..shown, SelectRow(i) PROVE BrowsingInv'
        BY <2>0, <2>9, <2>14 DEF SelectRow, model, view, process
    <2>15. ASSUME NEW i \in 1..shown, DisplayLastRow(i) PROVE BrowsingInv'
        <3>1. movie.page + 1 \in Page
            BY <2>15, MovieListAssumption DEF DisplayLastRow, PageOf, Page, TypeOK
        <3>2. Ask(Popular, movie.page + 1)
            BY <2>0, <2>15 DEF DisplayLastRow
        <3> QED
            BY <2>0, <2>2, <2>3, <2>5, <2>15, <3>1, <3>2 DEF DisplayLastRow, model, view, process
    <2>16. ASSUME NEW t \in Query \cup {NoText}, EditText(t) PROVE BrowsingInv'
        BY <2>0, <2>9, <2>16 DEF EditText, model, network
    <2>17. CASE Layout
        BY <2>0, <2>1, <2>17 DEF Layout, BrowsingInv, model, network, process
    <2>18. CASE Restart
        BY <2>18 DEF Restart, BrowsingInv
    <2>19. CASE UNCHANGED vars
        BY <2>0, <2>9, <2>19 DEF vars, model, network, view, process
    <2> QED
        BY <2>6, <2>7, <2>8, <2>10, <2>11, <2>12, <2>13, <2>14, <2>15, <2>16, <2>17,
           <2>18, <2>19 DEF Next
<1>3. BrowsingInv => RowsInRange
    BY DEF BrowsingInv, RowsInRange
<1>4. BrowsingSpec => SafetySpec
    BY PTL DEF BrowsingSpec, SafetySpec
<1> QED
    BY <1>1, <1>2, <1>3, <1>4, TypeInvariant, PTL DEF BrowsingSpec

-----------------------------------------------------------------------------
(***************************************************************************)
(* A user who logs out only once the start-up is over: the genres request  *)
(* was answered, and the block that waited for it has run or never will.   *)
(***************************************************************************)
PatientSpec == Init /\ [][Next /\ (Logout => boot \in {"started", "lost"})]_vars

PatientInv ==
    /\ ~onScreen => boot \in {"started", "lost"}
    /\ trap # "unowned"

(***************************************************************************)
(* Then the notify block always finds its controller: the unowned self is  *)
(* gone only for a logout that overtakes the genres reply or the block.    *)
(***************************************************************************)
THEOREM PatientTheorem == PatientSpec => []NotifyHasOwner
<1>1. Init => PatientInv
    BY DEF Init, PatientInv
<1>2. TypeOK /\ PatientInv /\ [Next /\ (Logout => boot \in {"started", "lost"})]_vars
        => PatientInv'
    <2> SUFFICES ASSUME TypeOK, PatientInv,
                        [Next /\ (Logout => boot \in {"started", "lost"})]_vars
                 PROVE  PatientInv'
        OBVIOUS
    <2>1. ASSUME UNCHANGED <<boot, onScreen>>, trap' # "unowned" PROVE PatientInv'
        BY <2>1 DEF PatientInv
    <2>2. ASSUME UNCHANGED <<boot, onScreen, trap>> PROVE PatientInv'
        BY <2>2 DEF PatientInv
    <2>3. CASE GenresReply \/ GenresMissing
        BY <2>3 DEF GenresReply, GenresMissing, PatientInv, process
    <2>4. CASE Notify
        <3>1. ~Freed
            BY <2>4 DEF Notify, Freed, PatientInv
        <3> QED
            BY <2>4, <3>1 DEF Notify, PatientInv
    <2>5. CASE Logout /\ boot \in {"started", "lost"}
        BY <2>5 DEF Logout, PatientInv, network
    <2>6. CASE Restart
        BY <2>6 DEF Restart, PatientInv
    <2>7. ASSUME NEW m \in PageOf, NEW hasResults \in BOOLEAN,
                 ListPage(m, hasResults) \/ SearchPage(m, hasResults)
          PROVE  PatientInv'
        BY <2>2, <2>7 DEF ListPage, SearchPage, process
    <2>8. ASSUME NEW m \in PageOf,
                 \/ ListServiceError(m) \/ ListOtherError(m)
                 \/ SearchServiceError(m) \/ SearchOtherError(m)
          PROVE  PatientInv'
        BY <2>2, <2>8 DEF ListServiceError, ListOtherError, SearchServiceError,
            SearchOtherError, process
    <2>9. CASE DetailsReply \/ Pull \/ PopularScope \/ SearchClicked \/ Layout \/ ReloadTimer
        BY <2>2, <2>9 DEF DetailsReply, Pull, PopularScope, SearchClicked, Layout,
            ReloadTimer, network, process
    <2>10. ASSUME NEW t \in Query \cup {NoText}, EditText(t) PROVE PatientInv'
        BY <2>2, <2>10 DEF EditText, network
    <2>11. ASSUME NEW i \in 1..shown, RowTrap(i) \/ SelectRow(i) \/ DisplayLastRow(i)
           PROVE  PatientInv'
        <3>1. CASE RowTrap(i)
            BY <2>1, <3>1 DEF RowTrap, network
        <3>2. CASE SelectRow(i) \/ DisplayLastRow(i)
            BY <2>2, <3>2 DEF SelectRow, DisplayLastRow, process
        <3> QED
            BY <2>11, <3>1, <3>2
    <2>12. CASE UNCHANGED vars
        BY <2>2, <2>12 DEF vars, network, process
    <2> QED
        BY <2>3, <2>4, <2>5, <2>6, <2>7, <2>8, <2>9, <2>10, <2>11, <2>12 DEF Next
<1>3. PatientInv => NotifyHasOwner
    BY DEF PatientInv, NotifyHasOwner
<1>4. PatientSpec => SafetySpec
    BY PTL DEF PatientSpec, SafetySpec
<1> QED
    BY <1>1, <1>2, <1>3, <1>4, TypeInvariant, PTL DEF PatientSpec

-----------------------------------------------------------------------------
(***************************************************************************)
(* The conditions under which the fair steps can be taken.  The guards say *)
(* so, but ENABLED cannot be expanded in a proof: the next two theorems    *)
(* have these as hypotheses, and the runs check their conclusions without. *)
(***************************************************************************)
StartCanGoOn ==
    /\ Running /\ boot = "genres" => ENABLED <<GenresReply \/ GenresMissing>>_vars
    /\ trap = "none" /\ boot = "left" => ENABLED <<Notify>>_vars

ReloadsCanRun ==
    /\ Running /\ timers > 0 => ENABLED <<ReloadTimer>>_vars
    /\ Usable /\ dirty => ENABLED <<Layout>>_vars

\* A usable controller handles its replies and timers, and is not replaced.
LEMMA UsableRuns == Usable => Running /\ ~Restart
BY DEF Usable, Running, Freed, Restart

\* Start-up goes on by the reply and the group's block, and by nothing else.
LEMMA StartSteps ==
    ASSUME [Next]_vars, Usable
    PROVE  /\ boot = "genres" => boot' \in {"genres", "left", "lost"}
           /\ boot = "left" => boot' \in {"left", "started"}
<1>1. CASE GenresReply \/ GenresMissing \/ Notify
    BY <1>1 DEF GenresReply, GenresMissing, Notify
<1>2. ASSUME NEW m \in PageOf, NEW hasResults \in BOOLEAN,
             ListPage(m, hasResults) \/ SearchPage(m, hasResults)
      PROVE  boot' = boot
    BY <1>2 DEF ListPage, SearchPage
<1>3. ASSUME NEW m \in PageOf,
             \/ ListServiceError(m) \/ ListOtherError(m)
             \/ SearchServiceError(m) \/ SearchOtherError(m)
      PROVE  boot' = boot
    BY <1>3 DEF ListServiceError, ListOtherError, SearchServiceError, SearchOtherError
<1>4. ASSUME \/ DetailsReply \/ Pull \/ PopularScope \/ SearchClicked \/ Logout
             \/ Layout \/ ReloadTimer \/ UNCHANGED vars
      PROVE  boot' = boot
    BY <1>4 DEF DetailsReply, Pull, PopularScope, SearchClicked, Logout, Layout,
        ReloadTimer, network, vars
<1>5. ASSUME NEW t \in Query \cup {NoText}, EditText(t) PROVE boot' = boot
    BY <1>5 DEF EditText, network
<1>6. ASSUME NEW i \in 1..shown, RowTrap(i) \/ SelectRow(i) \/ DisplayLastRow(i)
      PROVE  boot' = boot
    BY <1>6 DEF RowTrap, SelectRow, DisplayLastRow, network
<1>7. ~Restart
    BY UsableRuns
<1> QED
    BY <1>1, <1>2, <1>3, <1>4, <1>5, <1>6, <1>7 DEF Next

(***************************************************************************)
(* The popular movies are asked for whatever the genres request comes to,  *)
(* unless its reply has no genres or the user leaves first: the reply      *)
(* leaves the group, and leaving it hands the block to a queue.            *)
(***************************************************************************)
THEOREM StartTheorem == Spec /\ []StartCanGoOn => ListGetsAsked
<1> DEFINE Asking  == boot = "genres"
           Leaving == boot = "left"
           Over    == boot \in {"started", "lost"} \/ ~Usable
<1>1. [Next]_vars => /\ Asking /\ ~Over => Asking' \/ Leaving' \/ Over'
                     /\ Leaving /\ ~Over => Leaving' \/ Over'
    BY StartSteps
<1>2. <<GenresReply \/ GenresMissing>>_vars => Leaving' \/ Over'
    BY DEF GenresReply, GenresMissing
<1>3. <<Notify>>_vars => Over'
    BY DEF Notify
<1>4. StartCanGoOn =>
        /\ Asking /\ ~Over => ENABLED <<GenresReply \/ GenresMissing>>_vars
        /\ Leaving /\ ~Over => ENABLED <<Notify>>_vars
    BY UsableRuns DEF StartCanGoOn, Usable
<1>5. ListGetsAsked <=> (Asking ~> Over)
    BY DEF ListGetsAsked
<1> HIDE DEF Asking, Leaving, Over
<1>6. Spec /\ []StartCanGoOn => (Asking ~> Leaving \/ Over)
    BY <1>1, <1>2, <1>4, PTL DEF Spec, Fairness
<1>7. Spec /\ []StartCanGoOn => (Leaving ~> Over)
    BY <1>1, <1>3, <1>4, PTL DEF Spec, Fairness
<1> QED
    BY <1>5, <1>6, <1>7, PTL

\* A pending layout is lost only to the layout, and a scheduled reload only to
\* a pending layout, as long as the controller is usable.
LEMMA ReloadSteps ==
    ASSUME TypeOK, [Next]_vars, Usable
    PROVE  /\ dirty => dirty' \/ shown' = Len(movieList')
           /\ timers > 0 => timers' > 0 \/ dirty'
<1> timers \in Nat
    BY DEF TypeOK
<1>1. CASE Layout
    BY <1>1 DEF Layout, model
<1>2. CASE ReloadTimer
    BY <1>2 DEF ReloadTimer
<1>3. ASSUME NEW m \in PageOf, NEW hasResults \in BOOLEAN,
             ListPage(m, hasResults) \/ SearchPage(m, hasResults)
      PROVE  (dirty => dirty') /\ (timers > 0 => timers' > 0)
    BY <1>3 DEF ListPage, SearchPage
<1>4. ASSUME NEW m \in PageOf,
             \/ ListServiceError(m) \/ ListOtherError(m)
             \/ SearchServiceError(m) \/ SearchOtherError(m)
      PROVE  UNCHANGED <<dirty, timers>>
    BY <1>4 DEF ListServiceError, ListOtherError, SearchServiceError, SearchOtherError, view
<1>5. ASSUME \/ GenresReply \/ GenresMissing \/ Notify \/ DetailsReply \/ Pull
             \/ PopularScope \/ SearchClicked \/ Logout \/ UNCHANGED vars
      PROVE  UNCHANGED <<dirty, timers>>
    BY <1>5 DEF GenresReply, GenresMissing, Notify, DetailsReply, Pull, PopularScope,
        SearchClicked, Logout, view, vars
<1>6. ASSUME NEW t \in Query \cup {NoText}, EditText(t) PROVE UNCHANGED <<dirty, timers>>
    BY <1>6 DEF EditText
<1>7. ASSUME NEW i \in 1..shown, RowTrap(i) \/ SelectRow(i) \/ DisplayLastRow(i)
      PROVE  UNCHANGED <<dirty, timers>>
    BY <1>7 DEF RowTrap, SelectRow, DisplayLastRow, view
<1>8. ~Restart
    BY UsableRuns
<1>9. ASSUME UNCHANGED <<dirty, timers>>
      PROVE  (dirty => dirty') /\ (timers > 0 => timers' > 0)
    BY <1>9
<1> QED
    BY <1>1, <1>2, <1>3, <1>4, <1>5, <1>6, <1>7, <1>8, <1>9, Zenon DEF Next

(***************************************************************************)
(* Rows that arrived are shown in the end, if the user stays: by           *)
(* StaleRowsHeal a layout is pending or a reload scheduled as long as they *)
(* are not, the reload makes the layout pending, and the layout is done.   *)
(***************************************************************************)
THEOREM ShownTheorem == Spec /\ []ReloadsCanRun => RowsGetShown
<1> DEFINE Stale == shown # Len(movieList) /\ movieList # <<>>
           Fine  == shown = Len(movieList) \/ ~Usable
           Due   == timers > 0
<1>1. StaleRowsHeal => (Stale => dirty \/ Due)
    BY DEF StaleRowsHeal
<1>2. TypeOK /\ [Next]_vars => /\ dirty /\ ~Fine => dirty' \/ Fine'
                               /\ Due /\ ~Fine => Due' \/ dirty'
    BY ReloadSteps
<1>3. <<ReloadTimer>>_vars => dirty'
    BY DEF ReloadTimer
<1>4. <<Layout>>_vars => Fine'
    BY DEF Layout, model
<1>5. ReloadsCanRun => /\ Due /\ ~Fine => ENABLED <<ReloadTimer>>_vars
                       /\ dirty /\ ~Fine => ENABLED <<Layout>>_vars
    BY UsableRuns DEF ReloadsCanRun
<1>6. RowsGetShown <=> (Stale ~> Fine)
    BY DEF RowsGetShown
<1> HIDE DEF Stale, Fine, Due
<1>7. Spec /\ []ReloadsCanRun => (Due ~> dirty \/ Fine)
    BY <1>2, <1>3, <1>5, TypeCorrect, PTL DEF Spec, Fairness
<1>8. Spec /\ []ReloadsCanRun => (dirty ~> Fine)
    BY <1>2, <1>4, <1>5, TypeCorrect, PTL DEF Spec, Fairness
<1> QED
    BY <1>1, <1>6, <1>7, <1>8, StaleRowsTheorem, PTL
=============================================================================
