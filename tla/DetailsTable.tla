---------------------------- MODULE DetailsTable ----------------------------
(***************************************************************************)
(* The table of one movie details screen (MovieDetailVC.swift): its cells  *)
(* (ImageViewCell, RateDetailCell, CommentCell) and the request for the    *)
(* movie's reviews (MovieDetailViewModel.swift).                           *)
(*                                                                         *)
(* UITableView keeps cells that have left the screen, by kind, and gives   *)
(* them to rows that enter it, with whatever they were told before.  What  *)
(* they hold is repaired piecemeal: labels are added behind a flag that    *)
(* the cell is told only afterwards, the one button of the screen moves    *)
(* from cell to cell, a review without a text leaves the text of before.   *)
(* The reviews arrive at some time in between, or never.                   *)
(*                                                                         *)
(* The third section's row is left out: its cell is new and empty each     *)
(* time.  The poster in the first row is module ImageLoader's.             *)
(***************************************************************************)
EXTENDS Naturals, Sequences

CONSTANTS
    Review,         \* the reviews the server may send
    Wordless,       \* those without a content, or whose HTML cannot be read
    Replies,        \* lists of reviews that make up one reply
    Cell,           \* bound: the cells the table may make
    Nothing         \* no review, no cell

ASSUME DetailsTableAssumption ==
    /\ Wordless \subseteq Review
    /\ Replies \subseteq Seq(Review)
    /\ Nothing \notin Review \cup Cell

VARIABLES
    commentsList,   \* the view model's list
    counted,        \* the reviews the table counted when it last loaded its data
    awaiting,       \* the request for reviews is under way
    screen,         \* "pushed", "loaded" (viewDidLoad has run) or "popped"
    isRateSet,      \* the screen's flag that cells are told
    kind,           \* kind[c]: reuse identifier, or "unmade"
    at,             \* at[c]: the index path the cell is displayed at, or Off
    isSet,          \* isSet[c]: the flag of image and rating cells
    labels,         \* labels[c]: how often genre or rating labels were added
    author,         \* author[c]: whose name a review cell shows
    text,           \* text[c]: which review's text it shows
    buttonIn        \* the cell that rateButton is a subview of

model == <<commentsList, awaiting>>
drawn == <<isSet, labels, author, text, buttonIn>>
cells == <<kind, at, drawn>>
vars  == <<model, counted, screen, isRateSet, cells>>

\* Not displayed: in the table's pool, or not made yet.
Off == <<>>

Init ==
    /\ commentsList = <<>>
    /\ counted = 0
    /\ awaiting = TRUE
    /\ screen = "pushed"
    /\ isRateSet = FALSE
    /\ kind = [c \in Cell |-> "unmade"]
    /\ at = [c \in Cell |-> Off]
    /\ isSet = [c \in Cell |-> FALSE]
    /\ labels = [c \in Cell |-> 0]
    /\ author = [c \in Cell |-> Nothing]
    /\ text = [c \in Cell |-> Nothing]
    /\ buttonIn = Nothing

-----------------------------------------------------------------------------
\* The table's rows: <<section, row>>, for the first two sections.
Rows == ({0} \X (0 .. 2)) \cup {<<1, i - 1>> : i \in 1 .. counted}

\* The review of a row of the second section.
ReviewAt(p) == commentsList[p[2] + 1]

\* A cell for row p: one of the pool or a new one, as UIKit likes.
Dequeued(c, p, k) ==
    /\ screen = "loaded"
    /\ p \in Rows /\ \A d \in Cell : at[d] # p
    /\ at[c] = Off /\ kind[c] \in {k, "unmade"}
    /\ kind' = [kind EXCEPT ![c] = k]
    /\ at' = [at EXCEPT ![c] = p]
    /\ UNCHANGED <<model, counted, screen, isRateSet>>

\* Mutant: the cell is told the flag before it is given its labels.
AddLabelsLate(c) ==
    /\ isSet' = [isSet EXCEPT ![c] = isRateSet]
    /\ labels' = [labels EXCEPT ![c] = IF isRateSet THEN @ ELSE @ + 1]

\* setupGenreLabels, setupStackView: labels only for a cell that was not told
\* so far that it has them; then it is told.  (A movie without genres has no
\* genre labels to add: adding them is adding none.)
AddLabels(c) ==
    /\ labels' = [labels EXCEPT ![c] = IF isSet[c] THEN @ ELSE @ + 1]
    /\ isSet' = [isSet EXCEPT ![c] = isRateSet]

ShowImage(c) ==
    /\ Dequeued(c, <<0, 0>>, "image")
    /\ AddLabels(c)
    /\ UNCHANGED <<author, text, buttonIn>>

ShowRating(c) ==
    /\ Dequeued(c, <<0, 1>>, "rating")
    /\ AddLabels(c)
    /\ UNCHANGED <<author, text, buttonIn>>

\* Mutant: the button is added once, to the cell that comes first.
ShowButtonOnce(c) ==
    /\ Dequeued(c, <<0, 2>>, "button")
    /\ buttonIn' = IF buttonIn = Nothing THEN c ELSE buttonIn
    /\ UNCHANGED <<isSet, labels, author, text>>

\* addSubview takes the button from the cell it was in.
ShowButton(c) ==
    /\ Dequeued(c, <<0, 2>>, "button")
    /\ buttonIn' = c
    /\ UNCHANGED <<isSet, labels, author, text>>

\* Mutant: a review without text leaves the name as it is, too.
ShowReviewGuardFirst(c, p) ==
    /\ Dequeued(c, p, "review") /\ p[1] = 1
    /\ author' = IF ReviewAt(p) \in Wordless THEN author
                 ELSE [author EXCEPT ![c] = ReviewAt(p)]
    /\ text' = IF ReviewAt(p) \in Wordless THEN text
               ELSE [text EXCEPT ![c] = ReviewAt(p)]
    /\ UNCHANGED <<isSet, labels, buttonIn>>

\* CommentCell.comment: a review without text leaves the label as it is.
ShowReview(c, p) ==
    /\ Dequeued(c, p, "review") /\ p[1] = 1
    /\ author' = [author EXCEPT ![c] = ReviewAt(p)]
    /\ text' = IF ReviewAt(p) \in Wordless THEN text
               ELSE [text EXCEPT ![c] = ReviewAt(p)]
    /\ UNCHANGED <<isSet, labels, buttonIn>>

\* A row leaves the screen; its cell goes to the pool.
Hide(c) ==
    /\ screen = "loaded" /\ at[c] # Off
    /\ at' = [at EXCEPT ![c] = Off]
    /\ UNCHANGED <<model, counted, screen, isRateSet, kind, drawn>>

-----------------------------------------------------------------------------
\* Mutant: the flag is optional and is left without a value.
ViewDidLoadUnset ==
    /\ screen = "pushed"
    /\ screen' = "loaded"
    /\ isRateSet' = Nothing
    /\ UNCHANGED <<model, counted, cells>>

\* configUI, before the table is laid out.
ViewDidLoad ==
    /\ screen = "pushed"
    /\ screen' = "loaded"
    /\ isRateSet' = TRUE
    /\ UNCHANGED <<model, counted, cells>>

\* Mutant: the table is not told that the list has changed.
NoReloadData(results) == UNCHANGED <<counted, at>>

\* The reviews are counted (numberOfRowsInSection) and all cells go to the
\* pool, so that layout asks for the rows anew.
ReloadData(results) ==
    /\ counted' = Len(results)
    /\ at' = [c \in Cell |-> Off]

\* getComment's onNext, and the success closure that reloads.
Reply(results) ==
    /\ awaiting /\ awaiting' = FALSE
    /\ commentsList' = results
    /\ ReloadData(results)
    /\ UNCHANGED <<screen, isRateSet, kind, drawn>>

\* The reply has no results: the list stays, and is reloaded.
ReplyWithoutResults == Reply(commentsList)

\* onError: the failure closure is empty.
Failure ==
    /\ awaiting /\ awaiting' = FALSE
    /\ UNCHANGED <<commentsList, counted, screen, isRateSet, cells>>

\* dismissVC: the screen goes, and its dispose bag drops the request.
DismissVC ==
    /\ screen = "loaded"
    /\ screen' = "popped"
    /\ awaiting' = FALSE
    /\ UNCHANGED <<commentsList, counted, isRateSet, cells>>

Next ==
    \/ \E c \in Cell :
        \/ ShowImage(c) \/ ShowRating(c) \/ ShowButton(c) \/ Hide(c)
        \/ \E p \in Rows : ShowReview(c, p)
    \/ \E results \in Replies : Reply(results)
    \/ ReplyWithoutResults \/ Failure
    \/ ViewDidLoad \/ DismissVC

Spec == Init /\ [][Next]_vars
-----------------------------------------------------------------------------
TypeOK ==
    /\ commentsList \in Seq(Review)
    /\ counted \in Nat
    /\ awaiting \in BOOLEAN
    /\ screen \in {"pushed", "loaded", "popped"}
    /\ isRateSet \in BOOLEAN
    /\ kind \in [Cell -> {"unmade", "image", "rating", "button", "review"}]
    /\ at \in [Cell -> Rows \cup {Off}]
    /\ isSet \in [Cell -> BOOLEAN]
    /\ labels \in [Cell -> Nat]
    /\ author \in [Cell -> Review \cup {Nothing}]
    /\ text \in [Cell -> Review \cup {Nothing}]
    /\ buttonIn \in Cell \cup {Nothing}

(***************************************************************************)
(* A displayed image or rating cell has had its labels added exactly once, *)
(* however often it was reused or the table reloaded, although the flag    *)
(* that guards them is told after they were added (MovieDetailVC 319, 328).*)
(***************************************************************************)
LabelsOnce ==
    \A c \in Cell : at[c] \in {<<0, 0>>, <<0, 1>>} => labels[c] = 1

(***************************************************************************)
(* The table has a row for every review of the list and no other, and a    *)
(* displayed one shows the name and, if there is one, the text of the      *)
(* review at its place; only a review without a text can be shown above    *)
(* another's (CommentCell 31).                                             *)
(***************************************************************************)
ReviewsFit ==
    /\ counted = Len(commentsList)
    /\ \A c \in Cell : at[c] # Off /\ at[c][1] = 1 =>
        /\ author[c] = ReviewAt(at[c])
        /\ text[c] = ReviewAt(at[c]) \/ ReviewAt(at[c]) \in Wordless

(***************************************************************************)
(* The screen has one button for all cells that ever stood in the button's *)
(* row: the cell that is displayed there has it (MovieDetailVC 333).       *)
(***************************************************************************)
ButtonInItsRow ==
    \A c \in Cell : at[c] = <<0, 2>> => buttonIn = c
=============================================================================
