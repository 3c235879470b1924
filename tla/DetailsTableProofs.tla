------------------------- MODULE DetailsTableProofs -------------------------
(***************************************************************************)
(* Theorems about module DetailsTable, for any number of cells and any     *)
(* reviews.                                                                *)
(***************************************************************************)
EXTENDS DetailsTable, TLAPS

\* The table counted the list that the view model has.
Counted == counted = Len(commentsList)

TypeInv == TypeOK /\ Counted

\* The review of a counted row is one of the server's.
LEMMA ReviewAtType ==
    ASSUME TypeInv, NEW p \in Rows, p[1] = 1
    PROVE  ReviewAt(p) \in Review
<1>1. PICK i \in 1 .. counted : p = <<1, i - 1>>
    BY DEF Rows
<1>2. commentsList \in Seq(Review) /\ i \in 1 .. Len(commentsList)
    BY DEF TypeInv, TypeOK, Counted
<1>3. commentsList[i] \in Review
    BY <1>2
<1>4. p[2] + 1 = i
    BY <1>1, <1>2
<1> QED
    BY <1>3, <1>4 DEF ReviewAt

\* What every dequeuing keeps of the types.
LEMMA DequeuedType ==
    ASSUME TypeInv, NEW c \in Cell, NEW p, NEW k \in {"image", "rating", "button", "review"},
           Dequeued(c, p, k)
    PROVE  /\ commentsList' \in Seq(Review)
           /\ counted' \in Nat
           /\ awaiting' \in BOOLEAN
           /\ screen' \in {"pushed", "loaded", "popped"}
           /\ isRateSet' \in BOOLEAN
           /\ kind' \in [Cell -> {"unmade", "image", "rating", "button", "review"}]
           /\ at' \in [Cell -> Rows' \cup {Off}]
           /\ Counted'
<1> USE DEF TypeInv, TypeOK, Dequeued, model, Counted
<1>1. Rows' = Rows
    BY DEF Rows
<1>2. at' \in [Cell -> Rows \cup {Off}]
    OBVIOUS
<1>3. kind' \in [Cell -> {"unmade", "image", "rating", "button", "review"}]
    OBVIOUS
<1> QED
    BY <1>1, <1>2, <1>3

\* Adding labels keeps the types.
LEMMA AddLabelsType ==
    ASSUME TypeInv, NEW c \in Cell, AddLabels(c)
    PROVE  isSet' \in [Cell -> BOOLEAN] /\ labels' \in [Cell -> Nat]
<1>1. isSet' \in [Cell -> BOOLEAN]
    BY DEF AddLabels, TypeInv, TypeOK
<1>2. labels' \in [Cell -> Nat]
    BY DEF AddLabels, TypeInv, TypeOK
<1> QED
    BY <1>1, <1>2

\* The table, its cells and its reviews are typed at first ...
LEMMA TypeInit == Init => TypeInv
<1> SUFFICES ASSUME Init PROVE TypeInv
    OBVIOUS
<1>1. at \in [Cell -> Rows \cup {Off}] /\ Counted
    BY DEF Init, Counted
<1>2. isRateSet \in BOOLEAN /\ isSet \in [Cell -> BOOLEAN]
    BY DEF Init
<1> QED
    BY <1>1, <1>2 DEF Init, TypeInv, TypeOK

\* ... and after every step.
LEMMA TypeStep == TypeInv /\ [Next]_vars => TypeInv'
<1> SUFFICES ASSUME TypeInv, [Next]_vars PROVE TypeInv'
    OBVIOUS
<1> USE DEF TypeInv
<1>1. ASSUME NEW c \in Cell, ShowImage(c) PROVE TypeInv'
    BY <1>1, DequeuedType, AddLabelsType DEF ShowImage, TypeOK
<1>2. ASSUME NEW c \in Cell, ShowRating(c) PROVE TypeInv'
    BY <1>2, DequeuedType, AddLabelsType DEF ShowRating, TypeOK
<1>3. ASSUME NEW c \in Cell, ShowButton(c) PROVE TypeInv'
    BY <1>3, DequeuedType DEF ShowButton, TypeOK
<1>4. ASSUME NEW c \in Cell, NEW p \in Rows, ShowReview(c, p) PROVE TypeInv'
    <2>1. ReviewAt(p) \in Review
        BY <1>4, ReviewAtType DEF ShowReview
    <2>2. author' \in [Cell -> Review \cup {Nothing}] /\ text' \in [Cell -> Review \cup {Nothing}]
        BY <1>4, <2>1 DEF ShowReview, TypeOK
    <2> QED
        BY <1>4, <2>2, DequeuedType DEF ShowReview, TypeOK
<1>5. ASSUME NEW c \in Cell, Hide(c) PROVE TypeInv'
    <2>1. Rows' = Rows
        BY <1>5 DEF Hide, Rows
    <2>2. at' \in [Cell -> Rows' \cup {Off}]
        BY <1>5, <2>1 DEF Hide, TypeOK
    <2> QED
        BY <1>5, <2>2 DEF Hide, model, drawn, TypeOK, Counted
<1>6. ASSUME NEW results \in Seq(Review), Reply(results) PROVE TypeInv'
    <2>1. at' \in [Cell -> Rows' \cup {Off}] /\ counted' = Len(results) /\ counted' \in Nat
        BY <1>6 DEF Reply, ReloadData
    <2> QED
        BY <1>6, <2>1 DEF Reply, drawn, TypeOK, Counted
<1>7. CASE Failure
    <2>1. Rows' = Rows
        BY <1>7 DEF Failure, Rows
    <2> QED
        BY <1>7, <2>1 DEF Failure, cells, drawn, TypeOK, Counted
<1>8. CASE ViewDidLoad
    <2>1. Rows' = Rows
        BY <1>8 DEF ViewDidLoad, Rows
    <2> QED
        BY <1>8, <2>1 DEF ViewDidLoad, model, cells, drawn, TypeOK, Counted
<1>9. CASE DismissVC
    <2>1. Rows' = Rows
        BY <1>9 DEF DismissVC, Rows
    <2> QED
        BY <1>9, <2>1 DEF DismissVC, cells, drawn, TypeOK, Counted
<1>10. CASE UNCHANGED vars
    <2>1. Rows' = Rows
        BY <1>10 DEF vars, Rows
    <2> QED
        BY <1>10, <2>1 DEF vars, model, cells, drawn, TypeOK, Counted
<1>11. commentsList \in Seq(Review) /\ Replies \subseteq Seq(Review)
    BY DetailsTableAssumption DEF TypeOK
<1> QED
    BY <1>1, <1>2, <1>3, <1>4, <1>5, <1>6, <1>7, <1>8, <1>9, <1>10, <1>11
       DEF Next, ReplyWithoutResults

(***************************************************************************)
(* The screen, its table and its cells keep their types.                   *)
(***************************************************************************)
THEOREM TypeCorrect == Spec => []TypeOK
<1>1. TypeInv => TypeOK
    BY DEF TypeInv
<1> QED
    BY TypeInit, TypeStep, <1>1, PTL DEF Spec

-----------------------------------------------------------------------------
\* Where dequeuing leaves the cells: one moves to a free row, the rest stays.
LEMMA DequeuedShape ==
    ASSUME TypeInv, NEW c \in Cell, NEW p, NEW k, Dequeued(c, p, k)
    PROVE  /\ at' = [at EXCEPT ![c] = p] /\ at \in [Cell -> Rows \cup {Off}]
           /\ kind' = [kind EXCEPT ![c] = k] /\ kind[c] \in {k, "unmade"}
           /\ \A d \in Cell : at[d] # p
           /\ \A d \in Cell : at'[d] = IF d = c THEN p ELSE at[d]
           /\ \A d \in Cell : kind'[d] = IF d = c THEN k ELSE kind[d]
           /\ screen = "loaded" /\ UNCHANGED <<commentsList, counted, screen, isRateSet>>
BY DEF TypeInv, TypeOK, Dequeued, model

\* A cell has its labels, and knows it, from the moment it is made; the cells
\* of the first two rows are image and rating cells.
LabelInv ==
    /\ screen = "loaded" => isRateSet = TRUE
    /\ \A c \in Cell :
        /\ kind[c] = "unmade" => isSet[c] = FALSE /\ labels[c] = 0
        /\ kind[c] \in {"image", "rating"} => isSet[c] = TRUE /\ labels[c] = 1
        /\ at[c] \in {<<0, 0>>, <<0, 1>>} => kind[c] \in {"image", "rating"}

\* Giving labels to a cell that was dequeued for one of the two rows.
LEMMA LabelsAdded ==
    ASSUME TypeInv, LabelInv, NEW c \in Cell, NEW p, NEW k \in {"image", "rating"},
           Dequeued(c, p, k), AddLabels(c)
    PROVE  LabelInv'
<1>1. isRateSet = TRUE /\ isRateSet' = TRUE
    BY DequeuedShape DEF LabelInv
<1>2. isSet'[c] = TRUE /\ \A d \in Cell : d # c => isSet'[d] = isSet[d]
    BY <1>1 DEF AddLabels, TypeInv, TypeOK
<1>3. \A d \in Cell : d # c => labels'[d] = labels[d]
    BY DEF AddLabels, TypeInv, TypeOK
<1>4. labels'[c] = IF isSet[c] THEN labels[c] ELSE labels[c] + 1
    BY DEF AddLabels, TypeInv, TypeOK
<1>5. \/ isSet[c] = TRUE /\ labels[c] = 1
      \/ isSet[c] = FALSE /\ labels[c] = 0
    BY DequeuedShape DEF LabelInv
<1>6. labels'[c] = 1
    BY <1>4, <1>5
<1>7. kind'[c] = k /\ \A d \in Cell : d # c => kind'[d] = kind[d] /\ at'[d] = at[d]
    BY DequeuedShape
<1>8. ASSUME NEW d \in Cell
      PROVE  /\ kind'[d] = "unmade" => isSet'[d] = FALSE /\ labels'[d] = 0
             /\ kind'[d] \in {"image", "rating"} => isSet'[d] = TRUE /\ labels'[d] = 1
             /\ at'[d] \in {<<0, 0>>, <<0, 1>>} => kind'[d] \in {"image", "rating"}
    <2>1. CASE d = c
        BY <1>2, <1>6, <1>7, <2>1
    <2>2. CASE d # c
        BY <1>2, <1>3, <1>7, <2>2 DEF LabelInv
    <2> QED
        BY <2>1, <2>2
<1> QED
    BY <1>1, <1>8 DEF LabelInv

\* Dequeuing for another row leaves flags and labels alone.
LEMMA LabelsKept ==
    ASSUME TypeInv, LabelInv, NEW c \in Cell, NEW p, NEW k \in {"button", "review"},
           Dequeued(c, p, k), p \notin {<<0, 0>>, <<0, 1>>}, UNCHANGED <<isSet, labels>>
    PROVE  LabelInv'
BY DequeuedShape DEF LabelInv

\* No step adds a label twice or to a cell that knows it has it.
LEMMA LabelStep == TypeInv /\ LabelInv /\ [Next]_vars => LabelInv'
<1> SUFFICES ASSUME TypeInv, LabelInv, [Next]_vars PROVE LabelInv'
    OBVIOUS
<1>1. ASSUME NEW c \in Cell, ShowImage(c) PROVE LabelInv'
    BY <1>1, LabelsAdded DEF ShowImage
<1>2. ASSUME NEW c \in Cell, ShowRating(c) PROVE LabelInv'
    BY <1>2, LabelsAdded DEF ShowRating
<1>3. ASSUME NEW c \in Cell, ShowButton(c) PROVE LabelInv'
    <2>1. <<0, 2>> \notin {<<0, 0>>, <<0, 1>>}
        OBVIOUS
    <2> QED
        BY <1>3, <2>1, LabelsKept DEF ShowButton
<1>4. ASSUME NEW c \in Cell, NEW p \in Rows, ShowReview(c, p) PROVE LabelInv'
    <2>1. p \notin {<<0, 0>>, <<0, 1>>}
        BY <1>4 DEF ShowReview
    <2> QED
        BY <1>4, <2>1, LabelsKept DEF ShowReview
<1>5. ASSUME NEW c \in Cell, Hide(c) PROVE LabelInv'
    <2>1. \A d \in Cell : at'[d] \in {at[d], Off}
        BY <1>5 DEF Hide, TypeInv, TypeOK
    <2>2. Off \notin {<<0, 0>>, <<0, 1>>}
        BY DEF Off
    <2> QED
        BY <1>5, <2>1, <2>2 DEF Hide, drawn, LabelInv
<1>6. ASSUME NEW results, Reply(results) PROVE LabelInv'
    <2>1. \A d \in Cell : at'[d] = Off
        BY <1>6 DEF Reply, ReloadData
    <2>2. Off \notin {<<0, 0>>, <<0, 1>>}
        BY DEF Off
    <2> QED
        BY <1>6, <2>1, <2>2 DEF Reply, drawn, LabelInv
<1>7. CASE Failure
    BY <1>7 DEF Failure, cells, drawn, LabelInv
<1>8. CASE ViewDidLoad
    BY <1>8 DEF ViewDidLoad, cells, drawn, LabelInv
<1>9. CASE DismissVC
    BY <1>9 DEF DismissVC, cells, drawn, LabelInv
<1>10. CASE UNCHANGED vars
    BY <1>10 DEF vars, cells, drawn, LabelInv
<1> QED
    BY <1>1, <1>2, <1>3, <1>4, <1>5, <1>6, <1>7, <1>8, <1>9, <1>10
       DEF Next, ReplyWithoutResults

(***************************************************************************)
(* Displayed image and rating cells have their labels exactly once, for    *)
(* any number of cells and any order of scrolling, reuse and reload.       *)
(***************************************************************************)
THEOREM LabelTheorem == Spec => []LabelsOnce
<1>1. Init => LabelInv
    BY DEF Init, LabelInv, Off
<1>2. LabelInv => LabelsOnce
    BY DEF LabelInv, LabelsOnce
<1> QED
    BY TypeInit, TypeStep, LabelStep, <1>1, <1>2, PTL DEF Spec

-----------------------------------------------------------------------------
\* No cell is put at the button's row but by ShowButton.
LEMMA ButtonStep == TypeInv /\ ButtonInItsRow /\ [Next]_vars => ButtonInItsRow'
<1> SUFFICES ASSUME TypeInv, ButtonInItsRow, [Next]_vars PROVE ButtonInItsRow'
    OBVIOUS
<1> USE DEF ButtonInItsRow
<1>1. ASSUME NEW c \in Cell, ShowImage(c) PROVE ButtonInItsRow'
    BY <1>1, DequeuedShape DEF ShowImage
<1>2. ASSUME NEW c \in Cell, ShowRating(c) PROVE ButtonInItsRow'
    BY <1>2, DequeuedShape DEF ShowRating
<1>3. ASSUME NEW c \in Cell, ShowButton(c) PROVE ButtonInItsRow'
    BY <1>3, DequeuedShape DEF ShowButton
<1>4. ASSUME NEW c \in Cell, NEW p \in Rows, ShowReview(c, p) PROVE ButtonInItsRow'
    BY <1>4, DequeuedShape DEF ShowReview
<1>5. ASSUME NEW c \in Cell, Hide(c) PROVE ButtonInItsRow'
    <2>1. \A d \in Cell : at'[d] \in {at[d], Off}
        BY <1>5 DEF Hide, TypeInv, TypeOK
    <2> QED
        BY <1>5, <2>1 DEF Hide, drawn, Off
<1>6. ASSUME NEW results, Reply(results) PROVE ButtonInItsRow'
    BY <1>6 DEF Reply, ReloadData, Off
<1>7. CASE Failure
    BY <1>7 DEF Failure, cells, drawn
<1>8. CASE ViewDidLoad
    BY <1>8 DEF ViewDidLoad, cells, drawn
<1>9. CASE DismissVC
    BY <1>9 DEF DismissVC, cells, drawn
<1>10. CASE UNCHANGED vars
    BY <1>10 DEF vars, cells, drawn
<1> QED
    BY <1>1, <1>2, <1>3, <1>4, <1>5, <1>6, <1>7, <1>8, <1>9, <1>10
       DEF Next, ReplyWithoutResults

(***************************************************************************)
(* The cell displayed in the button's row has the button.                  *)
(***************************************************************************)
THEOREM ButtonTheorem == Spec => []ButtonInItsRow
<1>1. Init => ButtonInItsRow
    BY DEF Init, ButtonInItsRow, Off
<1> QED
    BY TypeInit, TypeStep, ButtonStep, <1>1, PTL DEF Spec

-----------------------------------------------------------------------------
\* What a review cell shows fits the list.
CellFits(c) ==
    at[c] # Off /\ at[c][1] = 1 =>
        /\ author[c] = ReviewAt(at[c])
        /\ text[c] = ReviewAt(at[c]) \/ ReviewAt(at[c]) \in Wordless

CellsFit == \A c \in Cell : CellFits(c)

\* A row of the first section is no review.
LEMMA FirstSectionFits ==
    ASSUME TypeInv, CellsFit, NEW c \in Cell, NEW i \in 0 .. 2, NEW k,
           Dequeued(c, <<0, i>>, k), UNCHANGED <<author, text>>
    PROVE  CellsFit'
<1> SUFFICES ASSUME NEW d \in Cell PROVE CellFits(d)'
    BY DEF CellsFit
<1>1. commentsList' = commentsList
    BY DequeuedShape
<1>2. CASE d = c
    BY <1>2, DequeuedShape DEF CellFits
<1>3. CASE d # c
    BY <1>1, <1>3, DequeuedShape DEF CellsFit, CellFits, ReviewAt
<1> QED
    BY <1>2, <1>3

\* No step leaves a review in a row that is not its own.
LEMMA ReviewStep == TypeInv /\ CellsFit /\ [Next]_vars => CellsFit'
<1> SUFFICES ASSUME TypeInv, CellsFit, [Next]_vars PROVE CellsFit'
    OBVIOUS
<1>1. ASSUME NEW c \in Cell, ShowImage(c) PROVE CellsFit'
    BY <1>1, FirstSectionFits DEF ShowImage
<1>2. ASSUME NEW c \in Cell, ShowRating(c) PROVE CellsFit'
    BY <1>2, FirstSectionFits DEF ShowRating
<1>3. ASSUME NEW c \in Cell, ShowButton(c) PROVE CellsFit'
    BY <1>3, FirstSectionFits DEF ShowButton
<1>4. ASSUME NEW c \in Cell, NEW p \in Rows, ShowReview(c, p) PROVE CellsFit'
    <2> SUFFICES ASSUME NEW d \in Cell PROVE CellFits(d)'
        BY DEF CellsFit
    <2>1. commentsList' = commentsList /\ at'[d] = IF d = c THEN p ELSE at[d]
        BY <1>4, DequeuedShape DEF ShowReview
    <2>2. CASE d = c
        BY <1>4, <2>1, <2>2 DEF ShowReview, CellFits, ReviewAt, TypeInv, TypeOK
    <2>3. CASE d # c
        BY <1>4, <2>1, <2>3 DEF ShowReview, CellsFit, CellFits, ReviewAt, TypeInv, TypeOK
    <2> QED
        BY <2>2, <2>3
<1>5. ASSUME NEW c \in Cell, Hide(c) PROVE CellsFit'
    <2>1. \A d \in Cell : at'[d] \in {at[d], Off}
        BY <1>5 DEF Hide, TypeInv, TypeOK
    <2> QED
        BY <1>5, <2>1 DEF Hide, model, drawn, CellsFit, CellFits, ReviewAt
<1>6. ASSUME NEW results, Reply(results) PROVE CellsFit'
    BY <1>6 DEF Reply, ReloadData, CellsFit, CellFits
<1>7. CASE Failure
    BY <1>7 DEF Failure, cells, drawn, CellsFit, CellFits, ReviewAt
<1>8. CASE ViewDidLoad
    BY <1>8 DEF ViewDidLoad, model, cells, drawn, CellsFit, CellFits, ReviewAt
<1>9. CASE DismissVC
    BY <1>9 DEF DismissVC, cells, drawn, CellsFit, CellFits, ReviewAt
<1>10. CASE UNCHANGED vars
    BY <1>10 DEF vars, model, cells, drawn, CellsFit, CellFits, ReviewAt
<1> QED
    BY <1>1, <1>2, <1>3, <1>4, <1>5, <1>6, <1>7, <1>8, <1>9, <1>10
       DEF Next, ReplyWithoutResults

(***************************************************************************)
(* The table has the list's rows, and a displayed review row shows the     *)
(* review at its place, unless that has no text.                           *)
(***************************************************************************)
THEOREM ReviewTheorem == Spec => []ReviewsFit
<1>1. Init => CellsFit
    BY DEF Init, CellsFit, CellFits
<1>2. TypeInv /\ CellsFit => ReviewsFit
    BY DEF TypeInv, Counted, CellsFit, CellFits, ReviewsFit
<1> QED
    BY TypeInit, TypeStep, ReviewStep, <1>1, <1>2, PTL DEF Spec
=============================================================================
