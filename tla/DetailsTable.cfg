CONSTANTS
    r1 = r1
    r2 = r2
    w1 = w1
    c1 = c1
    c2 = c2
    c3 = c3
    c4 = c4
    c5 = c5
    Review = {r1, r2, w1}
    Wordless = {w1}
    Replies <- MCReplies
    Cell = {c1, c2, c3, c4, c5}
    Nothing = Nothing
SPECIFICATION Spec
SYMMETRY Symmetry
INVARIANTS TypeOK LabelsOnce ReviewsFit ButtonInItsRow
CHECK_DEADLOCK FALSE
