CONSTANTS
    v1 = v1
    v2 = v2
    u1 = u1
    u2 = u2
    noURL = noURL
    View = {v1, v2}
    Url = {u1, u2, noURL}
    Bad = {noURL}
    NoPoster = NoPoster
    Blank = Blank
    MaxAsked = 3
SPECIFICATION Spec
SYMMETRY Symmetry
INVARIANTS TypeOK PostersFit
PROPERTIES OnlyJunkLeavesBlank ImplementsSlots
