CONSTANTS
    c1 = c1
    c2 = c2
    u1 = u1
    u2 = u2
    m1 = m1
    m2 = m2
    Attempt = {c1, c2}
    Account = {u1, u2}
    Refused = Refused
    None = None
    Movie = {m1, m2}
    MaxScreens = 3
SPECIFICATION Spec
SYMMETRY Symmetry
INVARIANTS TypeOK WaitingKeepsHearts
PROPERTIES OnlyUserLeavesDetails
