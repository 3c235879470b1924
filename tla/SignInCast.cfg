CONSTANTS
    c1 = c1
    c2 = c2
    c3 = c3
    u1 = u1
    u2 = u2
    Attempt = {c1, c2, c3}
    Account = {u1, u2}
    Refused = Refused
    None = None
SPECIFICATION Spec
SYMMETRY Symmetry
INVARIANT CastSucceeds
