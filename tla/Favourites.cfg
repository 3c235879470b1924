CONSTANTS
    m1 = m1
    m2 = m2
    m3 = m3
    Movie = {m1, m2, m3}
    MaxScreens = 3
SPECIFICATION Spec
SYMMETRY Symmetry
INVARIANTS TypeOK UniqueRows
PROPERTIES OnlyTwinsLie OnlyFetchUpsetsNoRowNoLike OnlyFailedSavesLoseChanges ImplementsStore
