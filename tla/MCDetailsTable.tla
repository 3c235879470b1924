--------------------------- MODULE MCDetailsTable ---------------------------
\* Lists of up to two of three reviews, one of them without a text, and one
\* cell more than there are rows of a kind on the screen.
EXTENDS DetailsTable, SequencesExt

MCReplies == {s \in BoundedSeq(Review, 2) : IsInjective(s)}

Symmetry == Permutations(Cell) \cup Permutations(Review \ Wordless)
=============================================================================
