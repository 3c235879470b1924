---------------------------- MODULE MCFavourites ----------------------------
\* Three interchangeable movies and three screens: twins, with a screen of
\* another movie above, below or between them.
EXTENDS Favourites, TLC

Symmetry == Permutations(Movie)
=============================================================================
