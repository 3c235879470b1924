------------------------------- MODULE MCApp --------------------------------
\* Two attempts of two interchangeable users, so that one can outlive the
\* screen it was made on, and three details screens of two movies.
EXTENDS App, TLC

Symmetry == Permutations(Attempt) \cup Permutations(Account) \cup Permutations(Movie)
=============================================================================
