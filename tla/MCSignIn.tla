------------------------------ MODULE MCSignIn ------------------------------
\* Three attempts of two interchangeable users: one before a logout, one that
\* outlives it, and one after.
EXTENDS SignIn, TLC

Symmetry == Permutations(Attempt) \cup Permutations(Account)
=============================================================================
