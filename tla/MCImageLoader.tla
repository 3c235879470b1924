--------------------------- MODULE MCImageLoader ----------------------------
\* Two cells, two posters and an address that is no URL: a cell can go from
\* one poster to the other and back while both are being fetched.
EXTENDS ImageLoader, TLC

Symmetry == Permutations(View) \cup Permutations(Url \ Bad)
=============================================================================
