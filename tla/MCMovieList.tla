---------------------------- MODULE MCMovieList -----------------------------
\* Two queries of two pages each and two popular pages: enough for the pages of
\* one search to follow another's, and for a page past the last one.
EXTENDS MovieList

MCHttpStatus == {200, 404, 500}
MCLastPage   == [s \in Source |-> 2]
=============================================================================
