---------------------------- MODULE MCApiClient -----------------------------
\* Three requests, and a status code for each branch of the closure.
EXTENDS ApiClient

MCHttpStatus == {200, 404, 500}
=============================================================================
