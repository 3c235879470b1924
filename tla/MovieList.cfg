CONSTANTS
    a = a
    b = b
    Query = {a, b}
    NoText = NoText
    Popular = Popular
    NoMovies = NoMovies
    MaxPage = 2
    LastPage <- MCLastPage
    MaxRequests = 2
    MaxRows = 3
    HttpStatus <- MCHttpStatus
    NoStatus = NoStatus
SPECIFICATION Spec
INVARIANTS TypeOK CursorIsTail StaleRowsHeal SettledSearchIsPure
PROPERTIES OnlyNamedRepliesMixRows OnlyLeavingSplitsMode OnlyOddErrorsHangSpinner RowsGetShown ListGetsAsked
