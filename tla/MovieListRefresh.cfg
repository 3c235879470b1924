CONSTANTS
    a = a
    Query = {a}
    NoText = NoText
    Popular = Popular
    NoMovies = NoMovies
    MaxPage = 2
    LastPage <- MCLastPage
    MaxRequests = 2
    MaxRows = 3
    HttpStatus <- MCHttpStatus
    NoStatus = NoStatus
SPECIFICATION Spec
PROPERTY PullRefreshes
