SPECIFICATION Spec
CONSTANTS
    Callers = {c1}
    Closers = {s1}
    Ticker = ticker
    Go = go
    Free = free
    MaxEvents = 2
    LocalMode = TRUE
    MaxRetries = 0
    Disabled = {"initialize"}
    MaxLogged = 1
    Keys = {k1}
    Rates = {5000}
    MaxMarks = 1
    StatusCodes = {200}
INVARIANT MarkersAccounted
INVARIANT Bounded
CHECK_DEADLOCK FALSE
