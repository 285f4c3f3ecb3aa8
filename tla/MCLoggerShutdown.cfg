SPECIFICATION Spec
CONSTANTS
    Callers = {c1}
    Closers = {s1}
    Ticker = ticker
    Go = go
    Free = free
    MaxEvents = 2
    LocalMode = FALSE
    MaxRetries = 1
    Disabled = {}
    MaxLogged = 2
    Keys = {k1}
    Rates = {}
    MaxMarks = 1
    StatusCodes = {200, 503}
INVARIANT ShutdownPersists
CHECK_DEADLOCK FALSE
