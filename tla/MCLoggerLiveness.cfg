SPECIFICATION FairSpec
CONSTANTS
    Callers = {c1}
    Closers = {s1}
    Ticker = ticker
    Go = go
    Free = free
    MaxEvents = 2
    LocalMode = FALSE
    MaxRetries = 1
    Disabled = {"initialize"}
    MaxLogged = 2
    Keys = {k1}
    Rates = {}
    MaxMarks = 0
    StatusCodes = {503}
PROPERTY EventsEnd
PROPERTY CallsReturn
CHECK_DEADLOCK FALSE
