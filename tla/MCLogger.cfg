SPECIFICATION Spec
CONSTANTS
    Callers = {c1, c2}
    Closers = {s1}
    Ticker = ticker
    Go = go
    Free = free
    MaxEvents = 2
    LocalMode = FALSE
    MaxRetries = 1
    Disabled = {"initialize", "config_sync"}
    MaxLogged = 2
    Keys = {k1}
    Rates = {}
    MaxMarks = 0
    StatusCodes = {200, 503}
SYMMETRY MCSymmetry
INVARIANT NoEventLostOrDoubled
INVARIANT ShutdownDrains
INVARIANT Bounded
PROPERTY ImplementsQueue
CHECK_DEADLOCK FALSE
