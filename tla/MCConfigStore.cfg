SPECIFICATION Spec
CONSTANTS
    Readers = {r1}
    Adapters = {"none", "backup", "polling"}
    Servers = {"newer", "any"}
    Bootstraps <- MCBootstraps
    Panics = TRUE
    LocalMode = FALSE
    Interval = 1
    OutdatedMax = 1
    MaxTime = 2
    MaxSwaps = 2
    StatusCodes = {200, 503}
INVARIANT ReasonMatchesSpecs
INVARIANT QuietEvaluationConsistent
INVARIANT ExposureNotOlderThanSpec
INVARIANT CallbackPerSwap
INVARIANT OneSwapAfterStop
INVARIANT OutageNoticed
PROPERTY OnlyOldAnswersRollBack
