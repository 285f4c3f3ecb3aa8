SPECIFICATION RestartFairSpec
CONSTANTS
    Readers = {}
    Adapters = {"none", "backup"}
    Servers = {"newer"}
    Bootstraps <- MCBootstraps
    Panics = TRUE
    LocalMode = FALSE
    Interval = 1
    OutdatedMax = 1
    MaxTime = 3
    MaxSwaps = 2
    MaxCrashes = 2
    StatusCodes = {200, 503}
INVARIANT RestartServesSaved
PROPERTY SavedNeverOlder
PROPERTY BackupCatchesUp
PROPERTY Converges
