SPECIFICATION FairSpec
CONSTANTS
    Names = {n1}
    f1 = f1
    f2 = f2
    Files = {f1, f2}
    Ids = {a}
    NoFile = nofile
    Created <- MCCreated
    MaxLines = 2
    MaxChanges = 2
    StatusCodes = {200, 503}
INVARIANT ListReplaysFile
PROPERTY NoOlderFile
PROPERTY Converges
PROPERTY PollerStops
