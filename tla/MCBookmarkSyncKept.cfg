\* The sync cycle when the host goes on with the same connection after a
\* failed sync, so that staged rows outlive the cycle that staged them.
CONSTANTS
    a = a
    b = b
    c = c
    Items <- MCItems
    Kind <- MCKind
    NoRow = NoRow
    MaxRev = 3
    MaxTime = 3
    MaxCrashes = 1
    KeepsConnection = TRUE

SPECIFICATION Spec

INVARIANTS
    MirrorCoversServer
