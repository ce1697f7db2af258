CONSTANTS
    a = a
    b = b
    c = c
    Items <- MCItems
    Kind <- MCKind
    NoRow = NoRow
    MaxRev = 3
    MaxTime = 3
    MaxCrashes = 1
    KeepsConnection = FALSE

SPECIFICATION Spec

INVARIANTS
    TypeOK
    LocalChangeNotLost
    MirrorCoversServer

PROPERTIES
    ImplementsReplication
