\* apply_observation and schema::init over two URLs, two timestamps and at
\* most three visits, starting from an empty file or an existing profile.
CONSTANTS
    u1 = u1
    u2 = u2
    Urls <- MCUrls
    Dates = {1, 2}
    NoRow = NoRow
    NoVisit = NoVisit
    MaxVisits = 3
SYMMETRY MCSymmetry
SPECIFICATION Spec
INVARIANTS
    TypeOK
    PageSummaryMatchesVisits
\* The MaxVisits bound ends the behaviours that add visits.
CHECK_DEADLOCK FALSE
