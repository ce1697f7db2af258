\* ManyVisitObservations over four observations, limits 1 to 3, and adds
\* of one or two observations: enough for a batch to reach its limit, pass
\* it, and be flushed.
CONSTANTS
    o1 = o1
    o2 = o2
    o3 = o3
    o4 = o4
    Obs <- MCObs
    MaxLimit = 3
    MaxAdd = 2
    NoLimit = NoLimit
SYMMETRY MCSymmetry
SPECIFICATION Spec
INVARIANT
    EveryObservationAppliedOnce
