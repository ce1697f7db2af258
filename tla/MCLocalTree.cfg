CONSTANTS
    n1 = n1
    n2 = n2
    n3 = n3
    Nodes <- MCNodes
    TreeShapes <- MCTreeShapes
    MaxIndex = 1
    AppendPos = AppendPos
    NoRow = NoRow

INIT Init
NEXT Next

\* Every guid of Nodes eventually exists and no call can insert more:
\* the bound on Nodes, not the code, ends the behaviours.
CHECK_DEADLOCK FALSE

INVARIANTS
    WellFormedTree
