SPECIFICATION Spec
CONSTANTS
    b1 = b1
    b2 = b2
    Builders <- MCBuilders
    Trees <- MCTrees
    Cells <- MCCells
    Flavours = {"jammy", "noble"}
    Forces = {TRUE, FALSE}
    MaxCells = 2
    MaxBreaks = 1
SYMMETRY BuilderSymmetry
INVARIANTS TypeOK PushedAsAnnotated LinkedAgainstOwnTree WarmCellIsFree SidecarsAreOwn LinkedAgainstLocked
PROPERTIES LockfileFollowsTree IndexGrows KeepsNewestBuilds
CHECK_DEADLOCK FALSE
