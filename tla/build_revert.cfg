SPECIFICATION Spec
CONSTANTS
    b1 = b1
    b2 = b2
    Builders = {b1}
    Trees <- MCTreesBack
    Cells <- MCCells
    Flavours = {"jammy"}
    Forces = {FALSE}
    MaxCells = 3
    MaxBreaks = 0
PROPERTIES LockfileIsCurrent
CHECK_DEADLOCK FALSE
