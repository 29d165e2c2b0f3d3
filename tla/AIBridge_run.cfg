SPECIFICATION Spec
CONSTANTS
    p = p
    q = q
    Absent = Absent
    Inputs = {p, q}
    Selections <- MCSelections
    CutFails <- MCCutFails
    Cells <- MCCells
    BatchSize = 2
    Retries = 1
    MaxRuns = 3
PROPERTIES  NotAskedTwice AskedAgain
CHECK_DEADLOCK FALSE
SYMMETRY Interchangeable
