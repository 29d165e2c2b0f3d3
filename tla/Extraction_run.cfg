SPECIFICATION Spec
CONSTANTS
    NThresh = 3
    MinCont <- MCMinCont
    MinArea = 2
    SubLimit = 3
    Images <- MCImages
    Stacks <- MCStacks
    MaxRetries = 2
INVARIANTS TypeOK CatalogIsComponents DeblendPartitions CellsAccounted HeldAsNeeded
PROPERTIES EndsNearer
