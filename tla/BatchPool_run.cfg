SPECIFICATION FairSpec
CONSTANTS
    A = A
    B = B
    w1 = w1
    w2 = w2
    Names <- MCNames
    Workers <- MCWorkers
    Steps = 2
    Onlys <- MCOnlys
    Faults = {"raise", "status"}
    MaxRuns = 2
INVARIANTS TypeOK StatusKept OneWorkerPerField FilesAgree
PROPERTIES OthersKept EveryFieldReported PanelFrees
CHECK_DEADLOCK FALSE
