SPECIFICATION ResumeSpec
CONSTANTS
    a = a
    b = b
    c = c
    d = d
    Off = Off
    Void = Void
    None = None
    Kinds <- MCKinds
    Choices <- MCChoices
    KillPoints = {"clean", "emptied", "step", "run", "copy"}
    KillsSpareMasks = TRUE
    MaxRuns = 4
INVARIANTS ResumeLikeFresh CopiesMatchStamps
PROPERTY NothingRunTwice
CHECK_DEADLOCK FALSE
