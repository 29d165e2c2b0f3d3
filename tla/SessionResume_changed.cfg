SPECIFICATION ResumeSpec
CONSTANTS
    a = a
    b = b
    c = c
    d = d
    Off = Off
    Void = Void
    None = None
    Kinds <- MCKinds
    Choices <- MCLastChanged
    KillPoints = {}
    KillsSpareMasks = TRUE
    MaxRuns = 2
INVARIANT ResumeLikeFresh
CHECK_DEADLOCK FALSE
