SPECIFICATION Spec
CONSTANTS
    None = None
    Bad = Bad
    MaxCalls = 2
    MaxLoads = 2
    MaxBusy = 2
    MaxVersion = 2
    MaxStarts = 3
    Posix = FALSE
INVARIANTS OneInstaller ProgramIsVerified VersionRemains QuitLeavesProgram RestartRunsUpdate
PROPERTIES InstallEnds CloseReturns
\* The last process may be gone, and its program with it.
CHECK_DEADLOCK FALSE
