\* The tools: two commits and attempts; three targets and two stagings; scripts for 65 minutes.
SPECIFICATION MCSpec
CHECK_DEADLOCK FALSE
CONSTANTS
    Reports <- MCReports
    E2E = {"e2e"}
    Timeout = 700
    NewCipeTimeout = 60
    LocalAttempts = 1
    MaxCycles = 3
    AutoFix = TRUE
    MaxPolls = 8
    MaxErrors = 1
    MaxPushes = 2
    targets <- MCtargets
    Hosts <- MCHosts
    MaxVersion = 2
    MaxJobs = 2
    MaxTime = 65
    None = None
INVARIANTS
    TypeOK
    CyclesAreCounted
    BreaksWhenStuck
    StagedIsOneBuild
    LaunchesOwnBinary
    SuccessIsComplete
PROPERTIES
    ActsOncePerAttempt
    EveryPhaseEnds
