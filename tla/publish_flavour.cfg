SPECIFICATION Spec
CONSTANTS
    r1 = r1
    r2 = r2
    Runs <- MCRuns
    Trees <- MCTrees
    Jobs <- MCJobs
    RunnerOS <- MCRunnerOS
    MaxMishaps = 0
    MaxSweeps = 0
    MaxReleases = 1
PROPERTIES LockedAsBuilt
CHECK_DEADLOCK FALSE
