SPECIFICATION Spec
CONSTANTS
    r1 = r1
    r2 = r2
    Runs <- MCRuns
    Trees <- MCTrees
    Jobs <- MCOneJob
    RunnerOS <- MCRunnerOS
    MaxMishaps = 0
    MaxSweeps = 1
    MaxReleases = 1
INVARIANTS ReleasedArePresent
CHECK_DEADLOCK FALSE
