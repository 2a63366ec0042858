SPECIFICATION Spec
CONSTANTS
    r1 = r1
    r2 = r2
    Runs <- MCRuns
    Trees <- MCTrees
    Jobs <- MCOneJob
    RunnerOS <- MCRunnerOS
    MaxMishaps = 1
    MaxSweeps = 1
    MaxReleases = 2
INVARIANTS TypeOK LockedArePresent
PROPERTIES NoCommitLost LockDescribesTree LockedFromHistory
CONSTRAINT FewMishaps
SYMMETRY RunSymmetry
CHECK_DEADLOCK FALSE
