SPECIFICATION FairSpec
CONSTANTS
    c1 = c1  c2 = c2  x = x  y = y
    Callers <- TwoCallers
    Names = {"1.0", "1.1"}
    BranchNames = {"main", "feature"}
    Contents <- TwoContents
    Mixed = Mixed
    NoContent = NoContent
    Nobody = Nobody
    Keeps = {1}
    EventManagers = {"own", "mock"}
    MaxStamp = 2
    MaxBranches = 1
INVARIANTS ContentMatchesCommit
PROPERTIES CleanupKeepsNewest EveryCallReturns
