SPECIFICATION FairSpec
CONSTANTS
    c1 = c1  c2 = c2  x = x  y = y
    Callers <- TwoCallers
    Names = {"1.0"}
    BranchNames = {"main"}
    Contents <- TwoContents
    Mixed = Mixed
    NoContent = NoContent
    Nobody = Nobody
    Keeps = {0}
    EventManagers = {"mock"}
    MaxStamp = 2
    MaxBranches = 1
PROPERTIES RollbackReturns
