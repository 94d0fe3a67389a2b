SPECIFICATION FairSpec
CONSTANTS
    MaxJobs = 2
    Kind <- Kinds
    SkipInvalid <- FirstSkips
    MaxFiles = 3
    MaxSkills = 2
INVARIANTS JobsAreAccounted
PROPERTIES EndIsFinal EveryJobEnds
