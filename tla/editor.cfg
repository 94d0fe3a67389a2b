SPECIFICATION EditorFairSpec
CONSTANTS
    s1 = s1  alice = alice  bob = bob  f1 = f1
    x = x  bad = bad  o1 = o1
    Sessions <- OneSession
    Files <- OneFile
    Contents <- Typed
    Invalid = {bad}
    Formatted <- Tidy
    Users <- TwoUsers
    User <- Owners
    Empty = Empty
    Mixed = Mixed
    None = None
    Openers <- OneOpener
    AutoSave = TRUE
    Uses = {"save", "close", "close_session", "format"}
    MaxUpdates = 2
CHECK_DEADLOCK FALSE
INVARIANTS EditorTypeOK CleanIsOnDisk
PROPERTIES UnsavedMarkIsKept CloseSessionEnds AutoSaveCatchesUp
