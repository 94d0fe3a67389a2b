SPECIFICATION Spec
CONSTANTS
    p1 = p1  p2 = p2  h1 = h1  h2 = h2
    Publishers <- TwoPublishers
    Handlers <- TwoHandlers
    MaxHistorySize = 2
    Uses = {"unregister", "clear", "query", "clear_history"}
    MaxEvents = 3
SYMMETRY Symmetry
INVARIANTS HistorySound
PROPERTIES CalledOnce
