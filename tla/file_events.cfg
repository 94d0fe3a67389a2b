SPECIFICATION FairSpec
CONSTANTS
    Handlers = {coroutine, function}
    Threaded = {function}
    MaxQueue = 1
    MaxHistory = 1
    MaxEvents = 3
    MaxStarts = 2
    Inline = {1}
    coroutine = coroutine
    function = function
INVARIANTS OneAfterTheOther
PROPERTIES EveryoneGetsOn
