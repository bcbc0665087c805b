CONSTANTS
    Count = 6
    Endpoint <- MixedList
    Literals = {"ip"}
    Stuck = {"hangs"}
    Requested = 2
    MaxWorkers = 64
    Nowhere = Nowhere
    Unasked = Unasked
SPECIFICATION Spec
INVARIANTS EachNodeOnce ReturnedIsShown VerdictIsOwn
PROPERTIES DialsBounded RunEnds
CHECK_DEADLOCK FALSE
