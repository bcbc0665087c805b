CONSTANTS
    Count = 2
    Endpoint <- TwoPorts
    Literals = {"ip"}
    Stuck = {"hangs"}
    Requested = 2
    MaxWorkers = 64
    Nowhere = Nowhere
    Unasked = Unasked
SPECIFICATION Spec
INVARIANT PortIsOwn
CHECK_DEADLOCK FALSE
