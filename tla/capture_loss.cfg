\* Alice gives as many signals as the limit allows in the window; one fault.
SPECIFICATION Spec

CONSTANTS
    Events = {1, 2}
    Customers = {"alice"}
    CustomerOf <- MCCustomerOf
    Malformed = {}
    Verified <- Unbound
    Threads = {1}
    Limit = 2
    Window = 1
    EvictAfter = 1
    Capacity = 1
    MaxTime = 0
    MaxFaults = 1
    Analytics = TRUE
    Signals = 2
    MaxBuffer = 2
    PortalRequests <- NoRequests
    MaxPosts = 0

INVARIANTS
    RetryLosesNothing

CHECK_DEADLOCK FALSE
