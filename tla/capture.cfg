\* Alice's SDK buffers two of her three signals; two threads, one fault.
SPECIFICATION LiveSpec

CONSTANTS
    Events = {1, 2, 3, 11, 12}
    Customers = {"alice", "bob"}
    CustomerOf <- MCCustomerOf
    Malformed = {12}
    Verified <- Unbound
    Threads = {1, 2}
    Limit = 2
    Window = 1
    EvictAfter = 1
    Capacity = 1
    MaxTime = 1
    MaxFaults = 1
    Analytics = TRUE
    Signals = 3
    MaxBuffer = 2
    PortalRequests <- MCPortalRequests
    MaxPosts = 1

INVARIANTS
    TypeOK
    NothingVanishes
    NewestKept

PROPERTIES
    RefusedOverLimit
    BufferDrains

CHECK_DEADLOCK FALSE
