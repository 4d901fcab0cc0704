SPECIFICATION Spec
CONSTANTS
    Me = Me
    Other = Other
    a1 = a1
    a2 = a2
    Addresses = {a1, a2}
    None = None
    ARP_INTERVAL = 2
    Timeout = 3
    MaxCalls = 2
    MaxLeases = 3
    ClockCap = 6
INVARIANTS ReachedIsOwn
PROPERTIES ReadyIsSeen CallsEnd
CHECK_DEADLOCK FALSE
