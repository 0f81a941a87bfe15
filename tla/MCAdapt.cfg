\* Two flows through one-slot rings, and one thread that cannot be created.
SPECIFICATION Spec
CONSTANTS
    f1 = f1
    f2 = f2
    Busy = 2
    Frames = 2
    Flow <- MCFlow
    Requests <- MCRequests
    Responses <- MCResponses
    RingSlots = 1
    MaxFaults = 1
INVARIANTS TypeOK ForwardedInOrder RelayedVerbatim SettledOnce
PROPERTY TeardownPropagates
CHECK_DEADLOCK FALSE
