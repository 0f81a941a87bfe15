\* locate() and call() over three remote instances, the local one, and three faults.
SPECIFICATION Spec
CONSTANTS
    self = self
    r1 = r1
    r2 = r2
    r3 = r3
    gpu = gpu
    east = east
    as1 = as1
    again = again
    Domain = {east, as1}
    Unknown = Unknown
    Node <- MCNode
    Listing <- MCListing
    NodeOf <- MCNodeOf
    Self = self
    Entry <- MCEntry
    Capability = {gpu}
    Beacon <- MCBeacon
    Jitter <- MCJitter
    JitterMax = 4
    FullCores = 2
    FullMem = 2
    MaxStale = 2
    Wants = {2, 3}
    MinCandidates = 3
    Now = 3
    MaxNow = 4
    MaxFaults = 3
INVARIANTS TypeOK BestAreChosen SpreadCovers FailsOnlyIfAllFail FirstReplyIsFinal
