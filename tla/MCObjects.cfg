\* Two objects with common chunks, put and got concurrently.
SPECIFICATION Spec
CONSTANTS
    a = a
    b = b
    Object <- MCObject
    ChunkSize = 2
    Concurrency = 2
    MaxFaults = 2
INVARIANTS TypeOK ManifestIsComplete GetIsExact
CHECK_DEADLOCK FALSE
