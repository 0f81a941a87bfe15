\* One op and one stream of a client whose lane may die at any moment.
SPECIFICATION MeshSpec
CONSTANTS
    Ops = {o1}
    Watchers = {w1}
    None = None
    RingSlots = 1
    MaxEvents = 1
    MaxGarbage = 1
INVARIANTS MeshTypeOK AnsweredIsNeverRetried
PROPERTY ImplementsMeshOp
CHECK_DEADLOCK FALSE
