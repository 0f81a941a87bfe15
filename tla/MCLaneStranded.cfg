\* Is every op woken when the lane dies?
SPECIFICATION Spec
CONSTANTS
    Ops = {o1}
    Watchers = {}
    None = None
    RingSlots = 1
    MaxEvents = 0
    MaxGarbage = 0
PROPERTY NoCallerWaitsForever
CHECK_DEADLOCK FALSE
