\* Two watchers, whose Watch ops race for watch_started, over one-slot rings.
SPECIFICATION Spec
CONSTANTS
    Ops = {}
    Watchers = {w1, w2}
    None = None
    RingSlots = 1
    MaxEvents = 1
    MaxGarbage = 1
INVARIANTS TypeOK NoOrphanStream OwnAnswer GoneMeansDead
PROPERTIES WokenOnDeath StreamsEnd
CHECK_DEADLOCK FALSE
