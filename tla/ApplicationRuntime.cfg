\* Two outbox workers and the event runtime worker, started three times.
CONSTANTS
    Pollers = {outbox, outbox2}
    Adapters = {event_runtime}
    MaxAppStarts = 3
SPECIFICATION AppFairSpec
INVARIANTS
    NoOrphanTask
PROPERTIES
    EndsOnlyOnRequest
CHECK_DEADLOCK FALSE
