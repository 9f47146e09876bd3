\* Two messages, one restart; rollbacks come from cancelled batches.
CONSTANTS
    Messages = {1, 2}
    BatchSize = 2
    MaxAttempts = 2
    InitialDelay = 1
    MaxTime = 1
    MaxRollbacks = 2
    MaxEvents = 8
    MaxStarts = 2
    MaxFollowUps = 1
    MaxAppStarts = 2
    Workers = {outbox}
    Adapters = {event_runtime}
    Pollers = {outbox}
    Adapter = event_runtime
    MaxErrors = 0
SPECIFICATION Spec
INVARIANTS
    TypeOK
    PublishedIsHeld
    NoPhantomEvent
    CopiesBounded
CHECK_DEADLOCK FALSE
