\* One life of the application, with one database error.
CONSTANTS
    Messages = {1, 2}
    BatchSize = 1
    MaxAttempts = 2
    InitialDelay = 1
    MaxTime = 1
    MaxRollbacks = 2
    MaxEvents = 8
    MaxStarts = 1
    MaxFollowUps = 1
    MaxAppStarts = 1
    Workers = {outbox}
    Adapters = {event_runtime}
    Pollers = {outbox}
    Adapter = event_runtime
    MaxErrors = 1
SPECIFICATION FairSpec
PROPERTIES
    EventuallyHandled
    ShutdownCompletes
CHECK_DEADLOCK FALSE
