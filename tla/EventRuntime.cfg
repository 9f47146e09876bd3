\* Five events, up to two follow-ups per dispatch, four tasks one after another.
CONSTANTS
    MaxEvents = 5
    MaxFollowUps = 2
    MaxStarts = 4
SPECIFICATION RuntimeFairSpec
INVARIANTS
    QueueKeepsOrder
    NoSpontaneousExit
PROPERTIES
    StopTerminates
    AcceptedIsTaken
    StopDrains
CHECK_DEADLOCK FALSE
