\* Two workers and two messages in batches of two; three attempts, so that the
\* delays 1 and 2 both occur; one rollback.
CONSTANTS
    Messages = {1, 2}
    Workers = {w1, w2}
    BatchSize = 2
    MaxAttempts = 3
    InitialDelay = 1
    MaxTime = 4
    MaxRollbacks = 1
SPECIFICATION OutboxFairSpec
PROPERTIES
    ImplementsDelivery
    EventuallySettled
    SettledIsFinal
INVARIANTS
    NoSharedClaim
    DeliveriesAccounted
    AttemptsDecideStatus
    BatchesAreDueInOrder
