------------------------------- MODULE Outbox -------------------------------
(***************************************************************************)
(* The transactional outbox: the outbox_messages table, the use cases that *)
(* insert rows in it, and the polling workers that publish them.           *)
(*                                                                         *)
(* A worker (workers/outbox_worker.py) runs one batch after another.  A    *)
(* batch is one database transaction (SessionScopedOutboxPublisher): it    *)
(* selects and locks the rows that are due (FOR UPDATE SKIP LOCKED),       *)
(* publishes them one at a time, writes the new state of each row, and     *)
(* commits at the end.  What it wrote is visible to nobody else, and its   *)
(* locks are held, until then.  Anything that ends the transaction early   *)
(* (a database error, a cancelled task, a crash) discards the writes and   *)
(* releases the locks, but cannot take back what was published.            *)
(***************************************************************************)
EXTENDS Integers, FiniteSets

CONSTANTS
    Messages,        \* outbox_messages.id of the rows, in primary-key order
    Workers,         \* concurrent outbox workers: API processes, the CLI worker
    BatchSize,       \* OutboxWorkerSettings.batch_size
    MaxAttempts,     \* OutboxWorkerSettings.max_attempts
    InitialDelay,    \* OutboxWorkerSettings.initial_retry_delay_seconds
    MaxTime,         \* bound: the clock stops here
    MaxRollbacks     \* bound: batches that end in a rollback

ASSUME OutboxAssumption ==
    /\ Messages \subseteq Nat
    /\ BatchSize \in Nat \ {0}
    /\ MaxAttempts \in Nat \ {0}
    /\ InitialDelay \in Nat \ {0}
    /\ MaxTime \in Nat
    /\ MaxRollbacks \in Nat

VARIABLES
    now,             \* the clock the workers and the use cases read
    row,             \* [Messages -> Row]: the committed table
    claimed,         \* [Workers -> SUBSET Messages]: rows locked by the open batch
    draft,           \* [Workers -> [Messages -> Row or NoRow]]: its uncommitted updates
    delivered,       \* [Messages -> Nat]: times the transport accepted the event
    undone,          \* [Messages -> Nat]: history, published updates that were rolled back
    rollbacks        \* number of batches that ended in a rollback

outboxVars == <<now, row, claimed, draft, delivered, undone, rollbacks>>

Statuses == {"pending", "published", "failed"}

(* The columns the lifecycle depends on.  The event itself is the identity *)
(* of the message; published_at, last_attempt_at and last_error are only   *)
(* reported.                                                               *)
Row == [status : Statuses, attempt_count : Nat, created_at : Nat, available_at : Int]

NoRow == [status |-> "none"]

OutboxTypeOK ==
    /\ now \in Nat
    /\ row \in [Messages -> Row \cup {NoRow}]
    /\ claimed \in [Workers -> SUBSET Messages]
    /\ draft \in [Workers -> [Messages -> Row \cup {NoRow}]]
    /\ delivered \in [Messages -> Nat]
    /\ undone \in [Messages -> Nat]
    /\ rollbacks \in Nat

OutboxInit ==
    /\ now = 0
    /\ row = [m \in Messages |-> NoRow]
    /\ claimed = [w \in Workers |-> {}]
    /\ draft = [w \in Workers |-> [m \in Messages |-> NoRow]]
    /\ delivered = [m \in Messages |-> 0]
    /\ undone = [m \in Messages |-> 0]
    /\ rollbacks = 0

-----------------------------------------------------------------------------
(* The entity: OutboxMessage.                                              *)

Create == [status |-> "pending", attempt_count |-> 0,
           created_at |-> now, available_at |-> now]

MarkAttempted(r) == [r EXCEPT !.attempt_count = @ + 1]

WithStatus(r, s) == [r EXCEPT !.status = s]

MarkPublished(r) == WithStatus(r, "published")

\* Variant: a status value that the enum does not know.
MarkFailed_UnknownStatus(r) == WithStatus(MarkAttempted(r), "dead")

\* Variant: the attempt that failed is not counted.
MarkFailed_NotCounted(r) == WithStatus(r, "failed")

(* mark_failed without retry_at.                                           *)
MarkFailed(r) == WithStatus(MarkAttempted(r), "failed")

\* Variant: a retry leaves the pending state.
MarkRetry_NotPending(r, retryAt) ==
    [WithStatus(MarkAttempted(r), "retry") EXCEPT !.available_at = retryAt]

(* mark_failed with retry_at.                                              *)
MarkRetry(r, retryAt) ==
    [WithStatus(MarkAttempted(r), "pending") EXCEPT !.available_at = retryAt]

\* Variant: a constant delay instead of an exponential one.
RetryDelay_Constant(n) == InitialDelay

(* _calculate_retry_delay: the delay after the n-th failed attempt.        *)
RetryDelay(n) == InitialDelay * 2 ^ (n - 1)

\* Variant: the publisher's exception is swallowed.
AfterFailure_Swallowed(r) == MarkPublished(MarkAttempted(r))

(* _mark_failed: the state a row takes when publishing it raised.          *)
AfterFailure(r) ==
    IF r.attempt_count + 1 >= MaxAttempts
    THEN MarkFailed(r)
    ELSE MarkRetry(r, now + RetryDelay(r.attempt_count + 1))

-----------------------------------------------------------------------------
(* The repository: list_available.                                         *)

Locked(m) == \E w \in Workers : m \in claimed[w]

\* Variant: the query does not filter on the status.
IsAvailable_AnyStatus(m) == row[m] # NoRow /\ row[m].available_at <= now

IsAvailable(m) == row[m].status = "pending" /\ row[m].available_at <= now

\* Variant: a plain SELECT, without FOR UPDATE SKIP LOCKED.
Available_NotLocked == {m \in Messages : IsAvailable(m)}

Available == {m \in Messages : IsAvailable(m) /\ ~Locked(m)}

(* ORDER BY available_at, created_at, id                                   *)
Precedes(m, n) ==
    LET a == row[m]
        b == row[n]
    IN  \/ a.available_at < b.available_at
        \/ /\ a.available_at = b.available_at
           /\ \/ a.created_at < b.created_at
              \/ a.created_at = b.created_at /\ m < n

(* LIMIT batch_size, after the locked rows have been skipped.              *)
Selected ==
    {m \in Available : Cardinality({n \in Available : Precedes(n, m)}) < BatchSize}

-----------------------------------------------------------------------------
(* A use case commits its transaction, which inserted row m.               *)
Enqueue(m) ==
    /\ row[m] = NoRow
    /\ row' = [row EXCEPT ![m] = Create]
    /\ UNCHANGED <<now, claimed, draft, delivered, undone, rollbacks>>

Tick ==
    /\ now < MaxTime
    /\ now' = now + 1
    /\ UNCHANGED <<row, claimed, draft, delivered, undone, rollbacks>>

(* Worker w starts a batch: it reads the clock and locks what is due.      *)
BeginBatch(w) ==
    /\ claimed[w] = {}
    /\ Selected # {}
    /\ claimed' = [claimed EXCEPT ![w] = Selected]
    /\ UNCHANGED <<now, row, draft, delivered, undone, rollbacks>>

(* Nothing is due: the empty batch commits, the worker waits for the poll. *)
IdlePoll(w) ==
    /\ claimed[w] = {}
    /\ Selected = {}
    /\ UNCHANGED outboxVars

Processed(w) == {m \in claimed[w] : draft[w][m] # NoRow}

(* The message the loop over the selected rows has come to.                *)
IsNext(w, m) ==
    /\ m \in claimed[w] \ Processed(w)
    /\ \A n \in claimed[w] \ Processed(w) : n = m \/ Precedes(m, n)

\* Variant: publish() is called but not awaited.
PublishSucceeds_NotAwaited(w, m) ==
    /\ IsNext(w, m)
    /\ draft' = [draft EXCEPT ![w][m] = MarkPublished(MarkAttempted(row[m]))]
    /\ UNCHANGED <<now, row, claimed, delivered, undone, rollbacks>>

(* The publisher accepts the event, the row is marked published.           *)
PublishSucceeds(w, m) ==
    /\ IsNext(w, m)
    /\ delivered' = [delivered EXCEPT ![m] = @ + 1]
    /\ draft' = [draft EXCEPT ![w][m] = MarkPublished(MarkAttempted(row[m]))]
    /\ UNCHANGED <<now, row, claimed, undone, rollbacks>>

(* The publisher raises; the loop goes on with the next message.  A retry  *)
(* that would only be due after MaxTime is beyond the bound.               *)
PublishFails(w, m) ==
    /\ IsNext(w, m)
    /\ AfterFailure(row[m]).available_at <= MaxTime
    /\ draft' = [draft EXCEPT ![w][m] = AfterFailure(row[m])]
    /\ UNCHANGED <<now, row, claimed, delivered, undone, rollbacks>>

(* The session of worker w is closed: no lock and no draft is left.        *)
CloseSession(w) ==
    /\ claimed' = [claimed EXCEPT ![w] = {}]
    /\ draft' = [draft EXCEPT ![w] = [m \in Messages |-> NoRow]]

Commit(w) ==
    /\ claimed[w] # {}
    /\ Processed(w) = claimed[w]
    /\ row' = [m \in Messages |-> IF m \in claimed[w] THEN draft[w][m] ELSE row[m]]
    /\ CloseSession(w)
    /\ UNCHANGED <<now, delivered, undone, rollbacks>>

(* The batch ends before its commit: an update or the commit raised, the   *)
(* task was cancelled, or the process died.  The events it published stay  *)
(* published.                                                              *)
Rollback(w) ==
    /\ claimed[w] # {}
    /\ rollbacks < MaxRollbacks
    /\ rollbacks' = rollbacks + 1
    /\ undone' = [m \in Messages |->
                    IF draft[w][m].status = "published" THEN undone[m] + 1 ELSE undone[m]]
    /\ CloseSession(w)
    /\ UNCHANGED <<now, row, delivered>>

PublishNext(w) == \E m \in Messages : PublishSucceeds(w, m) \/ PublishFails(w, m)

OutboxNext ==
    \/ Tick
    \/ \E m \in Messages : Enqueue(m)
    \/ \E w \in Workers :
          BeginBatch(w) \/ IdlePoll(w) \/ PublishNext(w) \/ Commit(w) \/ Rollback(w)

OutboxSpec == OutboxInit /\ [][OutboxNext]_outboxVars

(* A running worker keeps polling, a batch that started keeps going (each  *)
(* await of it completes), and time passes.  Nothing forces a use case to  *)
(* add a message or a batch to roll back.                                  *)
OutboxFairness ==
    /\ WF_outboxVars(Tick)
    /\ \A w \in Workers :
          /\ WF_outboxVars(BeginBatch(w))
          /\ WF_outboxVars(PublishNext(w))
          /\ WF_outboxVars(Commit(w))

OutboxFairSpec == OutboxSpec /\ OutboxFairness

-----------------------------------------------------------------------------
(* Properties.                                                             *)

(* No two workers ever work on the same row: what FOR UPDATE SKIP LOCKED   *)
(* is there for, and what keeps one event from being published by two      *)
(* batches at the same time.                                               *)
NoSharedClaim ==
    \A v, w \in Workers : v # w => claimed[v] \cap claimed[w] = {}

BoolToNat(b) == IF b THEN 1 ELSE 0

InFlight(m) == \E w \in Workers : draft[w][m].status = "published"

(* Every delivery of an event is accounted for: by its row being           *)
(* published, by an open batch that will commit that, or by a batch that   *)
(* rolled back after publishing.  So a published event was delivered, and  *)
(* it is delivered twice only if a batch was rolled back in between.       *)
DeliveriesAccounted ==
    \A m \in Messages :
        delivered[m] = undone[m] + BoolToNat(row[m].status = "published")
                                 + BoolToNat(InFlight(m))

(* The attempts a row records decide its status: a pending row still has   *)
(* an attempt left, and a row is given up exactly when all of them failed. *)
AttemptsDecideStatus ==
    \A m \in Messages : row[m] # NoRow =>
        /\ row[m].attempt_count <= MaxAttempts
        /\ row[m].status = "pending" => row[m].attempt_count < MaxAttempts
        /\ row[m].status = "failed" => row[m].attempt_count = MaxAttempts

(* A batch keeps to the query: however the batches of the workers          *)
(* interleave, attempt n + 1 of a message is not made until the n delays   *)
(* before it have passed since the message was created (the exponential    *)
(* back-off adds up); and when a message of a batch has been published or  *)
(* failed, so have all those that were due before it.                      *)
BatchesAreDueInOrder ==
    \A w \in Workers : \A m \in claimed[w] :
        /\ now >= row[m].created_at + InitialDelay * (2 ^ row[m].attempt_count - 1)
        /\ m \in Processed(w) => {n \in claimed[w] : Precedes(n, m)} \subseteq Processed(w)

(* A published or failed row is never written again, by any batch.         *)
SettledIsFinal ==
    [][\A m \in Messages :
          row[m].status \in {"published", "failed"} => row'[m] = row[m]]_outboxVars

(* The table's own column is the abstract state of the message.            *)
Delivery == INSTANCE AtLeastOnceDelivery
            WITH state <- [m \in Messages |-> row[m].status], delivered <- delivered

(* The outbox implements at-least-once delivery: a committed "published"   *)
(* always has a delivery behind it, and no event is delivered once its row *)
(* is settled.                                                             *)
ImplementsDelivery == Delivery!DeliverySpec

(* Every message is published or given up in the end, whatever the other   *)
(* worker does and although batches may be rolled back.                    *)
EventuallySettled ==
    \A m \in Messages :
        (row[m].status = "pending") ~> (row[m].status \in {"published", "failed"})
=============================================================================
