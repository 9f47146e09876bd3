------------------------------ MODULE Platform ------------------------------
(***************************************************************************)
(* The running application: one process with the outbox workers, the event *)
(* runtime and the lifecycle that ties them together (bootstrap/runtime.py *)
(* and the lifespan in main.py).                                           *)
(*                                                                         *)
(*   use cases, handlers --insert--> outbox rows --OutboxWorker--> queue   *)
(*   queue --EventRuntime--> handlers --returned events--> queue           *)
(*                                                                         *)
(* Every step is a step of one or two of the three components and leaves   *)
(* the others alone.  What ties them: EventRuntime.publish() is the        *)
(* transport of the outbox worker, which fails exactly while the runtime   *)
(* is stopping; a handler inserts its follow-up event in the outbox, in    *)
(* its own transaction, and also returns it to the runtime; the event      *)
(* runtime's start() and stop() are called by its managed worker.          *)
(***************************************************************************)
EXTENDS Outbox, EventRuntime, ApplicationRuntime

CONSTANTS
    Adapter,         \* the managed event runtime worker
    MaxErrors        \* bound: batches ended by a database error

VARIABLES
    carries,         \* the message of each accepted event, in the order of acceptance
    produced         \* the follow-up that the running handler committed, or 0

vars == <<outboxVars, runtimeVars, appVars, carries, produced>>

(* build_application_runtime wires one event runtime worker and, as the    *)
(* only workers on the table, the managed outbox workers; a handler        *)
(* returns at most one follow-up.  The bounds leave room for every start,  *)
(* cancellation and event: no step of the code is blocked by them.         *)
ASSUME PlatformAssumption ==
    /\ Messages \subseteq Nat \ {0}
    /\ IsFiniteSet(Messages)
    /\ Workers = Pollers
    /\ Adapters = {Adapter}
    /\ MaxFollowUps = 1
    /\ MaxAppStarts <= MaxStarts
    /\ MaxErrors + MaxAppStarts * Cardinality(Pollers) <= MaxRollbacks
    /\ MaxEvents >= (2 + MaxRollbacks) * Cardinality(Messages)

TypeOK ==
    /\ OutboxTypeOK
    /\ RuntimeTypeOK
    /\ AppTypeOK
    /\ carries \in Seq(Messages) /\ Len(carries) = accepted
    /\ produced \in {0} \cup Messages

Init ==
    /\ OutboxInit
    /\ RuntimeInit
    /\ AppInit
    /\ carries = <<>>
    /\ produced = 0

OutboxUnchanged == UNCHANGED outboxVars
RuntimeUnchanged == UNCHANGED <<runtimeVars, carries, produced>>
AppUnchanged == UNCHANGED appVars

-----------------------------------------------------------------------------
(* The API.                                                                *)

(* Messages are inserted in the order of their numbers.                    *)
IsFresh(m) == \A k \in Messages : k < m => row[k] # NoRow

(* A use case of the API commits its transaction.                          *)
UseCaseCommits(m) ==
    /\ started /\ phase = "idle"
    /\ IsFresh(m)
    /\ Enqueue(m)
    /\ RuntimeUnchanged /\ AppUnchanged

Lifecycle ==
    /\ AppStart \/ AppStop \/ StopTimeout \/ StopFinishes
    /\ OutboxUnchanged /\ RuntimeUnchanged

ClockTicks == Tick /\ RuntimeUnchanged /\ AppUnchanged

-----------------------------------------------------------------------------
(* The outbox worker w.                                                    *)

PollerStarts(w) == FirstStep(w) /\ OutboxUnchanged /\ RuntimeUnchanged

PollerResumes(w) == PollerWakes(w) /\ OutboxUnchanged /\ RuntimeUnchanged

InBatch(w) == Runs(w, "busy")

BatchBegins(w) ==
    /\ InBatch(w)
    /\ BeginBatch(w)
    /\ RuntimeUnchanged /\ AppUnchanged

BatchIsEmpty(w) ==
    /\ IdlePoll(w)
    /\ EmptyBatch(w)
    /\ RuntimeUnchanged

\* Variant: the worker marks the row before it publishes, and the refusal is not seen.
BatchPublishes_Refused(w, m) ==
    /\ InBatch(w)
    /\ PublishSucceeds(w, m)
    /\ \/ Publish /\ carries' = Append(carries, m)
       \/ stopping /\ UNCHANGED <<runtimeVars, carries>>
    /\ UNCHANGED produced
    /\ AppUnchanged

(* EventRuntime.publish() accepts the event, whether a loop runs or not.   *)
BatchPublishes(w, m) ==
    /\ InBatch(w)
    /\ PublishSucceeds(w, m)
    /\ Publish
    /\ carries' = Append(carries, m)
    /\ UNCHANGED produced
    /\ AppUnchanged

(* EventRuntime.publish() raises: it is stopping.                          *)
BatchIsRefused(w, m) ==
    /\ InBatch(w)
    /\ stopping
    /\ PublishFails(w, m)
    /\ RuntimeUnchanged /\ AppUnchanged

BatchCommits(w) ==
    /\ Commit(w)
    /\ FullBatch(w)
    /\ RuntimeUnchanged

(* A database error ends the batch; the worker waits for the next poll.    *)
BatchErrs(w) ==
    /\ rollbacks < MaxErrors
    /\ Rollback(w)
    /\ EmptyBatch(w)
    /\ RuntimeUnchanged

(* The worker's task is cancelled; an open transaction is rolled back.     *)
PollerIsCancelled(w) ==
    /\ w \in Pollers
    /\ CancelDelivered(w)
    /\ \/ claimed[w] # {} /\ Rollback(w)
       \/ claimed[w] = {} /\ OutboxUnchanged
    /\ RuntimeUnchanged

PollerStep(w) ==
    \/ PollerStarts(w)
    \/ PollerResumes(w)
    \/ BatchBegins(w)
    \/ BatchIsEmpty(w)
    \/ \E m \in Messages : BatchPublishes(w, m) \/ BatchIsRefused(w, m)
    \/ BatchCommits(w)
    \/ BatchErrs(w)
    \/ PollerIsCancelled(w)

-----------------------------------------------------------------------------
(* The event runtime worker.                                               *)

AdapterStarts ==
    /\ FirstStep(Adapter)
    /\ Start
    /\ UNCHANGED <<carries, produced>>
    /\ OutboxUnchanged

(* EventRuntime.stop(): asks the loop to stop, or reports how it ended.    *)
StopsLoop ==
    /\ StopRequest \/ FinalizeCompletedTask
    /\ UNCHANGED <<carries, produced>>

AdapterStops ==
    /\ AdapterWakes(Adapter)
    /\ StopsLoop
    /\ OutboxUnchanged

(* EventRuntime.stop() returns, the adapter's task is done.                *)
AdapterReturns ==
    /\ AdapterEnds(Adapter)
    /\ \/ StopReturn /\ UNCHANGED <<carries, produced>>
       \/ ~awaiting /\ RuntimeUnchanged
    /\ OutboxUnchanged

(* The adapter is cancelled before its first step, in its wait (then it    *)
(* still stops the loop), or in EventRuntime.stop() (then the loop and the *)
(* handler that runs are cancelled with it).                               *)
AdapterIsCancelled ==
    /\ CancelDelivered(Adapter)
    /\ \/ worker[Adapter] = "created" /\ RuntimeUnchanged
       \/ worker[Adapter] = "waiting" /\ StopsLoop
       \/ /\ worker[Adapter] = "busy"
          /\ \/ StopCancelled /\ produced' = 0 /\ UNCHANGED carries
             \/ StopReturn /\ UNCHANGED <<carries, produced>>
             \/ ~awaiting /\ RuntimeUnchanged
    /\ OutboxUnchanged

AdapterStep == AdapterStarts \/ AdapterStops \/ AdapterReturns \/ AdapterIsCancelled

-----------------------------------------------------------------------------
(* The loop of the event runtime and the handlers it calls.                *)

LoopTakes ==
    /\ TakeEvent \/ TakeStop
    /\ UNCHANGED <<carries, produced>>
    /\ OutboxUnchanged /\ AppUnchanged

(* The handler's session commits what the handler wrote and the outbox row *)
(* of its follow-up event m.                                               *)
HandlerCommits(m) ==
    /\ current # 0
    /\ produced = 0
    /\ IsFresh(m)
    /\ Enqueue(m)
    /\ produced' = m
    /\ UNCHANGED <<runtimeVars, carries>>
    /\ AppUnchanged

\* Variant: the follow-up is returned before its row is committed.
HandlerReturns_Uncommitted ==
    /\ \E m \in Messages :
          /\ row[m] = NoRow /\ produced = 0
          /\ DispatchCompletes(1)
          /\ carries' = Append(carries, m)
          /\ produced' = 0
    /\ OutboxUnchanged /\ AppUnchanged

(* The handler returns and the runtime queues the event it returned.       *)
HandlerReturns ==
    /\ \/ produced = 0 /\ DispatchCompletes(0) /\ UNCHANGED carries
       \/ produced # 0 /\ DispatchCompletes(1) /\ carries' = Append(carries, produced)
    /\ produced' = 0
    /\ OutboxUnchanged /\ AppUnchanged

(* The handler, or its commit, raises; its session is rolled back.         *)
HandlerFails ==
    /\ produced = 0
    /\ DispatchFails
    /\ UNCHANGED <<carries, produced>>
    /\ OutboxUnchanged /\ AppUnchanged

HandlerEnds == HandlerReturns \/ HandlerFails

LoopStep ==
    \/ LoopTakes
    \/ \E m \in Messages : HandlerCommits(m)
    \/ HandlerEnds

-----------------------------------------------------------------------------
Next ==
    \/ ClockTicks
    \/ \E m \in Messages : UseCaseCommits(m)
    \/ Lifecycle
    \/ \E w \in Pollers : PollerStep(w)
    \/ AdapterStep
    \/ LoopStep

Spec == Init /\ [][Next]_vars

(* Time passes, tasks that can run do run, batches and handlers end.       *)
Fairness ==
    /\ WF_vars(ClockTicks)
    /\ WF_vars(StopTimeout /\ Lifecycle)
    /\ WF_vars(StopFinishes /\ Lifecycle)
    /\ \A w \in Pollers : WF_vars(PollerStep(w))
    /\ WF_vars(AdapterStep)
    /\ WF_vars(LoopStep)

FairSpec == Spec /\ Fairness

-----------------------------------------------------------------------------
(* Properties.                                                             *)

Copies(m) == {e \in 1 .. accepted : carries[e] = m}

(* A row that says "published" is not lost between the database and the    *)
(* queue: the runtime accepted its event, and has taken it or still holds  *)
(* it.                                                                     *)
PublishedIsHeld ==
    \A m \in Messages : row[m].status = "published" =>
        \E e \in Copies(m) : e <= taken \/ \E i \in 1 .. Len(queue) : queue[i] = e

(* No event reaches a handler before the transaction that produced it is   *)
(* committed, whichever way it takes.                                      *)
NoPhantomEvent ==
    \A e \in 1 .. accepted : row[carries[e]] # NoRow

(* How often one event can reach the handlers: once through the outbox and *)
(* once returned by the handler that produced it, and once more for every  *)
(* batch that was rolled back after publishing it.                         *)
CopiesBounded ==
    \A m \in Messages : Cardinality(Copies(m)) <= 2 + undone[m]

Handled(m) == \E e \in Copies(m) : e <= taken

LoopIsDead == task \in {"failed", "exited"}

(* End to end: a committed message is taken by the handlers, or given up   *)
(* by the outbox, unless the application is stopped or its event loop is   *)
(* dead.                                                                   *)
EventuallyHandled ==
    \A m \in Messages :
        started /\ row[m].status = "pending" ~>
            Handled(m) \/ row[m].status = "failed" \/ shuttingDown \/ LoopIsDead

(* The application's stop() returns, with all three components in play.    *)
ShutdownCompletes == shuttingDown ~> ~shuttingDown
=============================================================================
