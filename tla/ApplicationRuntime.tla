------------------------- MODULE ApplicationRuntime -------------------------
(***************************************************************************)
(* The lifecycle of the background workers: ApplicationRuntime starts one  *)
(* asyncio task per managed worker, asks all workers to stop, waits for    *)
(* their tasks with a timeout and cancels those that are overdue.          *)
(*                                                                         *)
(* The two kinds of workers react differently.  A poller (OutboxWorker)    *)
(* runs one batch after another, sleeps when there is nothing to do, and   *)
(* looks at its stop event between batches.  An adapter                    *)
(* (EventRuntimeWorker) sleeps until its stop event is set, or until it is *)
(* cancelled, and in both cases then stops the event runtime.              *)
(*                                                                         *)
(* A step is what happens between two awaits that suspend.  stop() of a    *)
(* worker only sets its event, so all stop requests are one step.          *)
(***************************************************************************)
EXTENDS Naturals

CONSTANTS
    Pollers,         \* managed workers with the loop of OutboxWorker.run_forever
    Adapters,        \* managed workers with the body of EventRuntimeWorker.run_forever
    MaxAppStarts     \* bound: calls of start() that start the workers

ASSUME AppAssumption ==
    /\ Pollers \cap Adapters = {}
    /\ MaxAppStarts \in Nat

VARIABLES
    started,         \* _started
    phase,           \* of stop(): "idle", "waiting" for the tasks, "gathering"
    worker,          \* [ManagedWorkers -> state of the task, see WorkerState]
    flag,            \* [ManagedWorkers -> BOOLEAN]: the worker's stop event
    cancelling,      \* tasks that were cancelled and have not noticed yet
    requested,       \* history: workers asked to stop since their task was created
    appStarts        \* number of times the workers were started

appVars == <<started, phase, worker, flag, cancelling, requested, appStarts>>

ManagedWorkers == Pollers \cup Adapters

(* "created": scheduled, not a step done.  "busy": a poller in a batch, an *)
(* adapter in EventRuntime.stop().  "waiting": in the wait for the next    *)
(* poll, or for the stop event.  "ended": the task is done.                *)
WorkerState == {"none", "created", "busy", "waiting", "ended"}

Live(w) == worker[w] \in {"created", "busy", "waiting"}

shuttingDown == phase # "idle"                 \* _stopping

AppTypeOK ==
    /\ started \in BOOLEAN
    /\ phase \in {"idle", "waiting", "gathering"}
    /\ worker \in [ManagedWorkers -> WorkerState]
    /\ flag \in [ManagedWorkers -> BOOLEAN]
    /\ cancelling \in SUBSET {w \in ManagedWorkers : Live(w)}
    /\ requested \in SUBSET ManagedWorkers
    /\ appStarts \in 0 .. MaxAppStarts

AppInit ==
    /\ started = FALSE
    /\ phase = "idle"
    /\ worker = [w \in ManagedWorkers |-> "none"]
    /\ flag = [w \in ManagedWorkers |-> FALSE]
    /\ cancelling = {}
    /\ requested = {}
    /\ appStarts = 0

-----------------------------------------------------------------------------
(* start() and stop().                                                     *)

(* start(): one task per worker; none of them has run when start returns.  *)
AppStart ==
    /\ ~started
    /\ appStarts < MaxAppStarts
    /\ started' = TRUE
    /\ worker' = [w \in ManagedWorkers |-> "created"]
    /\ requested' = {}
    /\ appStarts' = appStarts + 1
    /\ UNCHANGED <<phase, flag, cancelling>>

(* stop() up to its wait.  A second stop() meanwhile returns at once.      *)
AppStop ==
    /\ started
    /\ ~shuttingDown
    /\ phase' = "waiting"
    /\ flag' = [w \in ManagedWorkers |-> TRUE]
    /\ requested' = ManagedWorkers
    /\ UNCHANGED <<started, worker, cancelling, appStarts>>

\* Variant: overdue tasks are gathered without being cancelled.
StopTimeout_NoCancel ==
    /\ phase = "waiting"
    /\ \E w \in ManagedWorkers : Live(w)
    /\ phase' = "gathering"
    /\ UNCHANGED <<started, worker, flag, cancelling, requested, appStarts>>

(* shutdown_timeout_seconds have passed: what is pending is cancelled.     *)
StopTimeout ==
    /\ phase = "waiting"
    /\ \E w \in ManagedWorkers : Live(w)
    /\ phase' = "gathering"
    /\ cancelling' = {w \in ManagedWorkers : Live(w)}
    /\ UNCHANGED <<started, worker, flag, requested, appStarts>>

\* Variant: the cancelled tasks are not awaited.
StopFinishes_NoGather ==
    /\ shuttingDown
    /\ phase = "waiting" => \A w \in ManagedWorkers : ~Live(w)
    /\ started' = FALSE
    /\ phase' = "idle"
    /\ UNCHANGED <<worker, flag, cancelling, requested, appStarts>>

(* The wait, or the gather, is over when every task is done.               *)
StopFinishes ==
    /\ shuttingDown
    /\ \A w \in ManagedWorkers : ~Live(w)
    /\ started' = FALSE
    /\ phase' = "idle"
    /\ UNCHANGED <<worker, flag, cancelling, requested, appStarts>>

-----------------------------------------------------------------------------
(* The tasks of the workers.                                               *)

Runs(w, s) == worker[w] = s /\ w \notin cancelling

Becomes(w, s) ==
    /\ worker' = [worker EXCEPT ![w] = s]
    /\ UNCHANGED <<started, phase, requested, appStarts>>

\* Variant: the stop event of the previous run is not cleared.
FirstStep_NotCleared(w) ==
    /\ Runs(w, "created")
    /\ Becomes(w, IF w \in Adapters THEN "waiting" ELSE IF flag[w] THEN "ended" ELSE "busy")
    /\ UNCHANGED <<flag, cancelling>>

(* The first step of run_forever clears the stop event, whoever set it.    *)
FirstStep(w) ==
    /\ Runs(w, "created")
    /\ Becomes(w, IF w \in Adapters THEN "waiting" ELSE "busy")
    /\ flag' = [flag EXCEPT ![w] = FALSE]
    /\ UNCHANGED cancelling

(* while not self._stop_event.is_set(): the next batch, or the end.        *)
NextBatch(w) ==
    /\ Becomes(w, IF flag[w] THEN "ended" ELSE "busy")
    /\ UNCHANGED <<flag, cancelling>>

(* A batch that published something: the next one follows immediately.     *)
FullBatch(w) ==
    /\ w \in Pollers
    /\ Runs(w, "busy")
    /\ NextBatch(w)

(* An empty batch, or one that raised: wait for the poll.                  *)
EmptyBatch(w) ==
    /\ w \in Pollers
    /\ Runs(w, "busy")
    /\ Becomes(w, "waiting")
    /\ UNCHANGED <<flag, cancelling>>

\* Variant: the wait for the stop event has no timeout.
PollerWakes_NoTimeout(w) ==
    /\ w \in Pollers
    /\ Runs(w, "waiting")
    /\ flag[w]
    /\ NextBatch(w)

(* The poll interval has passed or the stop event was set.                 *)
PollerWakes(w) ==
    /\ w \in Pollers
    /\ Runs(w, "waiting")
    /\ NextBatch(w)

AdapterWakes(w) ==
    /\ w \in Adapters
    /\ Runs(w, "waiting")
    /\ flag[w]
    /\ Becomes(w, "busy")
    /\ UNCHANGED <<flag, cancelling>>

(* EventRuntime.stop() returned or raised.                                 *)
AdapterEnds(w) ==
    /\ w \in Adapters
    /\ Runs(w, "busy")
    /\ Becomes(w, "ended")
    /\ UNCHANGED <<flag, cancelling>>

(* The task notices its cancellation.  An adapter that was waiting for its *)
(* stop event still stops the event runtime (finally); the others end.     *)
CancelDelivered(w) ==
    /\ w \in cancelling
    /\ cancelling' = cancelling \ {w}
    /\ Becomes(w, IF w \in Adapters /\ worker[w] = "waiting" THEN "busy" ELSE "ended")
    /\ UNCHANGED flag

WorkerStep(w) ==
    \/ FirstStep(w)
    \/ FullBatch(w)
    \/ EmptyBatch(w)
    \/ PollerWakes(w)
    \/ AdapterWakes(w)
    \/ AdapterEnds(w)
    \/ CancelDelivered(w)

AppNext ==
    \/ AppStart
    \/ AppStop
    \/ StopTimeout
    \/ StopFinishes
    \/ \E w \in ManagedWorkers : WorkerStep(w)

AppSpec == AppInit /\ [][AppNext]_appVars

(* Tasks that can run do run, batches and handlers end, the clock moves.   *)
(* Nobody has to start or stop the application.                            *)
AppFairness ==
    /\ WF_appVars(StopTimeout)
    /\ WF_appVars(StopFinishes)
    /\ \A w \in ManagedWorkers : WF_appVars(WorkerStep(w))

AppFairSpec == AppSpec /\ AppFairness

-----------------------------------------------------------------------------
(* Properties.                                                             *)

(* When stop() has returned, no task of a worker is left running, although *)
(* stop() gives up waiting for it: so the lifespan may dispose the engine, *)
(* and a later start() does not run a worker twice.                        *)
NoOrphanTask == ~started => \A w \in ManagedWorkers : ~Live(w)

(* A worker's task ends only when it was asked to in this run: a stop of   *)
(* an earlier run, whose event is still set, does not end the next one.    *)
EndsOnlyOnRequest ==
    [][\A w \in ManagedWorkers :
          Live(w) /\ worker'[w] = "ended" => w \in requested]_appVars
=============================================================================
