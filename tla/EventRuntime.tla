---------------------------- MODULE EventRuntime ----------------------------
(***************************************************************************)
(* The in-process event runtime (runtime/event_runtime.py): a FIFO queue,  *)
(* a background task that dispatches one event after another, and a stop   *)
(* marker that travels through the same queue.                             *)
(*                                                                         *)
(* Everything runs on one asyncio loop, so a step is what happens between  *)
(* two awaits that can suspend.  The queue is unbounded: put() never       *)
(* suspends, publish() is one step.  get() suspends on an empty queue, and *)
(* dispatching suspends in the handlers.                                   *)
(*                                                                         *)
(* Events are numbered in the order in which the queue accepted them, both *)
(* published events and the follow-up events that handlers return.         *)
(***************************************************************************)
EXTENDS Integers, Sequences

CONSTANTS
    MaxEvents,       \* bound: events accepted in a behaviour
    MaxFollowUps,    \* bound: follow-up events of one dispatch
    MaxStarts        \* bound: calls of start() that create a task

ASSUME RuntimeAssumption ==
    /\ MaxEvents \in Nat
    /\ MaxFollowUps \in Nat
    /\ MaxStarts \in Nat

VARIABLES
    queue,           \* _queue: event numbers and stop markers
    task,            \* _task: "none", "running", or done: "exited", "failed"
    stopping,        \* _stopping
    awaiting,        \* a stop() call waits for the task
    draining,        \* a process_until_idle() call is in progress
    current,         \* the event being dispatched, 0 if none
    accepted,        \* number of events accepted so far
    taken,           \* number of events taken from the queue so far
    stopMark,        \* events accepted when stop() was last called on a live task
    starts,          \* tasks created so far
    strayed          \* a marker was left in the queue by a loop that did not reach it

runtimeVars == <<queue, task, stopping, awaiting, draining, current, accepted,
                 taken, stopMark, starts, strayed>>

STOP == 0            \* _STOP, the marker object: not an event number

Event == 1 .. MaxEvents

Item == {STOP} \cup Event

RuntimeTypeOK ==
    /\ queue \in Seq(Item)
    /\ task \in {"none", "running", "exited", "failed"}
    /\ stopping \in BOOLEAN
    /\ awaiting \in BOOLEAN
    /\ draining \in BOOLEAN
    /\ current \in {0} \cup Event
    /\ accepted \in 0 .. MaxEvents
    /\ taken \in 0 .. accepted
    /\ stopMark \in 0 .. MaxEvents
    /\ starts \in 0 .. MaxStarts
    /\ strayed \in BOOLEAN

RuntimeInit ==
    /\ queue = <<>>
    /\ task = "none"
    /\ stopping = FALSE
    /\ awaiting = FALSE
    /\ draining = FALSE
    /\ current = 0
    /\ accepted = 0
    /\ taken = 0
    /\ stopMark = 0
    /\ starts = 0
    /\ strayed = FALSE

IsRunning == task = "running"

IsDone == task \in {"exited", "failed"}

-----------------------------------------------------------------------------
\* Variant: the put() is not awaited.
Publish_NotQueued ==
    /\ ~stopping
    /\ accepted < MaxEvents
    /\ accepted' = accepted + 1
    /\ UNCHANGED <<queue, task, stopping, awaiting, draining, current, taken, stopMark, starts, strayed>>

(* publish(): refused while stopping, accepted otherwise, whether or not a *)
(* task is there to take the event.                                        *)
Publish ==
    /\ ~stopping
    /\ accepted < MaxEvents
    /\ accepted' = accepted + 1
    /\ queue' = Append(queue, accepted + 1)
    /\ UNCHANGED <<task, stopping, awaiting, draining, current, taken, stopMark, starts, strayed>>

(* start(): a no-op while the task runs.  Its one caller, the event        *)
(* runtime worker, does not call it while its own stop() is waiting.       *)
Start ==
    /\ ~IsRunning
    /\ ~awaiting /\ ~draining
    /\ starts < MaxStarts
    /\ task' = "running"
    /\ stopping' = FALSE
    /\ starts' = starts + 1
    /\ UNCHANGED <<queue, awaiting, draining, current, accepted, taken, stopMark, strayed>>

\* Variant: the marker is not queued, stop() only sets the flag.
StopRequest_NoMarker ==
    /\ IsRunning
    /\ ~awaiting
    /\ stopping' = TRUE
    /\ awaiting' = TRUE
    /\ stopMark' = accepted
    /\ UNCHANGED <<queue, task, draining, current, accepted, taken, starts, strayed>>

\* Variant: the marker overtakes the queued events.
StopRequest_MarkerFirst ==
    /\ IsRunning
    /\ ~awaiting
    /\ stopping' = TRUE
    /\ awaiting' = TRUE
    /\ queue' = <<STOP>> \o queue
    /\ stopMark' = accepted
    /\ UNCHANGED <<task, draining, current, accepted, taken, starts, strayed>>

\* Variant: a task that has already ended is not told apart from a live one.
StopRequest_DoneTask ==
    /\ task # "none"
    /\ ~awaiting
    /\ stopping' = TRUE
    /\ awaiting' = TRUE
    /\ queue' = Append(queue, STOP)
    /\ stopMark' = accepted
    /\ UNCHANGED <<task, draining, current, accepted, taken, starts, strayed>>

(* stop() on a live task, up to its await.                                 *)
StopRequest ==
    /\ IsRunning
    /\ ~awaiting
    /\ stopping' = TRUE
    /\ awaiting' = TRUE
    /\ queue' = Append(queue, STOP)
    /\ stopMark' = accepted
    /\ UNCHANGED <<task, draining, current, accepted, taken, starts, strayed>>

(* The rest of stop(), after the task ended (its exception is re-raised).  *)
StopReturn ==
    /\ awaiting
    /\ IsDone
    /\ task' = "none"
    /\ stopping' = FALSE
    /\ awaiting' = FALSE
    /\ UNCHANGED <<queue, draining, current, accepted, taken, stopMark,
                   starts, strayed>>

(* stop() is cancelled while it waits: so is the task it waits for, and    *)
(* the handler that runs in it.                                            *)
StopCancelled ==
    /\ awaiting
    /\ IsRunning
    /\ task' = "none"
    /\ stopping' = FALSE
    /\ awaiting' = FALSE
    /\ current' = 0
    /\ strayed' = TRUE
    /\ UNCHANGED <<queue, draining, accepted, taken, stopMark, starts>>

(* stop() on a task that has already ended: _finalize_completed_task.      *)
FinalizeCompletedTask ==
    /\ IsDone
    /\ ~awaiting
    /\ task' = "none"
    /\ stopping' = FALSE
    /\ UNCHANGED <<queue, awaiting, draining, current, accepted, taken, stopMark, starts, strayed>>

-----------------------------------------------------------------------------
(* The background task: _run.                                              *)

Consuming == (IsRunning \/ draining) /\ current = 0 /\ queue # <<>>

(* get() returns an event: it is dispatched.                               *)
TakeEvent ==
    /\ Consuming
    /\ Head(queue) # STOP
    /\ current' = Head(queue)
    /\ taken' = taken + 1
    /\ queue' = Tail(queue)
    /\ UNCHANGED <<task, stopping, awaiting, draining, accepted, stopMark,
                   starts, strayed>>

(* get() returns a marker: the loop exits.  A marker that reaches the loop *)
(* although this stop() did not put it was left over by an earlier loop.   *)
TakeStop ==
    /\ Consuming
    /\ IsRunning
    /\ Head(queue) = STOP
    /\ queue' = Tail(queue)
    /\ task' = "exited"
    /\ UNCHANGED <<stopping, awaiting, draining, current, accepted, taken, stopMark, starts, strayed>>

\* Variant: follow-up events are put before what is queued.
DispatchCompletes_Front(n) ==
    /\ current # 0
    /\ accepted + n <= MaxEvents
    /\ current' = 0
    /\ queue' = [i \in 1 .. n |-> accepted + i] \o queue
    /\ accepted' = accepted + n
    /\ UNCHANGED <<task, stopping, awaiting, draining, taken, stopMark, starts, strayed>>

(* All handlers of the event returned; n follow-up events are queued, even *)
(* while stopping, when they end up behind the marker.                     *)
DispatchCompletes(n) ==
    /\ current # 0
    /\ accepted + n <= MaxEvents
    /\ current' = 0
    /\ queue' = queue \o [i \in 1 .. n |-> accepted + i]
    /\ accepted' = accepted + n
    /\ UNCHANGED <<task, stopping, awaiting, draining, taken, stopMark, starts, strayed>>

(* A handler raised: the exception ends the loop, or the drain.            *)
DispatchFails ==
    /\ current # 0
    /\ current' = 0
    /\ task' = IF IsRunning THEN "failed" ELSE task
    /\ draining' = FALSE
    /\ strayed' = (strayed \/ awaiting)
    /\ UNCHANGED <<queue, stopping, awaiting, accepted, taken, stopMark, starts>>

-----------------------------------------------------------------------------
(* process_until_idle(), the other mode: without a background task.        *)

BeginDrain ==
    /\ ~IsRunning
    /\ ~awaiting /\ ~draining
    /\ queue # <<>>
    /\ draining' = TRUE
    /\ UNCHANGED <<queue, task, stopping, awaiting, current, accepted, taken, stopMark, starts, strayed>>

SkipStop ==
    /\ draining
    /\ Consuming
    /\ Head(queue) = STOP
    /\ queue' = Tail(queue)
    /\ UNCHANGED <<task, stopping, awaiting, draining, current, accepted, taken, stopMark, starts, strayed>>

EndDrain ==
    /\ draining
    /\ current = 0
    /\ queue = <<>>
    /\ draining' = FALSE
    /\ UNCHANGED <<queue, task, stopping, awaiting, current, accepted, taken, stopMark, starts, strayed>>

-----------------------------------------------------------------------------
(* What the consumer does next, in either mode.                            *)
Consume ==
    \/ TakeEvent
    \/ TakeStop
    \/ SkipStop
    \/ DispatchFails
    \/ \E n \in 0 .. MaxFollowUps : DispatchCompletes(n)

RuntimeNext ==
    \/ Publish
    \/ Start
    \/ StopRequest
    \/ StopReturn
    \/ StopCancelled
    \/ FinalizeCompletedTask
    \/ Consume
    \/ BeginDrain
    \/ EndDrain

RuntimeSpec == RuntimeInit /\ [][RuntimeNext]_runtimeVars

(* Tasks that can run do run, and handlers end.  Nothing forces anybody to *)
(* publish, start or stop.                                                 *)
RuntimeFairSpec ==
    /\ RuntimeSpec
    /\ WF_runtimeVars(Consume)
    /\ WF_runtimeVars(StopReturn)
    /\ WF_runtimeVars(EndDrain)

-----------------------------------------------------------------------------
(* Properties.                                                             *)

IsEvent(item) == item # STOP

(* No accepted event is lost, duplicated or overtaken in the queue: what   *)
(* it still holds is exactly the events accepted and not yet taken, in the *)
(* order in which they were accepted, whatever starts, stops, failures and *)
(* follow-ups came in between.                                             *)
QueueKeepsOrder ==
    /\ \A i \in 1 .. Len(queue) : IsEvent(queue[i]) => queue[i] \in taken + 1 .. accepted
    /\ \A e \in taken + 1 .. accepted : \E i \in 1 .. Len(queue) : queue[i] = e
    /\ \A i, j \in 1 .. Len(queue) :
          i < j /\ IsEvent(queue[i]) /\ IsEvent(queue[j]) => queue[i] < queue[j]

(* stop() keeps its promise to the events published before it: when the    *)
(* loop exits by a marker, they have all been taken.  This takes that no   *)
(* earlier loop died or was cancelled with its own marker still queued.    *)
StopDrains ==
    [][StopReturn /\ task = "exited" /\ ~strayed => taken >= stopMark]_runtimeVars

(* The loop exits by a marker only while a stop() waits for it, unless an  *)
(* earlier loop left a marker in the queue: it does not stop by itself.    *)
NoSpontaneousExit ==
    task = "exited" => awaiting \/ strayed

(* stop() returns: follow-up events that handlers keep producing queue up  *)
(* behind the marker and cannot postpone it.                               *)
StopTerminates == awaiting ~> ~awaiting

(* An accepted event is dispatched, as long as the loop that should do it  *)
(* is not stopped and does not die.                                        *)
AcceptedIsTaken ==
    \A e \in Event : (IsRunning /\ accepted >= e) ~> (taken >= e \/ ~IsRunning)
=============================================================================
