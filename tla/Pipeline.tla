------------------------------ MODULE Pipeline ------------------------------
(***************************************************************************)
(* The trace-processing pipeline: what the four workers do to the database *)
(* when the events that drive them are delivered more than once, after a   *)
(* restart, or not at all.                                                 *)
(*                                                                         *)
(*   artifact --ParserWorker--> parsed trace --NormalizerWorker-->         *)
(*   operational events --ChunkWorker--> chunks --EmbeddingWorker-->       *)
(*   embeddings                                                            *)
(*                                                                         *)
(* One loop dispatches the events of the process, one after another, and   *)
(* each handler runs in a transaction of its own (SessionScopedEventHandler*)
(* commits it or rolls it back): to the other steps a handler is atomic.   *)
(* The way events take is reduced to what Platform.tla shows of it.  Every *)
(* event of a worker is queued when the worker returns it and once more    *)
(* through its outbox row; a batch that is rolled back delivers once more; *)
(* the queue is gone when the process ends, the outbox is not.             *)
(***************************************************************************)
EXTENDS Naturals, Sequences

CONSTANTS
    Artifacts,       \* submitted files, told apart by their hash
    TraceOf,         \* [Artifacts -> traces]: (tenant_id, trace_id) of the submission
    TestcaseOf,      \* [Artifacts -> test cases or NoTestcase]
    NoTestcase,      \* testcase_id is None
    Barren,          \* artifacts in whose trace no evidence is found
    MaxEvents,       \* bound: events created
    MaxRedeliveries, \* bound: outbox batches rolled back after publishing
    MaxOutages,      \* bound: handlers that raise for reasons outside the data
    MaxRestarts      \* bound: restarts of the process

ASSUME PipelineAssumption ==
    /\ Barren \subseteq Artifacts
    /\ MaxEvents \in Nat
    /\ MaxRedeliveries \in Nat
    /\ MaxOutages \in Nat
    /\ MaxRestarts \in Nat

VARIABLES
    status,          \* source_artifacts.status; "none" without a row
    snapshot,        \* parsed_traces: the artifact whose parse is stored for a trace
    operational,     \* operational_events: the snapshots normalized, in order
    chunked,         \* trace_chunks: how much of operational they cover, 0 if none
    embedded,        \* embedding_records: every chunk of the trace has one
    events,          \* all events created, in order; an event is its index
    outbox,          \* rows that are not published yet
    queue,           \* the queue of the event runtime
    alive,           \* the loop of the event runtime runs
    lost,            \* history: events that left the queue with work still to do
    redeliveries, outages, restarts

tables == <<status, snapshot, operational, chunked, embedded>>

counters == <<redeliveries, outages, restarts>>

vars == <<tables, events, outbox, queue, alive, lost, counters>>

Traces == {TraceOf[a] : a \in Artifacts}

Testcases == {TestcaseOf[a] : a \in Artifacts} \cup {NoTestcase}

NoArtifact == "no artifact"

EventTypes == {"TRACE_ARTIFACT_RECEIVED", "TRACE_PARSED", "TRACE_NORMALIZED",
               "TRACE_CHUNKED", "EMBEDDINGS_GENERATED"}

(* The part of an event's payload that the handlers read; artifact_id is   *)
(* only in the first two.                                                  *)
EventEnvelope ==
    {e \in [type : EventTypes, artifact : Artifacts \cup {NoArtifact},
            trace : Traces, testcase : Testcases] :
        e.type \in {"TRACE_ARTIFACT_RECEIVED", "TRACE_PARSED"} => e.artifact \in Artifacts}

Queued == {queue[i] : i \in 1 .. Len(queue)}

TypeOK ==
    /\ status \in [Artifacts -> {"none", "available", "processed"}]
    /\ snapshot \in [Traces -> Artifacts \cup {NoArtifact}]
    /\ operational \in [Traces -> Seq(Artifacts)]
    /\ chunked \in [Traces -> Nat]
    /\ embedded \in [Traces -> BOOLEAN]
    /\ events \in Seq(EventEnvelope)
    /\ outbox \subseteq 1 .. Len(events)
    /\ queue \in Seq(1 .. Len(events))
    /\ alive \in BOOLEAN
    /\ lost \subseteq 1 .. Len(events)
    /\ redeliveries \in Nat /\ outages \in Nat /\ restarts \in Nat

Init ==
    /\ status = [a \in Artifacts |-> "none"]
    /\ snapshot = [t \in Traces |-> NoArtifact]
    /\ operational = [t \in Traces |-> <<>>]
    /\ chunked = [t \in Traces |-> 0]
    /\ embedded = [t \in Traces |-> FALSE]
    /\ events = <<>>
    /\ outbox = {}
    /\ queue = <<>>
    /\ alive = TRUE
    /\ lost = {}
    /\ redeliveries = 0 /\ outages = 0 /\ restarts = 0

-----------------------------------------------------------------------------
(* Events.                                                                 *)

Envelope(type, artifact, trace, testcase) ==
    [type |-> type, artifact |-> artifact, trace |-> trace, testcase |-> testcase]

(* A transaction that creates event e adds its outbox row.                 *)
AddToOutbox(e) ==
    /\ Len(events) < MaxEvents
    /\ events' = Append(events, e)
    /\ outbox' = outbox \cup {Len(events) + 1}

(* SubmitTrace: the artifact's row and the event that announces it.        *)
Submit(a) ==
    /\ status[a] = "none"
    /\ status' = [status EXCEPT ![a] = "available"]
    /\ AddToOutbox(Envelope("TRACE_ARTIFACT_RECEIVED", a, TraceOf[a], TestcaseOf[a]))
    /\ UNCHANGED <<snapshot, operational, chunked, embedded, queue, alive, lost, counters>>

(* The synchronous route POST /traces/process: it stores the parse of a    *)
(* file, submitted or not, as the snapshot of a trace and announces        *)
(* nothing.                                                                *)
ProcessTrace(a) ==
    /\ snapshot' = [snapshot EXCEPT ![TraceOf[a]] = a]
    /\ UNCHANGED <<status, operational, chunked, embedded>>
    /\ UNCHANGED <<events, outbox, queue, alive, lost, counters>>

\* Variant: the row is marked published, but the put is not awaited.
Publish_NotQueued(i) ==
    /\ i \in outbox
    /\ outbox' = outbox \ {i}
    /\ UNCHANGED <<tables, events, queue, alive, lost, counters>>

(* The outbox worker publishes the row, in whatever order retries and      *)
(* other processes lead to; the runtime takes it even if its loop is dead. *)
Publish(i) ==
    /\ i \in outbox
    /\ outbox' = outbox \ {i}
    /\ queue' = Append(queue, i)
    /\ UNCHANGED <<tables, events, alive, lost, counters>>

(* The same in a batch that is then rolled back.                           *)
PublishTwice(i) ==
    /\ i \in outbox
    /\ redeliveries < MaxRedeliveries
    /\ redeliveries' = redeliveries + 1
    /\ queue' = Append(queue, i)
    /\ UNCHANGED <<tables, events, outbox, alive, lost, outages, restarts>>

-----------------------------------------------------------------------------
(* Handlers.                                                               *)

(* The event the loop has come to.                                         *)
Dispatched == events[Head(queue)]

Dispatches(type) ==
    /\ alive
    /\ queue # <<>>
    /\ Dispatched.type = type

(* The handler commits the outbox row of its follow-up event with its own  *)
(* writes and then returns the event to the loop, which queues it.         *)
FollowUp(e) ==
    /\ AddToOutbox(e)
    /\ queue' = Append(Tail(queue), Len(events) + 1)
    /\ UNCHANGED <<alive, lost, counters>>

\* Variant: the status of the artifact is not checked.
IsProcessable_Any(a) == TRUE

(* ProcessArtifact accepts an artifact once.                               *)
IsProcessable(a) == status[a] = "available"

\* Variant: the update after parsing is left out.
Parse_NotProcessed ==
    /\ Dispatches("TRACE_ARTIFACT_RECEIVED")
    /\ LET a == Dispatched.artifact
       IN  /\ IsProcessable(a)
           /\ status' = [status EXCEPT ![a] = "processing"]
           /\ snapshot' = [snapshot EXCEPT ![TraceOf[a]] = a]
           /\ FollowUp(Envelope("TRACE_PARSED", a, TraceOf[a], TestcaseOf[a]))
    /\ UNCHANGED <<operational, chunked, embedded>>

(* ParserWorker: the snapshot of the trace is inserted or overwritten, the *)
(* artifact goes through "processing" to "processed" in one transaction.   *)
Parse ==
    /\ Dispatches("TRACE_ARTIFACT_RECEIVED")
    /\ LET a == Dispatched.artifact
       IN  /\ IsProcessable(a)
           /\ status' = [status EXCEPT ![a] = "processed"]
           /\ snapshot' = [snapshot EXCEPT ![TraceOf[a]] = a]
           /\ FollowUp(Envelope("TRACE_PARSED", a, TraceOf[a], TestcaseOf[a]))
    /\ UNCHANGED <<operational, chunked, embedded>>

(* NormalizeTrace: the snapshot exists and is for the event's test case.   *)
IsNormalizable(e) ==
    /\ snapshot[e.trace] # NoArtifact
    /\ e.testcase # NoTestcase => TestcaseOf[snapshot[e.trace]] = e.testcase

(* NormalizerWorker: the events of the snapshot, as stored now, are added  *)
(* with fresh ids to those the trace already has.                          *)
Normalize ==
    /\ Dispatches("TRACE_PARSED")
    /\ IsNormalizable(Dispatched)
    /\ LET t == Dispatched.trace
       IN  /\ operational' =
                  IF snapshot[t] \in Barren THEN operational
                  ELSE [operational EXCEPT ![t] = Append(@, snapshot[t])]
           /\ FollowUp(Envelope("TRACE_NORMALIZED", NoArtifact, t, Dispatched.testcase))
    /\ UNCHANGED <<status, snapshot, chunked, embedded>>

(* ChunkTrace: all operational events are of the event's test case.        *)
IsChunkable(e) ==
    \A i \in 1 .. Len(operational[e.trace]) :
        TestcaseOf[operational[e.trace][i]] = e.testcase

\* Variant: only the first chunks of a trace are announced.
Chunk_AnnouncedOnce ==
    /\ Dispatches("TRACE_NORMALIZED")
    /\ IsChunkable(Dispatched)
    /\ LET t == Dispatched.trace
       IN  /\ chunked' = [chunked EXCEPT ![t] = Len(operational[t])]
           /\ embedded' = [embedded EXCEPT ![t] = FALSE]
           /\ IF chunked[t] = 0
              THEN FollowUp(Envelope("TRACE_CHUNKED", NoArtifact, t, Dispatched.testcase))
              ELSE queue' = Tail(queue) /\ UNCHANGED <<events, outbox, alive, lost, counters>>
    /\ UNCHANGED <<status, snapshot, operational>>

(* ChunkWorker: the chunks of the trace are deleted, their embeddings with *)
(* them (ON DELETE CASCADE), and made anew from all operational events.    *)
Chunk ==
    /\ Dispatches("TRACE_NORMALIZED")
    /\ IsChunkable(Dispatched)
    /\ LET t == Dispatched.trace
       IN  /\ chunked' = [chunked EXCEPT ![t] = Len(operational[t])]
           /\ embedded' = [embedded EXCEPT ![t] = FALSE]
           /\ FollowUp(Envelope("TRACE_CHUNKED", NoArtifact, t, Dispatched.testcase))
    /\ UNCHANGED <<status, snapshot, operational>>

(* EmbedTraceChunks: there are chunks (TraceChunksNotFoundError), and none *)
(* of them has a record of this model yet (the unique constraint).         *)
IsEmbeddable(e) == chunked[e.trace] > 0 /\ ~embedded[e.trace]

(* EmbeddingWorker: a record for each chunk, all in one transaction.       *)
Embed ==
    /\ Dispatches("TRACE_CHUNKED")
    /\ IsEmbeddable(Dispatched)
    /\ embedded' = [embedded EXCEPT ![Dispatched.trace] = TRUE]
    /\ FollowUp(Envelope("EMBEDDINGS_GENERATED", NoArtifact, Dispatched.trace, NoTestcase))
    /\ UNCHANGED <<status, snapshot, operational, chunked>>

(* No handler is registered for the last event.                            *)
Ignore ==
    /\ Dispatches("EMBEDDINGS_GENERATED")
    /\ queue' = Tail(queue)
    /\ UNCHANGED <<tables, events, outbox, alive, lost, counters>>

-----------------------------------------------------------------------------
(* Failures.                                                               *)

(* The handler's own checks, or a constraint, refuse the event.            *)
Refused(e) ==
    \/ e.type = "TRACE_ARTIFACT_RECEIVED" /\ ~IsProcessable(e.artifact)
    \/ e.type = "TRACE_PARSED" /\ ~IsNormalizable(e)
    \/ e.type = "TRACE_NORMALIZED" /\ ~IsChunkable(e)
    \/ e.type = "TRACE_CHUNKED" /\ ~IsEmbeddable(e)

(* A refused event of these types is no loss: the artifact is parsed, or   *)
(* there is nothing to embed.                                              *)
Redundant(e) == e.type \in {"TRACE_ARTIFACT_RECEIVED", "TRACE_CHUNKED"}

(* A handler raised: its transaction is rolled back, the event is gone and *)
(* the loop ends.                                                          *)
HandlerRaises ==
    /\ alive /\ queue # <<>>
    /\ queue' = Tail(queue)
    /\ alive' = FALSE
    /\ UNCHANGED <<events, outbox, redeliveries, restarts>>

Refuse ==
    /\ HandlerRaises
    /\ Refused(Dispatched)
    /\ lost' = IF Redundant(Dispatched) THEN lost ELSE lost \cup {Head(queue)}
    /\ UNCHANGED <<tables, outages>>

\* Variant: what the normalizer wrote is kept although a later step failed.
Outage_NoRollback ==
    /\ HandlerRaises
    /\ outages < MaxOutages
    /\ outages' = outages + 1
    /\ lost' = lost \cup {Head(queue)}
    /\ operational' =
           IF Dispatched.type = "TRACE_PARSED" /\ IsNormalizable(Dispatched)
           THEN [operational EXCEPT ![Dispatched.trace] = Append(@, snapshot[Dispatched.trace])]
           ELSE operational
    /\ UNCHANGED <<status, snapshot, chunked, embedded>>

(* An unreadable file, the database, the embedding model: any of the four  *)
(* handlers may fail at any point of its work.                             *)
Outage ==
    /\ HandlerRaises
    /\ outages < MaxOutages
    /\ Dispatched.type # "EMBEDDINGS_GENERATED"
    /\ outages' = outages + 1
    /\ lost' = lost \cup {Head(queue)}
    /\ UNCHANGED tables

(* The process ends, in whatever way, and starts again.                    *)
Restart ==
    /\ restarts < MaxRestarts
    /\ restarts' = restarts + 1
    /\ queue' = <<>>
    /\ lost' = lost \cup Queued
    /\ alive' = TRUE
    /\ UNCHANGED <<tables, events, outbox, redeliveries, outages>>

-----------------------------------------------------------------------------
Handle == Parse \/ Normalize \/ Chunk \/ Embed \/ Ignore \/ Refuse \/ Outage

Next ==
    \/ \E a \in Artifacts : Submit(a) \/ ProcessTrace(a)
    \/ \E i \in outbox : Publish(i) \/ PublishTwice(i)
    \/ Handle
    \/ Restart

Spec == Init /\ [][Next]_vars

(* The outbox is polled and every row has its turn, and the loop goes on   *)
(* while it lives.                                                         *)
Fairness ==
    /\ \A i \in 1 .. MaxEvents : WF_vars(Publish(i))
    /\ WF_vars(Handle)

FairSpec == Spec /\ Fairness

-----------------------------------------------------------------------------
(* Properties.                                                             *)

(* Events that are still on their way, or were lost with the process or    *)
(* with the loop.  An event that was refused because its work is done      *)
(* already is neither.                                                     *)
Outstanding == outbox \cup Queued \cup lost

Awaits(type, t) ==
    \E i \in Outstanding : events[i].type = type /\ events[i].trace = t

(* An artifact is parsed exactly once however often its event is           *)
(* delivered: its status and the TRACE_PARSED event that reports the parse *)
(* are committed together.                                                 *)
ParsedOnce ==
    /\ \A i \in 1 .. Len(events) :
          events[i].type = "TRACE_PARSED" => status[events[i].artifact] = "processed"
    /\ \A i, j \in 1 .. Len(events) :
          /\ events[i].type = "TRACE_PARSED" /\ events[j].type = "TRACE_PARSED"
          /\ events[i].artifact = events[j].artifact
          => i = j

(* Chunks never stay behind the operational events of their trace: as long *)
(* as they do not cover them all, a TRACE_NORMALIZED event for the trace   *)
(* is outstanding.  A rolled back handler leaves no half of its work.      *)
ChunksCatchUp ==
    \A t \in Traces :
        chunked[t] # Len(operational[t]) => Awaits("TRACE_NORMALIZED", t)

(* Chunks never stay without embeddings: when they were made anew, and the *)
(* old embeddings went with the old chunks, a TRACE_CHUNKED event for the  *)
(* trace is outstanding.                                                   *)
EmbeddingsCatchUp ==
    \A t \in Traces :
        chunked[t] # 0 /\ ~embedded[t] => Awaits("TRACE_CHUNKED", t)

(* A submitted trace with evidence is embedded in the end, unless an event *)
(* was lost on the way or the loop is dead.                                *)
EventuallyEmbedded ==
    \A a \in Artifacts \ Barren :
        status[a] = "available" ~> embedded[TraceOf[a]] \/ lost # {} \/ ~alive

(* The embedding port promises "idempotent embedding generation": an event *)
(* whose chunks are embedded already is not an error.                      *)
EmbeddingIsIdempotent ==
    [][Refuse /\ Dispatched.type = "TRACE_CHUNKED" => ~embedded[Dispatched.trace]]_vars
=============================================================================
