-------------------------- MODULE Pipeline_proofs --------------------------
(***************************************************************************)
(* Proofs about Pipeline, for any artifacts, traces and test cases and any *)
(* number of redeliveries, failures and restarts.                          *)
(*                                                                         *)
(* The argument: an event leaves what is outstanding only when its handler *)
(* commits, and then either the work it stands for is done in the same     *)
(* transaction or the follow-up event of that transaction stands for it,   *)
(* or when it is refused because there is nothing left to do.              *)
(***************************************************************************)
EXTENDS Pipeline, TLAPS

(* The inductive invariant.                                                *)
PipelineInv == TypeOK /\ ParsedOnce /\ ChunksCatchUp /\ EmbeddingsCatchUp

Items(q) == {q[i] : i \in 1 .. Len(q)}

(* Events are only appended.                                               *)
EventsKept ==
    /\ events' \in Seq(EventEnvelope)
    /\ Len(events') \in Nat
    /\ Len(events) <= Len(events')
    /\ \A i \in 1 .. Len(events) : events'[i] = events[i]

(* All events that a property may wait for are outstanding afterwards, but *)
(* for those in S.                                                         *)
OutstandingKept(S) == EventsKept /\ Outstanding \ S \subseteq Outstanding'

-----------------------------------------------------------------------------
(* get(): the first item leaves the queue.                                 *)
LEMMA TakeFromQueue ==
    ASSUME NEW S, NEW q \in Seq(S), q # <<>>
    PROVE  /\ Head(q) \in S
           /\ Tail(q) \in Seq(S)
           /\ Items(q) \ {Head(q)} \subseteq Items(Tail(q))
           /\ Items(Tail(q)) \subseteq Items(q)
  <1>1. /\ Len(q) \in Nat \ {0}
        /\ Head(q) = q[1] /\ Head(q) \in S
        /\ Tail(q) \in Seq(S)
        /\ Len(Tail(q)) = Len(q) - 1
        /\ \A i \in 1 .. Len(Tail(q)) : Tail(q)[i] = q[i + 1]
    OBVIOUS
  <1>2. ASSUME NEW i \in 1 .. Len(q), q[i] # Head(q)
        PROVE  \E j \in 1 .. Len(Tail(q)) : Tail(q)[j] = q[i]
    <2>1. i - 1 \in 1 .. Len(Tail(q)) /\ (i - 1) + 1 = i
      BY <1>1, <1>2
    <2>. QED
      BY <1>1, <2>1
  <1>3. ASSUME NEW j \in 1 .. Len(Tail(q))
        PROVE  \E i \in 1 .. Len(q) : q[i] = Tail(q)[j]
    <2>1. j + 1 \in 1 .. Len(q)
      BY <1>1
    <2>. QED
      BY <1>1, <2>1
  <1>. QED
    BY <1>1, <1>2, <1>3 DEF Items

(* put(): an item joins the queue.                                         *)
LEMMA PutOnQueue ==
    ASSUME NEW S, NEW q \in Seq(S), NEW x \in S
    PROVE  /\ Append(q, x) \in Seq(S)
           /\ Items(Append(q, x)) = Items(q) \cup {x}
  <1>1. /\ Append(q, x) \in Seq(S)
        /\ Len(q) \in Nat
        /\ Len(Append(q, x)) = Len(q) + 1
        /\ \A i \in 1 .. Len(q) : Append(q, x)[i] = q[i]
        /\ Append(q, x)[Len(q) + 1] = x
    OBVIOUS
  <1>2. 1 .. Len(q) + 1 = 1 .. Len(q) \cup {Len(q) + 1}
    BY <1>1
  <1>. QED
    BY <1>1, <1>2 DEF Items

(* A queue of some events is a queue of more events.                       *)
LEMMA QueueOfMore ==
    ASSUME NEW m \in Nat, NEW n \in Nat, m <= n, NEW q \in Seq(1 .. m)
    PROVE  q \in Seq(1 .. n)
  <1>1. Len(q) \in Nat /\ q \in [1 .. Len(q) -> 1 .. m]
    OBVIOUS
  <1>2. q \in [1 .. Len(q) -> 1 .. n]
    BY <1>1
  <1>. QED
    BY <1>1, <1>2

(* What is outstanding are events.                                         *)
LEMMA OutstandingAreEvents ==
    ASSUME TypeOK
    PROVE  Outstanding \subseteq 1 .. Len(events)
  <1>1. \A i \in 1 .. Len(queue) : queue[i] \in 1 .. Len(events)
    BY DEF TypeOK
  <1>. QED
    BY <1>1 DEF TypeOK, Outstanding, Queued

(* An awaited event is still awaited if it is not among those handled.     *)
LEMMA AwaitsKept ==
    ASSUME TypeOK, NEW S, OutstandingKept(S), NEW type, NEW t, Awaits(type, t),
           \A i \in S : i \in Outstanding => ~(events[i].type = type /\ events[i].trace = t)
    PROVE  Awaits(type, t)'
  <1>1. PICK i \in Outstanding : events[i].type = type /\ events[i].trace = t
    BY DEF Awaits
  <1>2. i \in Outstanding' /\ events'[i] = events[i]
    BY <1>1, OutstandingAreEvents DEF OutstandingKept, EventsKept
  <1>. QED
    BY <1>1, <1>2 DEF Awaits

-----------------------------------------------------------------------------
(* Creating events.                                                        *)

(* A transaction with a new event: it is the last one, and outstanding.    *)
LEMMA EventAdded ==
    ASSUME TypeOK, NEW e \in EventEnvelope, AddToOutbox(e)
    PROVE  /\ EventsKept
           /\ Len(events) \in Nat
           /\ Len(events') = Len(events) + 1
           /\ events'[Len(events) + 1] = e
           /\ outbox' \subseteq 1 .. Len(events')
           /\ outbox \subseteq outbox'
           /\ Len(events) + 1 \in Outstanding'
  <1>1. /\ events' = Append(events, e)
        /\ outbox' = outbox \cup {Len(events) + 1}
        /\ events \in Seq(EventEnvelope)
        /\ outbox \subseteq 1 .. Len(events)
    BY DEF AddToOutbox, TypeOK
  <1>2. /\ events' \in Seq(EventEnvelope)
        /\ Len(events) \in Nat
        /\ Len(events') = Len(events) + 1
        /\ \A i \in 1 .. Len(events) : events'[i] = events[i]
        /\ events'[Len(events) + 1] = e
    BY <1>1
  <1>3. EventsKept
    BY <1>2 DEF EventsKept
  <1>4. outbox' \subseteq 1 .. Len(events') /\ outbox \subseteq outbox'
    <2>1. /\ 1 .. Len(events) \subseteq 1 .. Len(events')
          /\ Len(events) + 1 \in 1 .. Len(events')
      BY <1>2
    <2>. QED
      BY <1>1, <2>1
  <1>5. Len(events) + 1 \in Outstanding'
    BY <1>1 DEF Outstanding
  <1>. QED
    BY <1>2, <1>3, <1>4, <1>5

(* A handler that commits: its own event is done, the follow-up stands for *)
(* what is left.                                                           *)
LEMMA FollowUpAdded ==
    ASSUME TypeOK, queue # <<>>, NEW e \in EventEnvelope, FollowUp(e)
    PROVE  /\ OutstandingKept({Head(queue)})
           /\ Len(events') = Len(events) + 1
           /\ events'[Len(events) + 1] = e
           /\ Len(events) + 1 \in Outstanding'
           /\ outbox' \subseteq 1 .. Len(events')
           /\ queue' \in Seq(1 .. Len(events'))
           /\ lost' \subseteq 1 .. Len(events')
           /\ alive' \in BOOLEAN
           /\ redeliveries' \in Nat /\ outages' \in Nat /\ restarts' \in Nat
  <1>1. AddToOutbox(e) /\ queue' = Append(Tail(queue), Len(events) + 1)
    BY DEF FollowUp
  <1>2. UNCHANGED <<alive, lost, redeliveries, outages, restarts>>
    BY DEF FollowUp, counters
  <1>3. /\ EventsKept
        /\ Len(events) \in Nat
        /\ Len(events') = Len(events) + 1
        /\ events'[Len(events) + 1] = e
        /\ outbox' \subseteq 1 .. Len(events')
        /\ outbox \subseteq outbox'
        /\ Len(events) + 1 \in Outstanding'
    BY <1>1, EventAdded
  <1>4. /\ Tail(queue) \in Seq(1 .. Len(events))
        /\ Items(queue) \ {Head(queue)} \subseteq Items(Tail(queue))
    <2>1. queue \in Seq(1 .. Len(events))
      BY DEF TypeOK
    <2>. QED
      BY <2>1, TakeFromQueue
  <1>5. Tail(queue) \in Seq(1 .. Len(events'))
    BY <1>3, <1>4, QueueOfMore
  <1>6. Len(events) + 1 \in 1 .. Len(events')
    BY <1>3
  <1>7. /\ queue' \in Seq(1 .. Len(events'))
        /\ Items(queue') = Items(Tail(queue)) \cup {Len(events) + 1}
    <2>1. PICK S, q, x : S = 1 .. Len(events') /\ q = Tail(queue) /\ x = Len(events) + 1
      OBVIOUS
    <2>2. q \in Seq(S) /\ x \in S
      BY <1>5, <1>6, <2>1
    <2>3. Append(q, x) \in Seq(S) /\ Items(Append(q, x)) = Items(q) \cup {x}
      BY <2>2, PutOnQueue
    <2>4. queue' = Append(q, x)
      BY <1>1, <2>1
    <2>. QED
      BY <2>1, <2>3, <2>4
  <1>8. OutstandingKept({Head(queue)})
    <2>1. Queued = Items(queue) /\ Queued' = Items(queue')
      BY DEF Queued, Items
    <2>. QED
      BY <1>2, <1>3, <1>4, <1>7, <2>1 DEF OutstandingKept, Outstanding
  <1>9. lost' \subseteq 1 .. Len(events')
    BY <1>2, <1>3 DEF TypeOK
  <1>. QED
    BY <1>2, <1>3, <1>7, <1>8, <1>9 DEF TypeOK

(* The envelopes the code makes are envelopes.                             *)
LEMMA EnvelopeType ==
    ASSUME NEW type \in EventTypes, NEW a \in Artifacts \cup {NoArtifact},
           NEW t \in Traces, NEW c \in Testcases,
           type \in {"TRACE_ARTIFACT_RECEIVED", "TRACE_PARSED"} => a \in Artifacts
    PROVE  /\ Envelope(type, a, t, c) \in EventEnvelope
           /\ Envelope(type, a, t, c).type = type
           /\ Envelope(type, a, t, c).artifact = a
           /\ Envelope(type, a, t, c).trace = t
  BY DEF Envelope, EventEnvelope

(* What the loop dispatches is an event.                                   *)
LEMMA DispatchedIsEvent ==
    ASSUME TypeOK, queue # <<>>
    PROVE  /\ Head(queue) \in 1 .. Len(events)
           /\ Dispatched = events[Head(queue)]
           /\ Dispatched \in EventEnvelope
           /\ Dispatched.trace \in Traces
           /\ Dispatched.testcase \in Testcases
           /\ Dispatched.type = "TRACE_ARTIFACT_RECEIVED" => Dispatched.artifact \in Artifacts
  <1>1. Head(queue) \in 1 .. Len(events)
    BY TakeFromQueue DEF TypeOK
  <1>2. events[Head(queue)] \in EventEnvelope
    BY <1>1 DEF TypeOK
  <1>. QED
    BY <1>1, <1>2 DEF Dispatched, EventEnvelope

(* An artifact that is only announced again is not parsed again.           *)
LEMMA ParsedOnceKept ==
    ASSUME TypeOK, ParsedOnce, EventsKept,
           \A i \in 1 .. Len(events') : i \in 1 .. Len(events) \/ events'[i].type # "TRACE_PARSED",
           \A a \in Artifacts : status[a] = "processed" => status'[a] = "processed"
    PROVE  ParsedOnce'
  <1>1. \A i \in 1 .. Len(events') : events'[i].type = "TRACE_PARSED" =>
            i \in 1 .. Len(events) /\ events'[i] = events[i]
    BY DEF EventsKept
  <1>2. ASSUME NEW i \in 1 .. Len(events'), events'[i].type = "TRACE_PARSED"
        PROVE  status'[events'[i].artifact] = "processed"
    <2>1. status[events[i].artifact] = "processed"
      BY <1>1, <1>2 DEF ParsedOnce
    <2>2. events[i] \in EventEnvelope
      BY <1>1, <1>2 DEF TypeOK
    <2>3. events[i].artifact \in Artifacts
      BY <1>1, <1>2, <2>2 DEF EventEnvelope
    <2>. QED
      BY <1>1, <1>2, <2>1, <2>3
  <1>. QED
    BY <1>1, <1>2 DEF ParsedOnce
-----------------------------------------------------------------------------
(* What the properties ask for, kept by steps that touch one trace.        *)

(* Nothing new may be parsed or changed in the tables: the properties      *)
(* follow the outstanding events.                                          *)
LEMMA TablesKept ==
    ASSUME PipelineInv, OutstandingKept({}), UNCHANGED tables
    PROVE  ChunksCatchUp' /\ EmbeddingsCatchUp'
  <1>1. UNCHANGED <<operational, chunked, embedded>>
    BY DEF tables
  <1>2. \A type, t : Awaits(type, t) => Awaits(type, t)'
    BY AwaitsKept DEF PipelineInv
  <1>. QED
    BY <1>1, <1>2 DEF PipelineInv, ChunksCatchUp, EmbeddingsCatchUp

(* Without new events, and without a change of status, nothing is parsed.  *)
LEMMA NothingParsed ==
    ASSUME ParsedOnce, UNCHANGED <<events, status>>
    PROVE  ParsedOnce'
  BY DEF ParsedOnce

(* Outstanding events are what the three places hold.                      *)
LEMMA PlacesKept ==
    ASSUME TypeOK, UNCHANGED events, NEW S,
           (outbox \cup Items(queue) \cup lost) \ S
               \subseteq outbox' \cup Items(queue') \cup lost'
    PROVE  OutstandingKept(S)
  <1>1. EventsKept
    <2>1. events \in Seq(EventEnvelope) /\ Len(events) \in Nat
      BY DEF TypeOK
    <2>. QED
      BY <2>1 DEF EventsKept
  <1>2. Queued = Items(queue) /\ Queued' = Items(queue')
    BY DEF Queued, Items
  <1>. QED
    BY <1>1, <1>2 DEF OutstandingKept, Outstanding

-----------------------------------------------------------------------------
(* The steps that write no table.                                          *)

(* Publishing: the event is in the queue before its row goes.              *)
LEMMA PublishKeeps ==
    ASSUME PipelineInv, NEW i \in outbox, Publish(i) \/ PublishTwice(i)
    PROVE  PipelineInv'
  <1>1. /\ queue' = Append(queue, i)
        /\ outbox' \subseteq outbox /\ outbox \subseteq outbox' \cup {i}
        /\ UNCHANGED <<tables, events, alive, lost, outages, restarts>>
        /\ redeliveries' \in {redeliveries, redeliveries + 1}
    BY DEF Publish, PublishTwice, counters
  <1>2. TypeOK /\ queue \in Seq(1 .. Len(events)) /\ i \in 1 .. Len(events)
    BY DEF PipelineInv, TypeOK
  <1>3. queue' \in Seq(1 .. Len(events)) /\ Items(queue') = Items(queue) \cup {i}
    BY <1>1, <1>2, PutOnQueue
  <1>4. TypeOK'
    BY <1>1, <1>2, <1>3 DEF TypeOK, tables
  <1>5. OutstandingKept({})
    BY <1>1, <1>2, <1>3, PlacesKept
  <1>6. ParsedOnce'
    BY <1>1, NothingParsed DEF PipelineInv, tables
  <1>. QED
    BY <1>1, <1>4, <1>5, <1>6, TablesKept DEF PipelineInv

(* A handler that raised: its event joins the lost ones, or its work was   *)
(* done already; its tables stay.                                          *)
LEMMA RaisingKeeps ==
    ASSUME PipelineInv, Refuse \/ Outage
    PROVE  PipelineInv'
  <1>1. /\ queue # <<>> /\ queue' = Tail(queue)
        /\ alive' = FALSE
        /\ outages' = outages \/ outages' = outages + 1
        /\ UNCHANGED <<tables, events, outbox, redeliveries, restarts>>
    BY DEF Refuse, Outage, HandlerRaises
  <1>2. \/ lost' = lost \cup {Head(queue)}
        \/ lost' = lost /\ Redundant(Dispatched) /\ Refused(Dispatched)
    BY DEF Refuse, Outage
  <1>3. TypeOK /\ queue \in Seq(1 .. Len(events))
    BY DEF PipelineInv, TypeOK
  <1>4. /\ Head(queue) \in 1 .. Len(events)
        /\ Tail(queue) \in Seq(1 .. Len(events))
        /\ Items(queue) \ {Head(queue)} \subseteq Items(Tail(queue))
    BY <1>1, <1>3, TakeFromQueue
  <1>5. TypeOK'
    <2>1. queue' \in Seq(1 .. Len(events')) /\ lost' \subseteq 1 .. Len(events')
      BY <1>1, <1>2, <1>3, <1>4 DEF TypeOK
    <2>2. outages' \in Nat
      BY <1>1, <1>3 DEF TypeOK
    <2>3. alive' \in BOOLEAN
      BY <1>1
    <2>. QED
      BY <1>1, <1>3, <2>1, <2>2, <2>3 DEF TypeOK, tables
  <1>6. ParsedOnce'
    BY <1>1, NothingParsed DEF PipelineInv, tables
  <1>7. CASE lost' = lost \cup {Head(queue)}
    <2>1. OutstandingKept({})
      BY <1>1, <1>3, <1>4, <1>7, PlacesKept
    <2>. QED
      BY <1>1, <1>5, <1>6, <2>1, TablesKept DEF PipelineInv
  <1>8. CASE lost' = lost /\ Redundant(Dispatched) /\ Refused(Dispatched)
    <2>1. OutstandingKept({Head(queue)})
      BY <1>1, <1>3, <1>4, <1>8, PlacesKept
    <2>2. /\ Dispatched = events[Head(queue)]
          /\ Dispatched.trace \in Traces
          /\ Dispatched.type # "TRACE_NORMALIZED"
          /\ Dispatched.type = "TRACE_CHUNKED" => ~IsEmbeddable(Dispatched)
      BY <1>1, <1>3, <1>8, DispatchedIsEvent DEF Redundant, Refused
    <2>3. \A t : Awaits("TRACE_NORMALIZED", t) => Awaits("TRACE_NORMALIZED", t)'
      BY <1>3, <2>1, <2>2, AwaitsKept
    <2>4. ASSUME NEW t \in Traces, chunked[t] # 0, ~embedded[t], Awaits("TRACE_CHUNKED", t)
          PROVE  Awaits("TRACE_CHUNKED", t)'
      <3>1. chunked[t] > 0
        BY <1>3, <2>4 DEF TypeOK
      <3>2. ~(Dispatched.type = "TRACE_CHUNKED" /\ Dispatched.trace = t)
        BY <2>2, <2>4, <3>1 DEF IsEmbeddable
      <3>. QED
        BY <1>3, <2>1, <2>2, <2>4, <3>2, AwaitsKept
    <2>5. ChunksCatchUp'
      BY <1>1, <2>3 DEF PipelineInv, ChunksCatchUp, tables
    <2>6. EmbeddingsCatchUp'
      BY <1>1, <2>4 DEF PipelineInv, EmbeddingsCatchUp, tables
    <2>. QED
      BY <1>5, <1>6, <2>5, <2>6 DEF PipelineInv
  <1>. QED
    BY <1>2, <1>7, <1>8

(* A restart: what was in the queue joins the lost events.                 *)
LEMMA RestartKeeps ==
    ASSUME PipelineInv, Restart
    PROVE  PipelineInv'
  <1>1. /\ queue' = <<>> /\ alive' = TRUE /\ lost' = lost \cup Items(queue)
        /\ restarts' = restarts + 1
        /\ UNCHANGED <<tables, events, outbox, redeliveries, outages>>
    BY DEF Restart, Queued, Items
  <1>2. TypeOK /\ Items(queue) \subseteq 1 .. Len(events)
    <2>1. \A i \in 1 .. Len(queue) : queue[i] \in 1 .. Len(events)
      BY DEF PipelineInv, TypeOK
    <2>. QED
      BY <2>1 DEF PipelineInv, Items
  <1>3. TypeOK'
    <2>1. queue' \in Seq(1 .. Len(events'))
      BY <1>1
    <2>2. lost' \subseteq 1 .. Len(events')
      BY <1>1, <1>2 DEF TypeOK
    <2>3. restarts' \in Nat
      BY <1>1, <1>2 DEF TypeOK
    <2>4. alive' \in BOOLEAN
      BY <1>1
    <2>. QED
      BY <1>1, <1>2, <2>1, <2>2, <2>3, <2>4 DEF TypeOK, tables
  <1>4. OutstandingKept({})
    BY <1>1, <1>2, PlacesKept
  <1>5. ParsedOnce'
    BY <1>1, NothingParsed DEF PipelineInv, tables
  <1>. QED
    BY <1>1, <1>3, <1>4, <1>5, TablesKept DEF PipelineInv

(* The synchronous route: no property reads the snapshot.                  *)
LEMMA ProcessTraceKeeps ==
    ASSUME PipelineInv, NEW a \in Artifacts, ProcessTrace(a)
    PROVE  PipelineInv'
  <1>1. /\ snapshot' = [snapshot EXCEPT ![TraceOf[a]] = a]
        /\ UNCHANGED <<status, operational, chunked, embedded, events, outbox,
                       queue, alive, lost, redeliveries, outages, restarts>>
    BY DEF ProcessTrace, counters
  <1>2. TypeOK'
    BY <1>1 DEF PipelineInv, TypeOK
  <1>3. Outstanding' = Outstanding
    BY <1>1 DEF Outstanding, Queued
  <1>. QED
    BY <1>1, <1>2, <1>3
       DEF PipelineInv, ParsedOnce, ChunksCatchUp, EmbeddingsCatchUp, Awaits

(* The last event of the pipeline: nothing awaits it.                      *)
LEMMA IgnoreKeeps ==
    ASSUME PipelineInv, Ignore
    PROVE  PipelineInv'
  <1>1. /\ queue # <<>> /\ queue' = Tail(queue)
        /\ Dispatched.type = "EMBEDDINGS_GENERATED"
        /\ UNCHANGED <<tables, events, outbox, alive, lost, redeliveries, outages, restarts>>
    BY DEF Ignore, Dispatches, counters
  <1>2. TypeOK /\ queue \in Seq(1 .. Len(events))
    BY DEF PipelineInv, TypeOK
  <1>3. /\ Tail(queue) \in Seq(1 .. Len(events))
        /\ Items(queue) \ {Head(queue)} \subseteq Items(Tail(queue))
    BY <1>1, <1>2, TakeFromQueue
  <1>4. TypeOK'
    BY <1>1, <1>2, <1>3 DEF TypeOK, tables
  <1>5. OutstandingKept({Head(queue)})
    BY <1>1, <1>2, <1>3, PlacesKept
  <1>6. \A t : Awaits("TRACE_NORMALIZED", t) => Awaits("TRACE_NORMALIZED", t)'
    BY <1>1, <1>2, <1>5, AwaitsKept DEF Dispatched
  <1>7. \A t : Awaits("TRACE_CHUNKED", t) => Awaits("TRACE_CHUNKED", t)'
    BY <1>1, <1>2, <1>5, AwaitsKept DEF Dispatched
  <1>8. ParsedOnce'
    BY <1>1, NothingParsed DEF PipelineInv, tables
  <1>. QED
    BY <1>1, <1>4, <1>6, <1>7, <1>8
       DEF PipelineInv, ChunksCatchUp, EmbeddingsCatchUp, tables

-----------------------------------------------------------------------------
(* The steps that create an event.                                         *)

(* A submission: a new artifact, and an event that is no parse.            *)
LEMMA SubmitKeeps ==
    ASSUME PipelineInv, NEW a \in Artifacts, Submit(a)
    PROVE  PipelineInv'
  <1> DEFINE e == Envelope("TRACE_ARTIFACT_RECEIVED", a, TraceOf[a], TestcaseOf[a])
  <1>1. /\ status[a] = "none"
        /\ status' = [status EXCEPT ![a] = "available"]
        /\ AddToOutbox(e)
        /\ UNCHANGED <<snapshot, operational, chunked, embedded, queue, alive, lost,
                       redeliveries, outages, restarts>>
    BY DEF Submit, counters
  <1>2. TypeOK
    BY DEF PipelineInv
  <1>3. e \in EventEnvelope /\ e.type = "TRACE_ARTIFACT_RECEIVED"
    BY EnvelopeType DEF EventTypes, Traces, Testcases
  <1> HIDE DEF e
  <1>4. /\ EventsKept
        /\ Len(events) \in Nat
        /\ Len(events') = Len(events) + 1
        /\ events'[Len(events) + 1] = e
        /\ outbox' \subseteq 1 .. Len(events')
        /\ outbox \subseteq outbox'
    BY <1>1, <1>2, <1>3, EventAdded
  <1>5. OutstandingKept({})
    BY <1>1, <1>4 DEF OutstandingKept, Outstanding, Queued
  <1>6. TypeOK'
    <2>1. queue' \in Seq(1 .. Len(events'))
      <3>1. queue \in Seq(1 .. Len(events))
        BY <1>2 DEF TypeOK
      <3>. QED
        BY <1>1, <1>4, <3>1, QueueOfMore
    <2>2. lost' \subseteq 1 .. Len(events')
      BY <1>1, <1>2, <1>4 DEF TypeOK
    <2>3. status' \in [Artifacts -> {"none", "available", "processed"}]
      BY <1>1, <1>2 DEF TypeOK
    <2>. QED
      BY <1>1, <1>2, <1>4, <2>1, <2>2, <2>3 DEF TypeOK, EventsKept
  <1>7. ParsedOnce'
    <2>1. \A i \in 1 .. Len(events') :
              i \in 1 .. Len(events) \/ events'[i].type # "TRACE_PARSED"
      BY <1>3, <1>4
    <2>2. \A b \in Artifacts : status[b] = "processed" => status'[b] = "processed"
      BY <1>1, <1>2 DEF TypeOK
    <2>. QED
      BY <1>2, <1>4, <2>1, <2>2, ParsedOnceKept DEF PipelineInv
  <1>8. \A type, t : Awaits(type, t) => Awaits(type, t)'
    BY <1>2, <1>5, AwaitsKept
  <1>. QED
    BY <1>1, <1>6, <1>7, <1>8 DEF PipelineInv, ChunksCatchUp, EmbeddingsCatchUp

-----------------------------------------------------------------------------
(* The four handlers.                                                      *)

(* The parser: only an available artifact, which then is processed.        *)
LEMMA ParseKeeps ==
    ASSUME PipelineInv, Parse
    PROVE  PipelineInv'
  <1> DEFINE a == Dispatched.artifact
             e == Envelope("TRACE_PARSED", a, TraceOf[a], TestcaseOf[a])
  <1>1. /\ queue # <<>> /\ Dispatched.type = "TRACE_ARTIFACT_RECEIVED"
        /\ status[a] = "available"
        /\ status' = [status EXCEPT ![a] = "processed"]
        /\ snapshot' = [snapshot EXCEPT ![TraceOf[a]] = a]
        /\ FollowUp(e)
        /\ UNCHANGED <<operational, chunked, embedded>>
    BY DEF Parse, Dispatches, IsProcessable
  <1>2. TypeOK
    BY DEF PipelineInv
  <1>3. /\ a \in Artifacts /\ Head(queue) \in 1 .. Len(events)
        /\ events[Head(queue)].type = "TRACE_ARTIFACT_RECEIVED"
    BY <1>1, <1>2, DispatchedIsEvent
  <1>4. e \in EventEnvelope /\ e.artifact = a
    BY <1>3, EnvelopeType DEF EventTypes, Traces, Testcases
  <1> HIDE DEF a, e
  <1>5. /\ OutstandingKept({Head(queue)})
        /\ Len(events') = Len(events) + 1
        /\ events'[Len(events) + 1] = e
        /\ outbox' \subseteq 1 .. Len(events')
        /\ queue' \in Seq(1 .. Len(events'))
        /\ lost' \subseteq 1 .. Len(events')
        /\ alive' \in BOOLEAN
        /\ redeliveries' \in Nat /\ outages' \in Nat /\ restarts' \in Nat
    BY <1>1, <1>2, <1>4, FollowUpAdded
  <1>6. EventsKept /\ Len(events) \in Nat
    BY <1>2, <1>5 DEF OutstandingKept, TypeOK
  <1>7. TypeOK'
    <2>1. status' \in [Artifacts -> {"none", "available", "processed"}]
      BY <1>1, <1>2 DEF TypeOK
    <2>2. snapshot' \in [Traces -> Artifacts \cup {NoArtifact}]
      BY <1>1, <1>2, <1>3 DEF TypeOK
    <2>. QED
      BY <1>1, <1>2, <1>5, <1>6, <2>1, <2>2 DEF TypeOK, EventsKept
  <1>8. ParsedOnce'
    <2>1. \A i \in 1 .. Len(events) :
              /\ events'[i] = events[i]
              /\ events[i].type = "TRACE_PARSED" =>
                     /\ events[i].artifact \in Artifacts
                     /\ status[events[i].artifact] = "processed"
      <3>1. \A i \in 1 .. Len(events) : events[i] \in EventEnvelope /\ events'[i] = events[i]
        BY <1>2, <1>6 DEF TypeOK, EventsKept
      <3>2. \A i \in 1 .. Len(events) :
                events[i].type = "TRACE_PARSED" => events[i].artifact \in Artifacts
        BY <3>1 DEF EventEnvelope
      <3>. QED
        BY <3>1, <3>2 DEF PipelineInv, ParsedOnce
    <2>2. \A i \in 1 .. Len(events) :
              events[i].type = "TRACE_PARSED" =>
                  events[i].artifact # a /\ status'[events[i].artifact] = "processed"
      BY <1>1, <1>2, <2>1 DEF TypeOK
    <2>3. status'[a] = "processed"
      BY <1>1, <1>2, <1>3 DEF TypeOK
    <2>4. \A i \in 1 .. Len(events') : i \in 1 .. Len(events) \/ i = Len(events) + 1
      BY <1>5, <1>6
    <2>5. \A i \in 1 .. Len(events') :
              events'[i].type = "TRACE_PARSED" => status'[events'[i].artifact] = "processed"
      BY <1>4, <1>5, <2>1, <2>2, <2>3, <2>4
    <2>6. ASSUME NEW i \in 1 .. Len(events'), NEW j \in 1 .. Len(events'),
                 events'[i].type = "TRACE_PARSED", events'[j].type = "TRACE_PARSED",
                 events'[i].artifact = events'[j].artifact
          PROVE  i = j
      BY <1>4, <1>5, <2>1, <2>2, <2>4, <2>6 DEF PipelineInv, ParsedOnce
    <2>. QED
      BY <2>5, <2>6 DEF ParsedOnce
  <1>9. \A t : Awaits("TRACE_NORMALIZED", t) => Awaits("TRACE_NORMALIZED", t)'
    BY <1>2, <1>3, <1>5, AwaitsKept
  <1>10. \A t : Awaits("TRACE_CHUNKED", t) => Awaits("TRACE_CHUNKED", t)'
    BY <1>2, <1>3, <1>5, AwaitsKept
  <1>. QED
    BY <1>1, <1>7, <1>8, <1>9, <1>10 DEF PipelineInv, ChunksCatchUp, EmbeddingsCatchUp

(* The other three leave artifacts alone: what they share.                 *)
LEMMA HandlerKeeps ==
    ASSUME PipelineInv, queue # <<>>, NEW e \in EventEnvelope, FollowUp(e),
           e.type # "TRACE_PARSED", UNCHANGED status
    PROVE  /\ ParsedOnce'
           /\ \A type, t : e.type = type /\ e.trace = t => Awaits(type, t)'
           /\ \A type, t :
                 /\ Awaits(type, t)
                 /\ Dispatched.type # type \/ Dispatched.trace # t
                 => Awaits(type, t)'
  <1>1. TypeOK
    BY DEF PipelineInv
  <1>2. /\ OutstandingKept({Head(queue)})
        /\ Len(events') = Len(events) + 1
        /\ events'[Len(events) + 1] = e
        /\ Len(events) + 1 \in Outstanding'
    BY <1>1, FollowUpAdded
  <1>3. EventsKept /\ Len(events) \in Nat
    BY <1>1, <1>2 DEF OutstandingKept, TypeOK
  <1>4. ParsedOnce'
    <2>1. \A i \in 1 .. Len(events') :
              i \in 1 .. Len(events) \/ events'[i].type # "TRACE_PARSED"
      BY <1>2, <1>3
    <2>. QED
      BY <1>1, <1>3, <2>1, ParsedOnceKept DEF PipelineInv
  <1>5. ASSUME NEW type, NEW t, e.type = type, e.trace = t
        PROVE  Awaits(type, t)'
    BY <1>2, <1>5 DEF Awaits
  <1>6. ASSUME NEW type, NEW t, Awaits(type, t),
               Dispatched.type # type \/ Dispatched.trace # t
        PROVE  Awaits(type, t)'
    BY <1>1, <1>2, <1>6, AwaitsKept DEF Dispatched
  <1>. QED
    BY <1>4, <1>5, <1>6

(* With the types of what a handler writes, the rest follows.              *)
LEMMA HandlerTypes ==
    ASSUME TypeOK, queue # <<>>, NEW e \in EventEnvelope, FollowUp(e),
           UNCHANGED <<status, snapshot>>,
           operational' \in [Traces -> Seq(Artifacts)],
           chunked' \in [Traces -> Nat],
           embedded' \in [Traces -> BOOLEAN]
    PROVE  TypeOK'
  <1>1. /\ OutstandingKept({Head(queue)})
        /\ outbox' \subseteq 1 .. Len(events')
        /\ queue' \in Seq(1 .. Len(events'))
        /\ lost' \subseteq 1 .. Len(events')
        /\ alive' \in BOOLEAN
        /\ redeliveries' \in Nat /\ outages' \in Nat /\ restarts' \in Nat
    BY FollowUpAdded
  <1>. QED
    BY <1>1 DEF TypeOK, OutstandingKept, EventsKept

(* The normalizer: its follow-up stands for the chunks that are behind.    *)
LEMMA NormalizeKeeps ==
    ASSUME PipelineInv, Normalize
    PROVE  PipelineInv'
  <1> DEFINE t == Dispatched.trace
             e == Envelope("TRACE_NORMALIZED", NoArtifact, t, Dispatched.testcase)
  <1>1. /\ queue # <<>> /\ Dispatched.type = "TRACE_PARSED"
        /\ snapshot[t] # NoArtifact
        /\ operational' = IF snapshot[t] \in Barren THEN operational
                          ELSE [operational EXCEPT ![t] = Append(@, snapshot[t])]
        /\ FollowUp(e)
        /\ UNCHANGED <<status, snapshot, chunked, embedded>>
    BY DEF Normalize, Dispatches, IsNormalizable
  <1>2. TypeOK
    BY DEF PipelineInv
  <1>3. t \in Traces /\ Dispatched.testcase \in Testcases
    BY <1>1, <1>2, DispatchedIsEvent
  <1>4. e \in EventEnvelope /\ e.type = "TRACE_NORMALIZED" /\ e.trace = t
    BY <1>3, EnvelopeType DEF EventTypes
  <1> HIDE DEF t, e
  <1>5. /\ ParsedOnce'
        /\ \A u : u = t => Awaits("TRACE_NORMALIZED", u)'
        /\ \A type, u : Awaits(type, u) /\ (Dispatched.type # type \/ Dispatched.trace # u)
                         => Awaits(type, u)'
    BY <1>1, <1>4, HandlerKeeps
  <1>6. /\ operational' \in [Traces -> Seq(Artifacts)]
        /\ \A u \in Traces : u # t => operational'[u] = operational[u]
    <2>1. snapshot[t] \in Artifacts /\ operational[t] \in Seq(Artifacts)
      BY <1>1, <1>2, <1>3 DEF TypeOK
    <2>2. Append(operational[t], snapshot[t]) \in Seq(Artifacts)
      BY <2>1
    <2>. QED
      BY <1>1, <1>2, <2>2 DEF TypeOK
  <1>7. TypeOK'
    <2>1. /\ chunked' \in [Traces -> Nat] /\ embedded' \in [Traces -> BOOLEAN]
          /\ UNCHANGED <<status, snapshot>>
      BY <1>1, <1>2 DEF TypeOK
    <2>. QED
      BY <1>1, <1>2, <1>4, <1>6, <2>1, HandlerTypes
  <1>8. ChunksCatchUp'
    BY <1>1, <1>4, <1>5, <1>6 DEF PipelineInv, ChunksCatchUp
  <1>9. EmbeddingsCatchUp'
    BY <1>1, <1>5 DEF PipelineInv, EmbeddingsCatchUp
  <1>. QED
    BY <1>5, <1>7, <1>8, <1>9 DEF PipelineInv

(* The chunk worker: chunks have caught up, its follow-up stands for the   *)
(* embeddings.                                                             *)
LEMMA ChunkKeeps ==
    ASSUME PipelineInv, Chunk
    PROVE  PipelineInv'
  <1> DEFINE t == Dispatched.trace
             e == Envelope("TRACE_CHUNKED", NoArtifact, t, Dispatched.testcase)
  <1>1. /\ queue # <<>> /\ Dispatched.type = "TRACE_NORMALIZED"
        /\ chunked' = [chunked EXCEPT ![t] = Len(operational[t])]
        /\ embedded' = [embedded EXCEPT ![t] = FALSE]
        /\ FollowUp(e)
        /\ UNCHANGED <<status, snapshot, operational>>
    BY DEF Chunk, Dispatches
  <1>2. TypeOK
    BY DEF PipelineInv
  <1>3. t \in Traces /\ Dispatched.testcase \in Testcases
    BY <1>1, <1>2, DispatchedIsEvent
  <1>4. e \in EventEnvelope /\ e.type = "TRACE_CHUNKED" /\ e.trace = t
    BY <1>3, EnvelopeType DEF EventTypes
  <1>5. Dispatched.trace = t
    OBVIOUS
  <1> HIDE DEF t, e
  <1>6. /\ ParsedOnce'
        /\ \A u : u = t => Awaits("TRACE_CHUNKED", u)'
        /\ \A type, u : Awaits(type, u) /\ (Dispatched.type # type \/ Dispatched.trace # u)
                         => Awaits(type, u)'
    BY <1>1, <1>4, HandlerKeeps
  <1>7. operational[t] \in Seq(Artifacts) /\ Len(operational[t]) \in Nat
    BY <1>2, <1>3 DEF TypeOK
  <1>8. /\ chunked' \in [Traces -> Nat]
        /\ chunked'[t] = Len(operational[t])
        /\ \A u \in Traces : u # t => chunked'[u] = chunked[u] /\ embedded'[u] = embedded[u]
    BY <1>1, <1>2, <1>3, <1>7 DEF TypeOK
  <1>9. embedded' \in [Traces -> BOOLEAN]
    BY <1>1, <1>2 DEF TypeOK
  <1>10. TypeOK'
    <2>1. operational' \in [Traces -> Seq(Artifacts)] /\ UNCHANGED <<status, snapshot>>
      BY <1>1, <1>2 DEF TypeOK
    <2>. QED
      BY <1>1, <1>2, <1>4, <1>8, <1>9, <2>1, HandlerTypes
  <1>11. ChunksCatchUp'
    BY <1>1, <1>5, <1>6, <1>8 DEF PipelineInv, ChunksCatchUp
  <1>12. EmbeddingsCatchUp'
    BY <1>1, <1>4, <1>6, <1>8 DEF PipelineInv, EmbeddingsCatchUp
  <1>. QED
    BY <1>6, <1>10, <1>11, <1>12 DEF PipelineInv

(* The embedding worker: the embeddings have caught up.                    *)
LEMMA EmbedKeeps ==
    ASSUME PipelineInv, Embed
    PROVE  PipelineInv'
  <1> DEFINE t == Dispatched.trace
             e == Envelope("EMBEDDINGS_GENERATED", NoArtifact, t, NoTestcase)
  <1>1. /\ queue # <<>> /\ Dispatched.type = "TRACE_CHUNKED"
        /\ embedded' = [embedded EXCEPT ![t] = TRUE]
        /\ FollowUp(e)
        /\ UNCHANGED <<status, snapshot, operational, chunked>>
    BY DEF Embed, Dispatches
  <1>2. TypeOK
    BY DEF PipelineInv
  <1>3. t \in Traces /\ NoTestcase \in Testcases
    BY <1>1, <1>2, DispatchedIsEvent DEF Testcases
  <1>4. e \in EventEnvelope /\ e.type = "EMBEDDINGS_GENERATED"
    BY <1>3, EnvelopeType DEF EventTypes
  <1>5. Dispatched.trace = t
    OBVIOUS
  <1> HIDE DEF t, e
  <1>6. /\ ParsedOnce'
        /\ \A type, u : Awaits(type, u) /\ (Dispatched.type # type \/ Dispatched.trace # u)
                         => Awaits(type, u)'
    BY <1>1, <1>4, HandlerKeeps
  <1>7. /\ embedded' \in [Traces -> BOOLEAN]
        /\ embedded'[t] = TRUE
        /\ \A u \in Traces : u # t => embedded'[u] = embedded[u]
    BY <1>1, <1>2, <1>3 DEF TypeOK
  <1>8. TypeOK'
    <2>1. /\ operational' \in [Traces -> Seq(Artifacts)] /\ chunked' \in [Traces -> Nat]
          /\ UNCHANGED <<status, snapshot>>
      BY <1>1, <1>2 DEF TypeOK
    <2>. QED
      BY <1>1, <1>2, <1>4, <1>7, <2>1, HandlerTypes
  <1>9. ChunksCatchUp'
    BY <1>1, <1>6 DEF PipelineInv, ChunksCatchUp
  <1>10. EmbeddingsCatchUp'
    BY <1>1, <1>5, <1>6, <1>7 DEF PipelineInv, EmbeddingsCatchUp
  <1>. QED
    BY <1>6, <1>8, <1>9, <1>10 DEF PipelineInv

-----------------------------------------------------------------------------
(* At the start all tables are empty.                                      *)
LEMMA InitEstablishes ==
    Init => PipelineInv
  <1> SUFFICES ASSUME Init PROVE PipelineInv
    OBVIOUS
  <1>1. /\ status = [a \in Artifacts |-> "none"]
        /\ snapshot = [t \in Traces |-> NoArtifact]
        /\ operational = [t \in Traces |-> <<>>]
        /\ chunked = [t \in Traces |-> 0]
        /\ embedded = [t \in Traces |-> FALSE]
        /\ events = <<>> /\ outbox = {} /\ queue = <<>> /\ alive = TRUE /\ lost = {}
        /\ redeliveries = 0 /\ outages = 0 /\ restarts = 0
    BY DEF Init
  <1>2. TypeOK
    <2>1. operational \in [Traces -> Seq(Artifacts)] /\ events \in Seq(EventEnvelope)
      BY <1>1
    <2>2. queue \in Seq(1 .. Len(events))
      BY <1>1
    <2>3. embedded \in [Traces -> BOOLEAN] /\ alive \in BOOLEAN
      BY <1>1
    <2>. QED
      BY <1>1, <2>1, <2>2, <2>3 DEF TypeOK
  <1>3. Len(events) = 0 /\ \A t \in Traces : Len(operational[t]) = 0
    BY <1>1
  <1>. QED
    BY <1>1, <1>2, <1>3 DEF PipelineInv, ParsedOnce, ChunksCatchUp, EmbeddingsCatchUp

(* Every step keeps the invariant.                                         *)
LEMMA NextKeeps ==
    PipelineInv /\ [Next]_vars => PipelineInv'
  <1> SUFFICES ASSUME PipelineInv, [Next]_vars PROVE PipelineInv'
    OBVIOUS
  <1>1. CASE \E a \in Artifacts : Submit(a) \/ ProcessTrace(a)
    BY <1>1, SubmitKeeps, ProcessTraceKeeps
  <1>2. CASE \E i \in outbox : Publish(i) \/ PublishTwice(i)
    BY <1>2, PublishKeeps
  <1>3. CASE Handle
    BY <1>3, ParseKeeps, NormalizeKeeps, ChunkKeeps, EmbedKeeps, IgnoreKeeps, RaisingKeeps
       DEF Handle
  <1>4. CASE Restart
    BY <1>4, RestartKeeps
  <1>5. CASE UNCHANGED vars
    <2>1. UNCHANGED <<tables, events, outbox, queue, alive, lost, counters>>
      BY <1>5 DEF vars
    <2>2. UNCHANGED <<status, snapshot, operational, chunked, embedded,
                      redeliveries, outages, restarts>>
      BY <2>1 DEF tables, counters
    <2>3. TypeOK'
      BY <2>1, <2>2 DEF PipelineInv, TypeOK
    <2>4. Outstanding' = Outstanding
      BY <2>1 DEF Outstanding, Queued
    <2>. QED
      BY <2>1, <2>2, <2>3, <2>4
         DEF PipelineInv, ParsedOnce, ChunksCatchUp, EmbeddingsCatchUp, Awaits
  <1>. QED
    BY <1>1, <1>2, <1>3, <1>4, <1>5 DEF Next

(* The invariant holds in every reachable state.                           *)
LEMMA PipelineInvariant ==
    Spec => []PipelineInv
  BY InitEstablishes, NextKeeps, PTL DEF Spec

-----------------------------------------------------------------------------
(* The tables, the outbox and the queue of the pipeline have their types   *)
(* for any artifacts and any bounds.                                       *)
THEOREM PipelineTypeCorrect == Spec => []TypeOK
  <1>1. PipelineInv => TypeOK
    BY DEF PipelineInv
  <1>. QED
    BY <1>1, PipelineInvariant, PTL

(* However often TRACE_ARTIFACT_RECEIVED is delivered, ProcessArtifact     *)
(* parses an artifact once and reports it with one TRACE_PARSED event.     *)
THEOREM ArtifactsAreParsedOnce == Spec => []ParsedOnce
  <1>1. PipelineInv => ParsedOnce
    BY DEF PipelineInv
  <1>. QED
    BY <1>1, PipelineInvariant, PTL

(* The normalizer and the chunk worker never leave a trace whose chunks    *)
(* are behind its operational events without an event that says so.        *)
THEOREM ChunksAlwaysCatchUp == Spec => []ChunksCatchUp
  <1>1. PipelineInv => ChunksCatchUp
    BY DEF PipelineInv
  <1>. QED
    BY <1>1, PipelineInvariant, PTL

(* The chunk worker, which deletes embeddings along with chunks, never     *)
(* leaves a trace without an event that has them made again.               *)
THEOREM EmbeddingsAlwaysCatchUp == Spec => []EmbeddingsCatchUp
  <1>1. PipelineInv => EmbeddingsCatchUp
    BY DEF PipelineInv
  <1>. QED
    BY <1>1, PipelineInvariant, PTL
=============================================================================
