# Verification of the GlobalRoamer observability platform

TLA+ models of the platform: the transactional outbox, the in-process event
runtime, the lifecycle of the background workers and the application they form
together; the requests of the trace API; the pipeline from a trace file to
operational events, chunks, embeddings and search results. TLC checks the models
on small instances, and TLAPS proves the safety properties of all parts for every
value of the constants. Paths are relative to `globalroamer_platform/`.

## 1. Inventory

| component | state | operations | module |
|---|---|---|---|
| Transactional outbox: `domain/entities/outbox_message.py`, `application/outbox/`, `sqlalchemy_outbox_repository.py`, `session_scoped_outbox_publisher.py` | rows of `outbox_messages`, row locks, uncommitted updates of a batch | add, list_available, update, mark_published, mark_failed, commit, rollback | `Outbox` |
| Event runtime: `runtime/event_runtime.py`, `event_dispatcher.py` | queue, background task, `_stopping` | publish, start, stop, process_until_idle, the loop | `EventRuntime` |
| Worker lifecycle: `runtime/application_runtime.py`, `event_runtime_worker.py`, `workers/outbox_worker.py` | tasks, stop events, `_started`, `_stopping` | start, stop, timeout and cancellation, the loops of the workers | `ApplicationRuntime` |
| Composed process: `bootstrap/runtime.py`, `main.py` (lifespan), `session_scoped_event_handler.py` | all of the above | all of the above | `Platform` |
| Pipeline workers: `workers/{parser,normalizer,chunk,embedding}_worker.py` and their use cases and stores | artifact status, parsed trace, operational events, chunks, embeddings | the four handle(), the synchronous route | `Pipeline` |
| Trace registry: `application/traces/{create,get,list}_trace*.py`, `sqlalchemy_trace_repository.py` | trace rows | create, get, list in pages | `Requests` |
| Trace submission: `application/traces/submit_trace.py`, `local_object_storage.py`, `sqlalchemy_artifact_repository.py` | objects, artifact rows, outbox rows | hash, copy, add, announce | `Requests`, as one step in `Pipeline` |
| Request sessions: `api/dependencies/database.py`, `api/routes/` | what a request has flushed | commit, rollback, response | `Requests` |
| Loading and parsing: `trace_loader.py`, `trace_parser.py`, `time_normalizer.py` | none | accept a file, rows, timestamps, zones | `TraceReading` |
| Extraction: `evidence_extractor.py`, `signal_extractor.py`, `trace_normalizer.py` | none | evidence, signals, operational events | `Classification` |
| Values: `trace_value_extractor.py`, `mapping_engine.py` | none | extract, convert, map, default | `TraceMapping` |
| Parsing and normalizing a trace: `parse_trace.py`, `normalize_trace.py`, `parsed_trace_store.py`, `parsed_trace_mapper.py` | the snapshot of a trace, its operational events | parse, save, load again, normalize | `Analysis` |
| Chunker: `trace_chunker.py` | the chunk being filled | chunk | `TraceChunker` |
| Embedding and search: `embed_trace_chunks.py`, `sentence_transformer_embedding_provider.py`, `search_relevant_trace_chunks.py` | chunks, records, the provider's lock and threads | embed in batches, search, cancel, redeploy | `Indexing` |
| Standalone workers, Kafka transport, YAML configuration, startup checks, telemetry, middleware | none the properties depend on | | not modelled, see 5 |

How they interact. Use cases insert an outbox row in the transaction of their
own writes. The outbox worker takes due rows in batches and hands each event to
its publisher, in the API process `EventRuntime.publish`. The loop of the event
runtime dispatches the events to the pipeline workers, each in a database
session of its own. A worker writes its results, inserts the next event in the
outbox, commits, and also returns that event, which the runtime puts into the
same queue. The lifespan of the API starts and stops both background workers
through `ApplicationRuntime`. Requests run beside all this, in sessions of their
own: they create and list traces, submit files, which starts the pipeline, or
parse a file at once; searches share the embedding model with its worker.

What is hard here, and what makes each part correct:

- **Outbox.** Several workers share one table; a batch is one transaction but
  publishing is not, so a rollback leaves events published whose rows say
  otherwise. Correct means: no row is in two batches, every delivery is
  accounted for by a row, a batch or a rollback, attempts and delays add up
  across batches, settled rows never change, pending rows are settled.
- **Event runtime.** Producers, the loop and stop() share one queue, stop
  markers travel in it, and handlers raise. Correct means: nothing accepted is
  lost, duplicated or overtaken in the queue, stop() drains what was accepted
  before it and returns, the loop does not end by itself.
- **Lifecycle.** A stop request can precede a worker's first step; overdue tasks
  are cancelled and one of them answers a cancellation with more waiting.
  Correct means: stop() returns, no task outlives it, none ends unasked.
- **The whole.** An event takes two ways to its handlers, and the runtime may be
  stopping when a batch publishes. Correct means: a row marked published is in
  the queue or taken, no event is seen before its transaction is committed,
  the copies of an event are bounded, committed events are handled.
- **The pipeline.** Its handlers are transactions that read what other
  deliveries, or other submissions of the same trace, have left; events arrive
  twice, in another order, after a restart or never. Correct means: an artifact
  is parsed once, and as long as a stage is behind the stage before it, an event
  that says so is still on its way.
- **Requests.** Checks and inserts of several requests interleave, a file can
  change between its hash and its copy, objects are not part of a transaction,
  and the commit comes after the handler. Correct means: clients are told what
  the database holds, rows are unique, artifacts are announced and have the
  object that was hashed, a listing misses nothing, every request ends.
- **The analysis of a trace.** Ordered rules, two vocabularies, four strategies
  for times, defaults and conversions, a document that is stored as JSON and read
  again by another worker. Correct means: each row that tells something becomes
  the event it tells, nothing that could not be understood vanishes without a
  message, a stored value says where it comes from, the detour through the
  database changes nothing.
- **Chunks and embeddings.** The overlap of chunks competes with their size;
  batches have to be put together again; the model is used by one call at a
  time, calls are cancelled while a thread works on, models are exchanged.
  Correct means: chunks cover every event once and in order, a vector belongs to
  its chunk and model, the index is whole or absent, searches are served.

The hazards, with their lines, are in `PROJECT.json`.

## 2. The modules and the code

**`AtLeastOnceDelivery`** is what the outbox promises, for each message: it goes
from pending to published or failed, it is published only after a delivery, and
it is never delivered once it is settled.

**`Outbox`** models the table and its workers. `row` is the committed table
(`status`, `attempt_count`, `created_at`, `available_at`); `claimed[w]` and
`draft[w]` are the locks and the uncommitted updates of the transaction worker
`w` has open. `BeginBatch` is the SELECT ... FOR UPDATE SKIP LOCKED of
`list_available`, with its filter, its order and its limit; `PublishSucceeds`
and `PublishFails` are one round of the loop in
`PublishPendingOutboxMessages.execute`, including `MarkAttempted` and the state
that `_mark_failed` computes; `Commit` and `Rollback` are the two ends of
`SessionScopedOutboxPublisher.execute`. `delivered` counts what the transport
accepted, `undone` is a history variable for published updates that a rollback
took back. Time is an integer clock. A retry is only taken if it is due within
the bound `MaxTime`.

**`EventRuntime`** models the queue and its consumers. Events are numbers in the
order of acceptance, `STOP` is the marker. One step is the code between two
awaits that can suspend (the queue is unbounded, `put` does not suspend).
`StopRequest` and `StopReturn` are the two halves of `stop()`; `StopCancelled`
is a stop() cancelled in its wait, which cancels the loop as well. `stopMark`
and `strayed` are history variables: how many events were accepted when
stop() was called, and whether a loop ended without reaching its marker.

**`ApplicationRuntime`** models the tasks. A poller stands for
`OutboxWorker.run_forever`, an adapter for `EventRuntimeWorker.run_forever`.
`AppStop` sets all stop events in one step, as `stop()` of both kinds of workers
does not suspend; `StopTimeout` cancels what is pending; `CancelDelivered` is the
task noticing it, with the `finally` of the adapter.

**`Platform`** composes the three: it EXTENDS them, so that it has their
variables and their actions (and the proofs can cite the theorems about them).
Each of its actions joins the steps that are one step of the program: publishing
to the runtime is `PublishSucceeds` of the outbox with `Publish` of the runtime
or, while the runtime is stopping, `PublishFails`; the handler's commit is
`Enqueue` of its follow-up; the adapter's steps call start() and stop() of the
runtime. `carries` says which message each accepted event carries, `produced`
is the follow-up that the running handler has committed.

**`Pipeline`** models the tables the handlers write and the events that drive
them. `status` is `source_artifacts`; `snapshot[t]` the artifact whose parse is
stored for a trace (`ParsedTraceStore.save` overwrites); `operational[t]` the
snapshots normalized so far, as every normalization adds rows with fresh ids;
`chunked[t]` how much of it the chunks cover, as `ChunkWorker` deletes and makes
them anew; `embedded[t]` whether these chunks have embeddings, which go with
their chunks (ON DELETE CASCADE). `Parse`, `Normalize`, `Chunk` and `Embed` are
the committed handlers with the outbox row and the queued copy of their
follow-up; `Refuse` is a handler whose own checks, or the unique constraint of
`embedding_records`, reject the event, and `Outage` one that fails for other
reasons: both roll back, drop the event and end the loop. The outbox and the
queue are reduced to what `Platform` shows of them: every row is published at
least once, each batch that is rolled back publishes once more, and the queue
goes with the process (`Restart`). `lost` is a history variable: the events dropped
with work still to do, so a copy that is refused because the artifact is parsed or
its chunks are embedded is not among them.

**`Requests`** models up to four requests and the clients that sent them.
`stage[r]` and `work[r]` are the place and the local variables of the handler,
`writes[r]` what its session has flushed: nobody sees it, but a flush of the same
unique key, or an update of the same row, waits for the session (`Blocked`).
`LookUp` and `AddTrace` are the two statements of `CreateTrace.execute`;
`Inspect`, `CopyContent`, `PlaceObject`, `AddArtifact` and `AddMessage` the parts
of `SubmitTrace.execute` between which another request, a failure, a crash or
somebody who replaces the file can come; `LoadAndParse`, `SelectSnapshot` and
`SaveSnapshot` the synchronous route. `Assigned` is what SQLAlchemy writes of an
assigned row: the columns that differ from those it read. `Commit`, `CommitFails`
and `Rollback` are the ends of `get_database_session`. Whether the response
leaves before or after the commit depends on the version of FastAPI, which is not
pinned: `commitsFirst` is either. A request stands for the uuids it generates,
and a hash for the content it is taken of. An `IntegrityError` is the outcome
"duplicate" (the client gets a 500).

**`TraceReading`**, **`Classification`** and **`TraceMapping`** hold the pure
functions of the analysis, one operator per method. Texts are sets of keywords
(a regular expression matches when its keyword is there), times are hours with an
offset, values carry their Python type and the form of their text: `1`, `true` and
`1.0` are different values that Python finds equal (`SameValue`, by way of
`Denoted`), and a datetime that is printed as text (`printed`, with a blank) is not
the text that JSON writes of it (`stamp`, with a T). The rules,
their order, their exclusions, the strategies, the conversions that fail and the
tables of the normalizer are those of the code.

**`Analysis`** runs them as the two workers do: the parser worker takes the
artifacts of a trace one by one (`Load` to `Save`, one action per stage of
`ParseTrace.execute`), the normalizer worker takes its events in order
(`Reload`, `Normalize`, `SaveEvents`) and reads the snapshot that is stored by
then. `ToDict` and `FromDict` are the round trip through the JSON document, with
the datetimes that stay text in it (`Each` changes every member of a mapping,
`MappedToDict` writes a target). `Fails` is every exception on the way: a
file that is refused, a strict zone, a time that overflows, a NaN that the JSON
column refuses.

**`TraceChunker`** models the loop of `TraceChunker.chunk`: `Fill` adds the next
event, `Close` ends a chunk and carries the overlap over, `Return` ends the
last. Lines are their lengths, a chunk's text is the list of its events. What
Python sorts or sums is counted: `Sorted` puts an event where the number of
events before it says, `Total` is the size of a set of ones. `Fresh(i)` is the
places of a chunk whose events the chunk before it does not hold.

**`Indexing`** puts it into `ChunkWorker` and follows its chunks: `EmbedBatch`,
`WorkerEncodingEnds` and `AddRecords` are one round of the loop in
`EmbedTraceChunks.execute`, `SaveRecords` its end. `lock` is `_encode_lock` with
its waiters in order, `threads` the callers whose encode() runs, including those
that were cancelled. `Ask`, `QuestionEncoded` and `Answer` are a search;
`Similar` is the repository, a port without implementation: any records that
match its arguments. `NormalizeAgain` is a second delivery to the normalizer,
which doubles the events of the trace; `Redeploy` starts the process with the
next model.

Definitions marked as variants in a comment are plausible mistakes of the same
function; they are used to see that the properties notice them, and no
specification uses them.

## 3. The runs

| run | checks | instance |
|---|---|---|
| `outbox` | `NoSharedClaim`, `DeliveriesAccounted`, `AttemptsDecideStatus`, `BatchesAreDueInOrder`, `SettledIsFinal`, `ImplementsDelivery`, `EventuallySettled` | 2 workers, 2 messages, batches of 2, 3 attempts, clock 0..4, a rollback |
| `event_runtime` | `QueueKeepsOrder`, `NoSpontaneousExit`, `StopDrains`, `StopTerminates`, `AcceptedIsTaken` | 5 events, up to 2 follow-ups each, 4 tasks |
| `application_runtime` | `NoOrphanTask`, `EndsOnlyOnRequest` | 2 pollers, 1 adapter, 3 lives |
| `platform` | `TypeOK`, `PublishedIsHeld`, `NoPhantomEvent`, `CopiesBounded` | 2 messages, 2 lives, 2 rollbacks |
| `platform_liveness` | `EventuallyHandled`, `ShutdownCompletes` | 2 messages, 1 life, 1 database error |
| `pipeline` | `TypeOK`, `ParsedOnce`, `ChunksCatchUp`, `EmbeddingsCatchUp` | 2 artifacts of 1 trace, 5 events, a redelivery, an outage, a restart |
| `pipeline_liveness` | `EventuallyEmbedded` | 1 artifact, 9 events |
| `analysis` | `EventsTellTheRows`, `ProblemsAreSignalled`, `NothingIsSilent`, `ValuesTellTheTrace`, `ReloadIsInvisible` | every file of up to 3 of 9 lines, refused files, 4 zone strategies, 2 configurations; pairs of artifacts |
| `indexing` | `ChunksAreSound`, `IndexIsSound`, `OneAwaitedEncoding`, `SearchIsServed` | 10 inputs of the chunker, 1 search, 2 models, 2 normalizations and embeddings, a failure, a cancellation |
| `requests` | `TypeOK`, `AnswersAreTrue`, `OneRowPerKey`, `ArtifactsAreWhole`, `PagingMissesNothing`, `EveryRequestEnds` | 6 workloads of up to 4 requests, 2 files, 1 incident |
| `pipeline_embedding` | `EmbeddingIsIdempotent` is violated | 1 artifact, 5 events |
| `requests_snapshot` | `SummaryDescribesDocument` is violated | 3 requests for one trace |

`TypeOK` of `Platform` is the type invariants of the outbox, the event runtime and the
lifecycle together. `ChunksAreSound` (every event once and in order, the limit of
a chunk, the overlap of neighbours), `IndexIsSound` (vectors belong to their chunks,
the index is whole or absent, a search meets its own model), `NothingIsSilent`
(times, and the verdict on a trace) and `ValuesTellTheTrace` (extracted values, the
ones that were dropped, and targets) join properties that are named and explained one
by one in their modules.

Why the bounds are enough. In the outbox, two workers are what a lock can be
contended by; batches of two give a batch an order and let one message fail while
the other succeeds; three attempts make both delays occur (1 and 2), and
time 4 lets the last attempt of a message that was created at time 1 happen. In
the event runtime, two follow-ups of one event can surround a marker, and four
tasks let a stray marker meet a second and a third loop. In `platform`, one
message is committed by a use case and the other may be the follow-up of its
handler; eight accepted events are more than two messages with their returned
copies and two rollbacks can produce, so the bound never refuses an event.
Three lives of the application show a stop event that is left over twice. In
`pipeline`, five events are both submissions and three follow-ups, so one trace
can be normalized twice and chunked in between; the second artifact has a test
case and no evidence, so all four checks of the handlers both pass and fail. In
`pipeline_liveness`, nine events are what one submission creates up to its first
embedding if every copy of every earlier event is handled first. In `analysis`,
the nine lines hold every kind of timestamp, a row that matches a negative and
a positive rule, a special and a generic one, or none, a row that both registers
and detaches, and rows that assign the same name differently or in
another form (`1`, `true` and `1.0`; one instant with two offsets); three of them
are enough for a first, a middle and a last value. An operator of an event is a
datetime in one of them. The two configurations are the
shipped one and one with every operation, type and strategy, patterns over a
field and over whole lines, and a text with a datetime for its default. In `indexing`, an event fills a chunk, exceeds it or
shares it; four events and batches of two give a last batch that is not full; in one
trace, the overlap of two chunks is two events.
In `requests`, the workloads are the requests that share a trace, a listing, a
content or a snapshot; two racing requests and a third one that sees the result
are what a unique key needs; one incident is a failure at any statement, a failed
commit, a crash, or a file that is replaced or removed at any moment.

Deadlock checking is off where a bounded program comes to rest (all events
used, the application stopped for good, all requests answered); `Outbox`, an
idle poll being a step of its own, and `Analysis`, with a step at its end, are
checked for deadlock.

### Fairness

`Outbox`: weak fairness of time, and of every worker's steps: the loop in
`run_forever` catches every exception of a batch and polls again, and each await
of a batch ends. Nothing forces a use case to insert a row, and rollbacks are
bounded: a database that fails for ever would keep a row pending for ever.
`EventRuntime`: weak fairness of the consumer (handlers end, as asyncio
schedules each ready task) and of the return of stop(). `ApplicationRuntime`:
weak fairness of each task, of the timeout and of the return of stop(). No
fairness is assumed of publish, start, stop or failures. `Pipeline`: weak
fairness of publishing each row, which `EventuallySettled` and
`EventuallyHandled` justify, and of the loop while it is alive. The loop dies
with the first handler that raises, and nothing starts it again: this is why
`EventuallyEmbedded` allows for lost events and for a dead loop. `Indexing`: weak
fairness of the worker's steps, of each search, and of a thread's end; waiters of
an asyncio lock are woken in order, so weak fairness of the next one suffices.
`Requests`: weak fairness of each request, as the event loop schedules every
ready task and a session that others wait for ends.

### Findings

1. The port of the embedding records supports "idempotent embedding generation",
   but nothing calls it: the second copy of a TRACE_CHUNKED event violates a
   unique constraint and ends the loop. As each worker both returns its event and
   stores it in the outbox, one ordinary submission leads there
   (`pipeline_embedding`).
2. A snapshot is read without a lock and written column by column. Of two saves
   that overlap, the later one writes its document but not the summary columns
   that equal those it had read, so the row can keep the other's summary beside
   its own document (`requests_snapshot`).

Other disagreements met while modelling, which no run is spent on:

- "Events already ahead of the stop marker remain ordered and are handled before the
  runtime exits" (`runtime/event_runtime.py:97`). A marker whose loop died, or whose
  stop() was cancelled, stays in the queue and ends the next loop; the stop() that
  waits for that one returns although events ahead of its own marker are queued
  (`TakeStop`). It takes a caller that starts the runtime again; the application
  does so once per process.
- Handlers let failures propagate "so the runtime can roll back and retry"
  (`workers/embedding_worker.py:84`); the runtime drops the event and ends the
  loop (`DispatchFails`).
- `OutboxWorker.run_forever` clears the stop event in its first step: a stop()
  before that is lost and the worker polls until the shutdown timeout
  (`FirstStep`).
- publish() accepts events again when stop() has returned, and an outbox batch
  that is still open marks their rows published (`BatchPublishes` in `Platform`).
- `TimeNormalizer.normalize` promises a result instead of an exception; a
  timestamp at either end of the calendar raises OverflowError (`Overflows`).
- The normalizer names `detached` where the extractor writes `ps_detached`
  (`EventName`), and the chunker's failure flag leaves out the result
  `rejected`, which the normalizer writes (`FailureResults`).
- "A provider-level lock serializes calls against the same model instance"
  (`sentence_transformer_embedding_provider.py:32`), but a call that is cancelled
  releases the lock while its thread still encodes: the next one runs beside it
  (`OneAwaitedEncoding` states what is left of the promise).
- "The configured duplicate strategy determines which value is retained"
  (`trace_value_extractor.py:48`), but a value that Python finds equal to the first
  one (`true` or `1.0` after `1`, the same instant with another offset) is skipped
  under every strategy, so that the first way of writing it, and its line, are kept
  (`StoreValue`).
- Line numbers count the rows of the CSV reader, which skips blank lines
  (`DataLines`): below one they are not the lines of the file.

What the properties leave out, in their own words rather than by the bounds of a run:

- `NoSpontaneousExit` and `StopDrains` speak of loops that meet no stray marker
  (`strayed`); the first disagreement above is about the others.
- `AcceptedIsTaken` and `EventuallyHandled` speak of a loop that lives,
  `EventuallyEmbedded` of one that lives and of events that are not lost.
- `ChunksCatchUp` and `EmbeddingsCatchUp` count a lost event as outstanding: one
  that a dead loop or a restart dropped, or that its handler refuses (two
  submissions of one trace with different test cases). They show that work is
  never left behind without such an event; they do not show that it is resumed,
  and nothing in the code resumes it.
- `ArtifactsAreWhole` lets a file that was replaced between its hash and its copy
  have another content.
- `CopiesBounded` allows two copies of every event, for the two ways it takes.
- `AnswersAreTrue` promises that what was accepted is stored only if the commit
  precedes the response.
- `EventsTellTheRows` lets a row that says both that the device registered and that
  it detached be a success (the rule for "nas registered" comes before those for a
  detachment and does not exclude them).
- `ProblemsAreSignalled` is about failures, rejections, timing and retries. A row of
  mobility management ("plmn not allowed") is evidence of high severity and has no
  signal; no document or test promises one.
- `ReloadIsInvisible` lets a datetime that is the default of a target of another
  type come back as text (a document is read by the type of its target), and a
  datetime that is operator or country of an event be printed with a blank before
  the reload and a T after it.
- An artifact with a time at the end of the calendar, or with a NaN, fails as a
  whole: the properties show that it leaves nothing behind.

The exemptions of `EventsTellTheRows` and of the default in `ReloadIsInvisible` were
found by proof attempts: the properties had been stated without them, and no file of
the run showed it. The instance of the run has such a row and such a default since.

## 4. The proofs

The theorems are in a module `X_proofs` for each of `Outbox`, `Platform`,
`Requests`, `Pipeline`, `TraceChunker`, `Indexing` and `Analysis`, and in
`Runtime_proofs` for `EventRuntime` and `ApplicationRuntime`. All values of the
constants are covered, under the assumptions the modules name
(`OutboxAssumption`, `RuntimeAssumption`, `AppAssumption`, `PlatformAssumption`,
`RequestsAssumption`, `PipelineAssumption`, `ChunkerAssumption`,
`IndexingAssumption`, `WorkerIsNoSearch`, `ReadingAssumption`, `MarkersAreNoData`,
`InputsAssumption`); TLC evaluates them in every run. `MarkersAreNoData` says that
the values that stand for None are no data (no time, and no text of one), `InputsAssumption` that an input is a
sequence of files and a configuration that `MappingConfiguration` accepts. TLC found the inductive invariants true on the instances of
the runs too, except the part of the chunker's that speaks of windows of any
length (`LoopInv`), which it cannot enumerate.

| proved for every instance | theorem |
|---|---|
| `NoSharedClaim`, `DeliveriesAccounted`, `AttemptsDecideStatus`, `SettledIsFinal` | `ClaimsAreDisjoint`, `DeliveriesAreAccounted`, `AttemptsAreBounded`, `SettledRowsAreFinal` |
| `BatchesAreDueInOrder` | `BatchesAreAlwaysDueInOrder` |
| `ImplementsDelivery` (refinement of `AtLeastOnceDelivery`) | `OutboxImplementsDelivery` |
| `QueueKeepsOrder`, `NoSpontaneousExit`, `StopDrains` | `QueueIsOrdered`, `ExitIsRequested`, `StopDrainsTheQueue` |
| `NoOrphanTask`, `EndsOnlyOnRequest` | `NoTaskIsOrphaned`, `TasksEndOnRequest` |
| the application behaves like each of its components | `PlatformRunsTheOutbox`, `PlatformRunsTheRuntime`, `PlatformRunsTheLifecycle` |
| `PublishedIsHeld`, `NoPhantomEvent`, `CopiesBounded` | `PublishedIsAlwaysHeld`, `NoEventIsPhantom`, `CopiesAreBounded` |
| `OneRowPerKey`, `ArtifactsAreWhole`, `AnswersAreTrue`, `PagingMissesNothing` | `KeysAreUnique`, `ArtifactsAreAlwaysWhole`, `AnswersAreAlwaysTrue`, `PagingAlwaysMissesNothing` |
| `ParsedOnce`, `ChunksCatchUp`, `EmbeddingsCatchUp` | `ArtifactsAreParsedOnce`, `ChunksAlwaysCatchUp`, `EmbeddingsAlwaysCatchUp` |
| `ChunksAreSound` | `ChunksAreAlwaysSound` (one call of the chunker), `IndexedChunksAreSound` (under `Indexing`) |
| `OneAwaitedEncoding`, `IndexIsSound` | `EncodingIsAlwaysSerialized`, `IndexIsAlwaysSound` |
| `NothingIsSilent`, `ProblemsAreSignalled` | `NothingIsLostSilently`, `FactsAreSignalled` |
| `EventsTellTheRows`, `ValuesTellTheTrace` | `EventsAreTrue`, `ValuesAreTheTrace` |
| `ReloadIsInvisible` | `ReloadIsFaithful` |
| the types | `TypeCorrect`, `RuntimeTypeCorrect`, `PlatformTypeCorrect`, `RequestsTypeCorrect`, `PipelineTypeCorrect` |

**Outbox.** `OutboxInv` adds two parts to the properties themselves.
`LocksProtect`: uncommitted updates concern rows the batch has locked, and locked
rows are still pending in the committed table. `DraftsFollowRows`: an uncommitted
update is a legal successor of its row. Without the first, a commit could
overwrite a published row, and neither `DeliveriesAccounted` nor
`SettledIsFinal` would be preserved; with `NoSharedClaim`, no other batch can
change a row between its selection and the commit. From it: `TypeCorrect`,
`ClaimsAreDisjoint`, `DeliveriesAreAccounted`, `AttemptsAreBounded`,
`SettledRowsAreFinal` and `OutboxImplementsDelivery`, the refinement of
`AtLeastOnceDelivery`, action by action. The schedule needs an invariant of its
own (`ScheduleInv`): of a pending row and of its draft, `available_at` is at least
`created_at` plus the delays so far, which add up to 2^n - 1 initial delays
(`PowersOfTwo`); and a batch has processed a beginning of its order
(`KeepsOrder`). The first survives a commit only because of `OutboxInv`.

**EventRuntime.** `QueueKeepsOrder` is inductive with the type. For stop() one
has to know where its marker is: as long as no loop left a marker behind, the
queue holds at most one, only while a stop() waits for a running task
(`OneMarker`), and everything accepted before that call is ahead of it
(`MarkerAfterEvents`). `RuntimeTypeCorrect`, `QueueIsOrdered`, `ExitIsRequested`
and `StopDrainsTheQueue` follow.

**ApplicationRuntime.** `RequestBehindIt` says that a stop event which a poller
or a waiting adapter can see, a cancellation, and an adapter that stops the
event runtime all come from a stop() of this run; a task before its first step
may see an old event, which is why it clears it. `NoTaskIsOrphaned` and
`TasksEndOnRequest` follow for any set of workers.

**Platform.** Every step of the application is a step of each component or leaves
it alone (`PlatformRunsTheOutbox` and its two siblings), so `OutboxInv`,
`RuntimeInv` and `AppInv` hold of it. `TiesInv` is the rest: what the runtime has
accepted carries committed messages (`NoPhantomEvent`, `ProducedIsCommitted`: also
the follow-up that its handler is about to return), whatever the table or an
uncommitted update says is published has been accepted (`AnnouncedIsAccepted`;
the committed rows alone are not inductive, as a commit copies the draft), and
the copies of a message are at most its deliveries and the returned one
(`CopiesCounted`). With `DeliveriesAccounted` of the outbox the latter bounds the
copies by the rollbacks, with `QueueKeepsOrder` an accepted event is taken or in
the queue.

**Requests.** `RequestsInv` says of each request how far it has come (`Local`: it
flushes rows of its own only, in full when its handler has returned, the object
before the artifact), and of the sessions together that no flushed key is in the
table or flushed by another session (`KeysAreFree`): the insert waits for the
other session, and its end decides. So a commit keeps the keys unique and
brings an artifact together with its event. `AnswersAreTrue` needs that the
committed rows are of requests that were not turned down (`RowsAreOfCommitted`).
For the pages (`ListingInv`): traces are only added, newer than all that are
listed, so what was there when a client began moves towards the end, and the
client's offset never passes what it has not seen. That a page holds the rows
whose number of newer rows lies in its window is counting (the theorems on finite sets), not
induction.

**Pipeline.** The properties are inductive together with the type: an event leaves
what is outstanding (rows, queue, lost events) only when its handler commits
(`TakeFromQueue`, `PlacesKept`), and then the work it stood for is done or the
follow-up of the same transaction stands for it (`HandlerKeeps`), or when it is
refused as there is nothing left to do (`RaisingKeeps`). Whatever an
event of one trace stands for, other traces keep theirs (`AwaitsKept`).
`PipelineTypeCorrect`, `ArtifactsAreParsedOnce`, `ChunksAlwaysCatchUp` and
`EmbeddingsAlwaysCatchUp` hold for any artifacts, traces and test cases and any
number of redeliveries, failures and restarts.

**TraceChunker.** The invariant (`ChunkInv`) is that the texts of the chunks are
windows `lo[i] .. hi[i]` of the ordered trace (`Cut`): the ends grow from 0 to the
last event seen, a window begins at most one place after the end of the one
before it, and exactly as far before that end as the overlap takes. `FillStep`
moves the last end, `CloseStep` adds a window (`PieceGrows`, `NextPiece`). The new
events of a chunk are then those between two ends (`FreshOnes`), from which the
four parts of `ChunksAreSound` follow. `SortedIsInOrder` proves that placing
events by the number of their predecessors sorts them: the key is a strict total
order on events with ids of their own (`BeforeIsAnOrder`, `Ranks`), and an
injection of a finite set into itself is onto.

**Indexing.** `LockInv`: the lock's queue holds each caller in a call once, only
its first encodes, and the threads without a call are no more than the
cancellations. `HandlerInv`: while the embedding handler works, its chunks are
the rows, and its draft the records of the first of them, whatever searches,
cancellations and failures do to the provider. `ShapesInv` gives the types the
sequences need, `ChunkInv` is the chunker's, which a repeated normalization
starts again with a longer trace (`TraceNormalizedAgain`).

**Analysis.** The theorems hold for files of any length, any zones, any accepted
configuration and any number of artifacts. `AnalysisInv` has three parts: only
artifacts before the current one have an outcome (`OutcomesInOrder`);
what the parser worker holds at a stage is what the stages before it compute from
the file alone (`ParserFollows`, with `ParsedInMemory` at the end); the snapshot,
what the normalizer has loaded, and the events are made of an artifact that was
stored (`StoreFollows`). The last is why the normalizer may read a snapshot that
another artifact of the trace has replaced: it is still the document of some
stored artifact, and the events say which. `AnalysisInvariant` needs no fact about
the computation, which is only named in it. The properties then are about the
computation of one artifact:

- Selections and loops are recursive functions. That such a function has values
  of its type is `IterationExists`; a fact about every place is shown by looking
  at the smallest place where it fails (`UpTo`, from the well-foundedness of the
  naturals), so that no theorem with an operator for its parameter is needed.
  `KeptPicks` says that a selection holds the selected elements in order,
  `DistinctElements` and `FlattenElements` what their functions return.
- `ExtractedValuesFollow`: after each assignment of each row, an extracted value is
  the one that leads there (`Follows`): all that was told since says the same, what
  was told right before said something else, and the name is warned of exactly when
  two assignments so far disagree (`AgreeingStays`, `ContradictionLeads`). This goes
  from the first assignment to the last (`ToldNext`, `RowEnds`) and rests on
  `SameValue` being an equivalence, whatever number a text stands for
  (`NumberOf`). `GapsAreReal` adds that a target without a value
  had no candidate in the rows.
- `LinesAreTold` and `TargetsAreTold`: a list of messages is empty exactly if what
  it warns of does not occur, and has a message for each occurrence; so a time
  that was refused or moved, and a target that failed, are found in the document.
- `EventTells` and `ArtifactTells`: the first rule that matches a row's words
  decides its event, and no rule of the tables says success for a row that
  denies it, except the one named in section 3. `VocabulariesAgree` goes
  through both vocabularies: whatever the evidence calls a problem, some signal
  rule finds in the same row.
- `RebuiltIs`, `TargetComesBack`, `EntriesTwice`: a value is written twice as the
  same text, a time comes back if the type of its target is datetime (`HoldsStamp`
  says that such a target holds nothing else), so the normalizer makes the same
  events of the document as of the original. What it prints of a datetime is, with a
  T for the blank, what it prints of its text (`TextsComeBack`, `EventInIso`).

Only model-checked:

- Liveness (`EventuallySettled`, `StopTerminates`, `AcceptedIsTaken`,
  `EventuallyHandled`, `ShutdownCompletes`, `EventuallyEmbedded`, `SearchIsServed`,
  `EveryRequestEnds`): fairness and ENABLED are out of the prover's reach.

Induction theorems with an operator for their parameter, and RECURSIVE operators,
are out of its reach too. No property depends on them: sums, sorting and paging
are counted, minima and facts about recursive functions go by well-foundedness.

TLAPS cannot cite a theorem of an instance, which is why `Platform` EXTENDS its
components, whose specifications, initial states and type invariants have names
of their own (`OutboxSpec`, `RuntimeSpec`, `AppSpec`).

## 5. What is left out

- A crash of the process in `Platform`. In `Outbox` it is a `Rollback`, in
  `Pipeline` a `Restart`, in `Requests` a `Crash`; the composition would lose its
  queue. Planned.
- In `Pipeline`, several processes on one database: one process dispatches all
  events, so handlers do not overlap. The synchronous route does, but only
  replaces one row; what that collision does to the row is in `Requests`.
- The contents of events, payload validation and serialisation; the columns
  `published_at`, `last_attempt_at` and `last_error`, which are only reported.
- Of a mapping: the source `event_type`, and raw fields other than CallId (both are
  columns like those that are modelled).
- In `Indexing`, a search repository that fails or returns foreign records (the port
  has no implementation), and a provider that returns too few vectors or changes its
  model without a restart: `AddRecords` has those checks as guards, which always
  hold. In `Requests`, two traces created at the same microsecond, for which the
  query of a listing has no order.
- Of a trace: confidence, wording of messages, columns nobody decides by, quoted
  fields of several lines, keywords that span columns.
- In `Requests`: sizes and content types, and a file that is rewritten while it is
  read (files are replaced as a whole). Updates of a trace: no use case calls the
  entity's transitions or the repository's update().
- Dispatching one event to several handlers is one step with the number of
  follow-ups as its result: the bootstrap registers one handler per event type.
- Not modelled: the standalone outbox process (the same worker with a publisher
  that stores events in a list nobody reads), the Kafka transport (names only, no
  producer or consumer), the YAML file of the mapping (an input of `Analysis`),
  startup checks, logging, metrics and middleware, which keep no state that a
  property is about.

## 6. Plan

1. Outbox, event runtime, lifecycle, requests, pipeline, chunker, indexing: done,
   with proofs. `Platform`: done for one process, with proofs.
2. `TraceReading`, `Classification`, `TraceMapping`, `Analysis`: done, with proofs.
3. Next: the crash of the process in `Platform`; several processes whose handlers
   overlap in `Pipeline`; the abstract specification that a trace's embeddings are
   those of its operational events.
