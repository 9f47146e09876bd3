------------------------------ MODULE Indexing ------------------------------
(***************************************************************************)
(* From the operational events of a trace to search results: ChunkTrace    *)
(* and ChunkWorker (around TraceChunker), EmbedTraceChunks and             *)
(* EmbeddingWorker, the embedding provider with its lock and its thread,   *)
(* and SearchRelevantTraceChunks.  The worker's handlers are transactions; *)
(* searches run beside them and share the provider.                        *)
(***************************************************************************)
EXTENDS TraceChunker

CONSTANTS
    Command,       \* tenant, trace and test case of the events the worker is sent
    BatchSize,     \* embedding_batch_size, in chunks
    Models,        \* model name and version of each deployment, in order
    Searches,      \* searches, each made once
    TopK,          \* top_k of the searches
    MaxRounds,     \* bound: how often the trace is normalized
    MaxEmbeds,     \* bound: deliveries of TRACE_CHUNKED
    MaxFailures,   \* bound: failures of the model
    MaxCancels     \* bound: cancelled calls

ASSUME IndexingAssumption ==
    /\ BatchSize \in Nat \ {0}
    /\ TopK \in Nat \ {0}
    /\ Models # <<>>

Worker == "worker"
ASSUME WorkerIsNoSearch == Worker \notin Searches

Callers == Searches \cup {Worker}

VARIABLES
    rounds,        \* normalizations so far
    rows,          \* trace_chunks of the trace, as list_by_trace returns them
    records,       \* embedding_records
    nextId,        \* ids given to chunks so far (uuid4)
    step,          \* of the worker: "chunk", "idle", "embed", "call", "save", "raised"
    chunk_list,    \* chunks: what the embedding handler has read
    draft,         \* its records, not yet saved
    deployment,    \* which of Models the provider of this process has loaded
    call,          \* per caller: "none", "waiting", "encoding", "returned", "raised"
    lock,          \* the callers that hold (first) or wait for _encode_lock
    threads,       \* callers whose model.encode() is running in a thread
    vectors,       \* per caller: what its call of embed() returned
    matches,       \* per search: its answer
    embeds, failures, cancels

tables == <<rows, records, nextId>>
handler == <<step, chunk_list, draft>>
provider == <<deployment, call, lock, threads, vectors>>
bounds == <<embeds, failures, cancels>>
vars == <<chunkVars, rounds, tables, handler, provider, matches, bounds>>

Model == Models[deployment]

\* model.encode: the vector of a text depends on the text and the model.
Encode(model, text) == <<model, text>>

-----------------------------------------------------------------------------
(* ChunkTrace and ChunkWorker                                              *)

\* _validate_command_matches_events
CommandMatches == \A e \in ToSet(input) : e.owner = Command

\* ChunkTrace.execute: the command is compared before the chunker is called;
\* a command of another test case is refused.
ChunkStep ==
    /\ step = "chunk"
    /\ pc = "called" => CommandMatches
    /\ ChunkNext
    /\ step' = IF pc' = "refused" THEN "raised" ELSE step
    /\ UNCHANGED <<rounds, tables, chunk_list, draft, provider, matches, bounds>>

RefuseCommand ==
    /\ step = "chunk"
    /\ pc = "called"
    /\ ~CommandMatches
    /\ step' = "raised"
    /\ UNCHANGED <<chunkVars, rounds, tables, chunk_list, draft, provider, matches, bounds>>

\* delete_by_trace, save_many and the commit: the old chunks and, by ON DELETE
\* CASCADE, their embeddings make room for the new ones, which have new ids.
\* A trace without chunks (no events) leaves none.
StoreChunks ==
    /\ step = "chunk"
    /\ pc = "returned"
    /\ rows' = [i \in DOMAIN chunks |-> [id |-> nextId + i, chunk |-> chunks[i]]]
    /\ nextId' = nextId + Len(chunks)
    /\ records' = {r \in records : \A row \in ToSet(rows) : row.id # r.chunk_id}
    /\ step' = "idle"
    /\ UNCHANGED <<chunkVars, rounds, chunk_list, draft, provider, matches, bounds>>

\* Another TRACE_NORMALIZED event: the trace was normalized again, which adds its
\* operational events once more, under ids that sort before or after the old ones.
NormalizeAgain ==
    /\ step = "idle"
    /\ rounds < MaxRounds
    /\ rounds' = rounds + 1
    /\ \E shift \in {-Len(input), Len(input)} :
          input' = input \o [i \in DOMAIN input |-> [input[i] EXCEPT !.id = @ + shift]]
    /\ pc' = "called"
    /\ ordered' = <<>> /\ seen' = 0 /\ current' = <<>> /\ chunks' = <<>>
    /\ step' = "chunk"
    /\ UNCHANGED <<tables, chunk_list, draft, provider, matches, bounds>>

-----------------------------------------------------------------------------
(* SentenceTransformerEmbeddingProvider.embed                              *)

\* The call reaches `async with self._encode_lock`.
Call(c) ==
    /\ call' = [call EXCEPT ![c] = "waiting"]
    /\ lock' = Append(lock, c)
    /\ UNCHANGED <<deployment, threads, vectors>>

\* Variant: without the lock.
StartEncoding_NoLock(c) ==
    /\ call[c] = "waiting"
    /\ call' = [call EXCEPT ![c] = "encoding"]
    /\ threads' = threads \cup {c}
    /\ UNCHANGED <<chunkVars, rounds, tables, handler, deployment, lock, vectors, matches, bounds>>

\* asyncio.Lock wakes its waiters in order; the holder starts encode() in a thread.
StartEncoding(c) ==
    /\ call[c] = "waiting"
    /\ Head(lock) = c
    /\ call' = [call EXCEPT ![c] = "encoding"]
    /\ threads' = threads \cup {c}
    /\ UNCHANGED <<chunkVars, rounds, tables, handler, deployment, lock, vectors, matches, bounds>>

\* encode() returns and the vectors pass _normalize_vectors: one for each text, in
\* the order of the texts.
EncodingEnds(c, texts) ==
    /\ call[c] = "encoding"
    /\ vectors' = [vectors EXCEPT ![c] = [i \in DOMAIN texts |-> Encode(Model, texts[i])]]
    /\ call' = [call EXCEPT ![c] = "returned"]
    /\ lock' = Tail(lock)
    /\ threads' = threads \ {c}
    /\ UNCHANGED deployment

\* Variant: the lock is not released when encode() raises.
EncodingFails_KeepsLock(c) ==
    /\ call[c] = "encoding"
    /\ failures < MaxFailures
    /\ failures' = failures + 1
    /\ call' = [call EXCEPT ![c] = "raised"]
    /\ threads' = threads \ {c}
    /\ UNCHANGED <<chunkVars, rounds, tables, handler, deployment, lock, vectors, matches, embeds,
                   cancels>>

\* encode() raises, or its vectors are refused: not finite, or a wrong number.
EncodingFails(c) ==
    /\ call[c] = "encoding"
    /\ failures < MaxFailures
    /\ failures' = failures + 1
    /\ call' = [call EXCEPT ![c] = "raised"]
    /\ lock' = Tail(lock)
    /\ threads' = threads \ {c}
    /\ UNCHANGED <<chunkVars, rounds, tables, handler, deployment, vectors, matches, embeds,
                   cancels>>

\* The awaiting task is cancelled: it leaves the lock, but the thread goes on.
Cancel(c) ==
    /\ call[c] \in {"waiting", "encoding"}
    /\ cancels < MaxCancels
    /\ cancels' = cancels + 1
    /\ call' = [call EXCEPT ![c] = "raised"]
    /\ \E i \in DOMAIN lock : lock[i] = c /\ lock' = RemoveAt(lock, i)
    /\ UNCHANGED <<chunkVars, rounds, tables, handler, deployment, threads, vectors, matches,
                   embeds, failures>>

\* A thread whose call was cancelled ends; nobody takes its vectors.
AbandonedEnds(c) ==
    /\ c \in threads
    /\ call[c] # "encoding"
    /\ threads' = threads \ {c}
    /\ UNCHANGED <<chunkVars, rounds, tables, handler, deployment, call, lock, vectors,
                   matches, bounds>>

-----------------------------------------------------------------------------
(* EmbedTraceChunks and EmbeddingWorker                                    *)

\* A TRACE_CHUNKED event: the chunks are read once, in their order.
BeginEmbedding ==
    /\ step = "idle"
    /\ embeds < MaxEmbeds
    /\ embeds' = embeds + 1
    /\ chunk_list' = rows
    /\ draft' = <<>>
    /\ step' = IF rows = <<>> THEN "raised" ELSE "embed"   \* TraceChunksNotFoundError
    /\ UNCHANGED <<chunkVars, rounds, tables, provider, matches, failures, cancels>>

Batch == SubSeq(chunk_list, Len(draft) + 1, Min({Len(draft) + BatchSize, Len(chunk_list)}))

EmbedBatch ==
    /\ step = "embed"
    /\ Worker \notin threads
    /\ Len(draft) < Len(chunk_list)
    /\ Call(Worker)
    /\ step' = "call"
    /\ UNCHANGED <<chunkVars, rounds, tables, chunk_list, draft, matches, bounds>>

WorkerEncodingEnds ==
    /\ EncodingEnds(Worker, [i \in DOMAIN Batch |-> Batch[i].chunk.text])
    /\ UNCHANGED <<chunkVars, rounds, tables, handler, matches, bounds>>

\* EmbeddingRecord.create; content_checksum is the SHA-256 hash of the text.
Record(row, vector) ==
    [chunk_id |-> row.id, model |-> vector[1], embedding |-> vector,
     content_checksum |-> row.chunk.text]

\* Variant: the vectors of every batch are joined with the first chunks.
AddRecords_FromStart ==
    /\ step = "call"
    /\ call[Worker] = "returned"
    /\ draft' = draft \o [i \in DOMAIN Batch |-> Record(chunk_list[i], vectors[Worker][i])]
    /\ call' = [call EXCEPT ![Worker] = "none"]
    /\ step' = "embed"
    /\ UNCHANGED <<chunkVars, rounds, tables, chunk_list, deployment, lock, threads, vectors,
                   matches, bounds>>

\* Variant: every batch is committed on its own.
AddRecords_SavesBatch ==
    /\ step = "call"
    /\ call[Worker] = "returned"
    /\ draft' = draft \o [i \in DOMAIN Batch |-> Record(Batch[i], vectors[Worker][i])]
    /\ records' = records \cup ToSet(draft')
    /\ call' = [call EXCEPT ![Worker] = "none"]
    /\ step' = "embed"
    /\ UNCHANGED <<chunkVars, rounds, rows, nextId, chunk_list, deployment, lock, threads,
                   vectors, matches, bounds>>

\* _validate_provider_batch, _validate_consistent_model, _build_records.  The two
\* checks never fail here: the provider gives a vector for each text, and the model
\* is exchanged only by a restart.  An encode() that raises is EncodingFails.
AddRecords ==
    /\ step = "call"
    /\ call[Worker] = "returned"
    /\ Len(vectors[Worker]) = Len(Batch)
    /\ \A i \in DOMAIN draft : draft[i].model = vectors[Worker][1][1]
    /\ draft' = draft \o [i \in DOMAIN Batch |-> Record(Batch[i], vectors[Worker][i])]
    /\ call' = [call EXCEPT ![Worker] = "none"]
    /\ step' = "embed"
    /\ UNCHANGED <<chunkVars, rounds, tables, chunk_list, deployment, lock, threads, vectors,
                   matches, bounds>>

\* uq_embedding_records_tenant_chunk_model_version
IsEmbedded(r) == \E s \in records : s.chunk_id = r.chunk_id /\ s.model = r.model

\* save_many and the commit: all records, or none when one exists already.
SaveRecords ==
    /\ step = "embed"
    /\ Len(draft) = Len(chunk_list)
    /\ IF \E r \in ToSet(draft) : IsEmbedded(r)
       THEN step' = "raised" /\ UNCHANGED records
       ELSE step' = "idle" /\ records' = records \cup ToSet(draft)
    /\ chunk_list' = <<>>
    /\ draft' = <<>>
    /\ UNCHANGED <<chunkVars, rounds, rows, nextId, provider, matches, bounds>>

\* The provider raised: so does the handler, and its transaction is rolled back.
EmbeddingRaises ==
    /\ step = "call"
    /\ call[Worker] = "raised"
    /\ step' = "raised"
    /\ chunk_list' = <<>>
    /\ draft' = <<>>
    /\ call' = [call EXCEPT ![Worker] = "none"]
    /\ UNCHANGED <<chunkVars, rounds, tables, deployment, lock, threads, vectors, matches, bounds>>

-----------------------------------------------------------------------------
(* SearchRelevantTraceChunks                                               *)

Question == <<"question">>

Ask(s) ==
    /\ call[s] = "none"
    /\ Call(s)
    /\ UNCHANGED <<chunkVars, rounds, tables, handler, matches, bounds>>

QuestionEncoded(s) ==
    /\ EncodingEnds(s, <<Question>>)
    /\ UNCHANGED <<chunkVars, rounds, tables, handler, matches, bounds>>

\* search_similar, as its port describes it: at most top_k records of the model.
\* (The records of the trace are all that the tenant has here.)
Similar(model) ==
    LET eligible == {r \in records : r.model = model}
    IN  {found \in SUBSET eligible : Cardinality(found) = Min({TopK, Cardinality(eligible)})}

\* Variant: the model's name and version are not passed on.
Answer_AnyModel(s) ==
    /\ call[s] = "returned"
    /\ \E m \in ToSet(Models) : \E found \in Similar(m) :
          matches' = [matches EXCEPT ![s] = {[query |-> vectors[s][1], record |-> r] : r \in found}]
    /\ call' = [call EXCEPT ![s] = "answered"]
    /\ UNCHANGED <<chunkVars, rounds, tables, handler, deployment, lock, threads, vectors, bounds>>

\* execute, after the question's vector is there: the repository is asked for
\* records of the model that made the vector.  A repository that raises, or that
\* returns what it was not asked for, is left out: the port has no implementation.
Answer(s) ==
    /\ call[s] = "returned"
    /\ Len(vectors[s]) = 1
    /\ \E found \in Similar(vectors[s][1][1]) :
          matches' = [matches EXCEPT ![s] = {[query |-> vectors[s][1], record |-> r] : r \in found}]
    /\ call' = [call EXCEPT ![s] = "answered"]
    /\ UNCHANGED <<chunkVars, rounds, tables, handler, deployment, lock, threads, vectors, bounds>>

-----------------------------------------------------------------------------
(* The process ends and starts again with another embedding model: calls,  *)
(* threads and transactions end with it, the tables stay.  A trace that is *)
(* being chunked is left to another delivery of its event.                 *)
Redeploy ==
    /\ step # "chunk"
    /\ deployment < Len(Models)
    /\ deployment' = deployment + 1
    /\ step' = "idle"
    /\ chunk_list' = <<>>
    /\ draft' = <<>>
    /\ call' = [c \in Callers |-> IF call[c] = "answered" THEN "answered" ELSE "none"]
    /\ lock' = <<>>
    /\ threads' = {}
    /\ vectors' = [c \in Callers |-> <<>>]
    /\ UNCHANGED <<chunkVars, rounds, tables, matches, bounds>>

Init ==
    /\ ChunkInit
    /\ rounds = 1
    /\ rows = <<>> /\ records = {} /\ nextId = 0
    /\ step = "chunk" /\ chunk_list = <<>> /\ draft = <<>>
    /\ deployment = 1
    /\ call = [c \in Callers |-> "none"]
    /\ lock = <<>> /\ threads = {}
    /\ vectors = [c \in Callers |-> <<>>]
    /\ matches = [s \in Searches |-> {}]
    /\ embeds = 0 /\ failures = 0 /\ cancels = 0

Chunking == ChunkStep \/ RefuseCommand \/ StoreChunks

Embedding == EmbedBatch \/ WorkerEncodingEnds \/ AddRecords \/ SaveRecords \/ EmbeddingRaises

Search(s) == QuestionEncoded(s) \/ Answer(s)

Next ==
    \/ Chunking
    \/ NormalizeAgain
    \/ BeginEmbedding
    \/ Embedding
    \/ \E s \in Searches : Ask(s) \/ Search(s)
    \/ \E c \in Callers : StartEncoding(c) \/ EncodingFails(c) \/ Cancel(c) \/ AbandonedEnds(c)
    \/ Redeploy

Spec == Init /\ [][Next]_vars

(* The handler and the searches go on, and every encode() ends.            *)
Fairness ==
    /\ WF_vars(Chunking)
    /\ WF_vars(Embedding)
    /\ \A s \in Searches : WF_vars(Search(s))
    /\ \A c \in Callers : WF_vars(StartEncoding(c)) /\ WF_vars(AbandonedEnds(c))

FairSpec == Spec /\ Fairness

-----------------------------------------------------------------------------
(* Properties.                                                             *)

(* Every embedding is the vector of the chunk it is filed under, by the    *)
(* model it names: cutting the chunks into batches and joining the         *)
(* provider's answers again mixes nothing up, and no embedding outlives    *)
(* its chunk when the trace is chunked anew.                               *)
EmbeddingsMatchChunks ==
    \A r \in records : \E row \in ToSet(rows) :
        /\ row.id = r.chunk_id
        /\ r.embedding = Encode(r.model, row.chunk.text)
        /\ r.content_checksum = row.chunk.text

(* The index is whole or absent: for each model, all chunks of the trace   *)
(* have an embedding or none has, whatever failed, was cancelled or was    *)
(* delivered again in between.                                             *)
IndexIsWhole ==
    \A m \in ToSet(Models) :
        LET embedded == {r.chunk_id : r \in {s \in records : s.model = m}}
        IN  embedded \in {{}, {row.id : row \in ToSet(rows)}}

(* A question's vector is only compared with vectors of the model that     *)
(* made it, also after the model was exchanged under an index.             *)
ComparesOneModel ==
    \A s \in Searches : \A m \in matches[s] :
        m.query[1] = m.record.model /\ m.record.embedding[1] = m.query[1]

(* What a search relies on: the vectors it meets are those of the stored   *)
(* chunks, of all of them, and of its own model.                           *)
IndexIsSound == EmbeddingsMatchChunks /\ IndexIsWhole /\ ComparesOneModel

(* "A provider-level lock serializes calls against the same model          *)
(* instance": of the running encode() calls at most one is awaited, and    *)
(* the lock is held or awaited by the callers that are in a call.  A       *)
(* cancelled call leaves its thread running outside the lock, so that a    *)
(* second one can run beside it.                                           *)
OneAwaitedEncoding ==
    /\ Cardinality({c \in threads : call[c] = "encoding"}) <= 1
    /\ Cardinality(threads) <= 1 + cancels
    /\ ToSet(lock) = {c \in Callers : call[c] \in {"waiting", "encoding"}}

(* A search is answered or fails although it shares the provider with a    *)
(* worker that comes back to the lock for every batch.                     *)
SearchIsServed ==
    \A s \in Searches : call[s] = "waiting" ~> call[s] \in {"none", "answered", "raised"}
=============================================================================
