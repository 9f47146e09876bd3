---------------------------- MODULE TraceChunker ----------------------------
(***************************************************************************)
(* TraceChunker.chunk: the operational events of one trace, cut into chunks*)
(* of complete events.  The state is the loop's: the events already seen,  *)
(* the chunk being filled and the chunks that are closed; one step takes   *)
(* one event.  The text of an event is abstracted to its length, the text  *)
(* of a chunk to the events whose lines it joins.                          *)
(***************************************************************************)
EXTENDS Integers, Sequences, SequencesExt

CONSTANTS
    Inputs,        \* sequences of events the chunker may be given
    ChunkSize,     \* chunk_size, in characters
    ChunkOverlap,  \* chunk_overlap, in characters
    NoValue        \* an attribute that is None or blank

\* What the sort key and the text are made of: numbers that are ordered like the
\* texts they stand for, and a text of at least one character (the id's).
IsEvent(e) ==
    /\ {"seq", "time", "id", "parts"} \subseteq DOMAIN e
    /\ e.seq \in Int /\ e.time \in Int /\ e.id \in Int
    /\ e.parts \in Seq(Nat)
    /\ \E i \in DOMAIN e.parts : e.parts[i] > 0

IsTrace(es) == es \in Seq(ToSet(es)) /\ \A e \in ToSet(es) : IsEvent(e)

\* __post_init__ and _validate_events_collection
ASSUME ChunkerAssumption ==
    /\ ChunkSize \in Nat \ {0}
    /\ ChunkOverlap \in Nat
    /\ ChunkOverlap < ChunkSize
    /\ \A es \in Inputs : IsTrace(es)

VARIABLES
    input,         \* operational_events, in the order they were given
    pc,            \* "called", "loop", "returned" or "refused" (ValueError)
    ordered,       \* ordered_events
    seen,          \* how many of them the loop has taken
    current,       \* current_events; current_lines are their texts
    chunks         \* the chunks built so far

chunkVars == <<input, pc, ordered, seen, current, chunks>>

-----------------------------------------------------------------------------
(* Events and their text                                                   *)

\* The sum of a sequence of numbers, counted by ones.
Total(f) == Cardinality(UNION {{i} \X (1 .. f[i]) : i \in DOMAIN f})

\* event_to_text: "name=value" of every attribute that has a text, joined by
\* " | "; parts are the lengths of the attributes' texts, 0 for an empty one.
LineSize(e) ==
    Total(e.parts) + 3 * (Cardinality({i \in DOMAIN e.parts : e.parts[i] > 0}) - 1)

\* len("\n".join(lines))
TextSize(es) ==
    IF es = <<>> THEN 0
    ELSE Total([i \in DOMAIN es |-> LineSize(es[i])]) + Len(es) - 1

\* _event_sort_key: sequence number, then the text of the timestamp (a missing
\* one is empty and comes first), then the text of the id.
Before(e, f) ==
    \/ e.seq < f.seq
    \/ e.seq = f.seq /\ e.time < f.time
    \/ e.seq = f.seq /\ e.time = f.time /\ e.id < f.id

Ids(es) == {e.id : e \in ToSet(es)}

\* sorted() by that key, which is another one for every event: an event's place is
\* told by how many come before it.
Sorted(es) ==
    [k \in DOMAIN es |->
        CHOOSE e \in ToSet(es) : Cardinality({f \in ToSet(es) : Before(f, e)}) = k - 1]

\* _validate_trace_consistency: one tenant, trace and test case, unique ids.
Consistent(es) ==
    /\ \A e \in ToSet(es) : e.owner = es[1].owner
    /\ \A i, j \in DOMAIN es : es[i].id = es[j].id => i = j

-----------------------------------------------------------------------------
(* Chunks                                                                  *)

FailureResults == {"failed", "failure", "error", "timeout"}

IsFailure(e) ==
    e.result \in FailureResults \/ e.severity \in {"error", "critical", "fatal"}

IsHighSeverity(e) == e.severity \in {"high", "critical", "fatal", "error"}

\* _collect_strings and _collect_tags: the distinct values that are not blank.
Collect(values) == values \ {NoValue}

\* TraceChunk.create: the ids lose their duplicates and are counted (their order
\* is the order of the lines), the collections become sets, the text (which its
\* SHA-256 hash stands for) is the joined lines.
Create(index, es, ids, names, severities, causes, tags, failure, high, retry) ==
    [index |-> index, text |-> es, event_ids |-> ids, event_count |-> Cardinality(ids),
     event_names |-> names, severities |-> severities, causes |-> causes,
     tags |-> tags, has_failure |-> failure, has_high_severity |-> high,
     has_retry_recommended |-> retry]

BuildChunk(index, es) ==
    LET all == ToSet(es)
    IN  Create(index, es, Ids(es),
               Collect({e.name : e \in all}), Collect({e.severity : e \in all}),
               Collect({e.cause : e \in all}), Collect(UNION {e.tags : e \in all}),
               \E e \in all : IsFailure(e), \E e \in all : IsHighSeverity(e),
               \E e \in all : e.retry)

\* Variant: the overlap is taken from the beginning of the chunk.
Overlap_FromStart(es) ==
    LET enough == {k \in DOMAIN es : TextSize(SubSeq(es, 1, k)) >= ChunkOverlap}
    IN  IF ChunkOverlap = 0 \/ enough = {} THEN <<>> ELSE SubSeq(es, 1, Min(enough))

\* _select_overlap_events: complete events from the end of the chunk, until
\* they are as long as the overlap; the whole chunk when it is shorter.
Overlap(es) ==
    LET enough == {k \in DOMAIN es :
                     TextSize(SubSeq(es, k, Len(es))) >= ChunkOverlap}
    IN  IF ChunkOverlap = 0 THEN <<>>
        ELSE IF enough = {} THEN es
        ELSE SubSeq(es, Max(enough), Len(es))

\* Variant: the new line is not counted.
Exceeds_WithoutLine(e) == current # <<>> /\ TextSize(current) > ChunkSize

\* exceeds_limit: an empty chunk takes any event, whatever its size.
Exceeds(e) ==
    /\ current # <<>>
    /\ TextSize(current) + 1 + LineSize(e) > ChunkSize

-----------------------------------------------------------------------------
ChunkInit ==
    /\ input \in Inputs
    /\ pc = "called"
    /\ ordered = <<>>
    /\ seen = 0
    /\ current = <<>>
    /\ chunks = <<>>

\* No events: no chunks.
ReturnNothing ==
    /\ pc = "called"
    /\ input = <<>>
    /\ pc' = "returned"
    /\ UNCHANGED <<input, ordered, seen, current, chunks>>

Refuse ==
    /\ pc = "called"
    /\ input # <<>>
    /\ ~Consistent(input)
    /\ pc' = "refused"
    /\ UNCHANGED <<input, ordered, seen, current, chunks>>

Order ==
    /\ pc = "called"
    /\ input # <<>>
    /\ Consistent(input)
    /\ ordered' = Sorted(input)
    /\ pc' = "loop"
    /\ UNCHANGED <<input, seen, current, chunks>>

\* An iteration of the loop whose event still fits.
Fill ==
    /\ pc = "loop"
    /\ seen < Len(ordered)
    /\ ~Exceeds(ordered[seen + 1])
    /\ current' = Append(current, ordered[seen + 1])
    /\ seen' = seen + 1
    /\ UNCHANGED <<input, pc, ordered, chunks>>

\* Variant: the event that did not fit is forgotten.
Close_DropsEvent ==
    /\ pc = "loop"
    /\ seen < Len(ordered)
    /\ Exceeds(ordered[seen + 1])
    /\ chunks' = Append(chunks, BuildChunk(Len(chunks), current))
    /\ current' = Overlap(current)
    /\ seen' = seen + 1
    /\ UNCHANGED <<input, pc, ordered>>

\* An iteration that closes the chunk: the next one starts with the overlap and
\* takes the event without a second look at the limit.
Close ==
    /\ pc = "loop"
    /\ seen < Len(ordered)
    /\ Exceeds(ordered[seen + 1])
    /\ chunks' = Append(chunks, BuildChunk(Len(chunks), current))
    /\ current' = Append(Overlap(current), ordered[seen + 1])
    /\ seen' = seen + 1
    /\ UNCHANGED <<input, pc, ordered>>

\* After the loop: the last chunk, which is never empty.
Return ==
    /\ pc = "loop"
    /\ seen = Len(ordered)
    /\ chunks' = Append(chunks, BuildChunk(Len(chunks), current))
    /\ pc' = "returned"
    /\ UNCHANGED <<input, ordered, seen, current>>

ChunkNext == ReturnNothing \/ Refuse \/ Order \/ Fill \/ Close \/ Return

ChunkSpec == ChunkInit /\ [][ChunkNext]_chunkVars

-----------------------------------------------------------------------------
(* Properties.                                                             *)

(* The state of the loop is well formed: the chunk being filled is never   *)
(* empty once an event was taken, and every chunk lists and counts the     *)
(* events of its text.                                                     *)
ChunkTypeOK ==
    /\ pc \in {"called", "loop", "returned", "refused"}
    /\ seen \in 0 .. Len(ordered)
    /\ ToSet(current) \subseteq ToSet(ordered)
    /\ pc = "loop" /\ seen > 0 => current # <<>>
    /\ \A i \in DOMAIN chunks :
          /\ chunks[i].index = i - 1
          /\ chunks[i].event_ids = Ids(chunks[i].text)
          /\ chunks[i].event_count = Len(chunks[i].text)

\* The lines of the i-th chunk whose events the chunk before it does not hold.
Fresh(i) ==
    {k \in DOMAIN chunks[i].text :
        i > 1 => chunks[i].text[k] \notin ToSet(chunks[i - 1].text)}

(* No event is lost or indexed twice by the cut: what each chunk adds to   *)
(* the one before it is, put together, every event of the trace exactly    *)
(* once and in the order of the sequence numbers.                          *)
EveryEventOnceInOrder ==
    pc = "returned" =>
        /\ UNION {{chunks[i].text[k] : k \in Fresh(i)} : i \in DOMAIN chunks} = ToSet(input)
        /\ \A i, j \in DOMAIN chunks : \A k \in Fresh(i), l \in Fresh(j) :
              i < j \/ (i = j /\ k < l) => Before(chunks[i].text[k], chunks[j].text[l])

(* A chunk is larger than chunk_size only by its last event: a single one  *)
(* that is new, after an overlap that was there already.  (The overlap and *)
(* an event of ordinary size can exceed the limit together.)               *)
OversizedHasOneNewEvent ==
    \A i \in DOMAIN chunks :
        TextSize(chunks[i].text) > ChunkSize => Fresh(i) = {Len(chunks[i].text)}

(* Neighbours overlap by complete events: a chunk begins with the end of   *)
(* the chunk before it, at least chunk_overlap characters of it (or all of *)
(* it), and not one event more than that takes.                            *)
NeighboursOverlap ==
    \A i \in 2 .. Len(chunks) :
        LET before == chunks[i - 1].text
            shared == Len(chunks[i].text) - Cardinality(Fresh(i))
            tail(n) == SubSeq(before, Len(before) - n + 1, Len(before))
        IN  /\ SubSeq(chunks[i].text, 1, shared) = tail(shared)
            /\ TextSize(tail(shared)) >= ChunkOverlap \/ shared = Len(before)
            /\ shared > 0 => TextSize(tail(shared - 1)) < ChunkOverlap

(* What a caller of chunk() relies on: all of the above, at every step.    *)
ChunksAreSound ==
    ChunkTypeOK /\ EveryEventOnceInOrder /\ OversizedHasOneNewEvent /\ NeighboursOverlap
=============================================================================
