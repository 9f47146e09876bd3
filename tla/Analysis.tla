------------------------------ MODULE Analysis ------------------------------
(***************************************************************************)
(* The artifacts of one trace on their way to its operational events.  The *)
(* parser worker (ProcessTrace, ParseTrace) handles one artifact after the *)
(* other and stores what it found as the snapshot of the trace; the        *)
(* normalizer worker (NormalizeTrace) answers each of its events with the  *)
(* snapshot that is stored by then.                                        *)
(***************************************************************************)
EXTENDS TraceMapping, FiniteSets

CONSTANTS
    Inputs         \* what may be given: files, zones and mapping definitions

VARIABLES
    input,         \* the files of the trace, the zones and the configuration
    at,            \* the artifact that the parser worker is at
    stage,         \* what the parser worker did with it last
    trace,         \* its RawTrace
    times,         \* the warnings and errors of the time normalization
    found,         \* its evidences, signals and extracted values
    mapped,        \* its MappedTraceValues
    snapshot,      \* the row of the trace in parsed_traces, or NoValue
    notices,       \* TRACE_PARSED events that nobody has handled
    loaded,        \* the ParsedTrace that the normalizer worker rebuilt
    normalized,    \* what its use case returned
    events,        \* operational_events: the batches, as they were saved
    outcome        \* of each artifact: "waiting", "stored" or "failed"

parserVars == <<at, stage, trace, times, found, mapped, outcome>>
normalizerVars == <<loaded, normalized, events>>
vars == <<input, parserVars, snapshot, notices, normalizerVars>>

(* What the files, the zones and the configuration may hold.               *)

\* The forms that a datetime has as text.
TimeForms == {"date", "stamp", "printed"}

\* A Python value; what has the form of a datetime is one.
IsValue(value) ==
    /\ value = Value(value.type, value.form, value.v)
    /\ value.type = "datetime" => value.form = "stamp"
    /\ value.form \in TimeForms => value.v \in Times

IsLine(line) ==
    /\ line.stamp.at \in Int
    /\ line.sets \in Seq(ToSet(line.sets))
    /\ \A a \in ToSet(line.sets) : a.form \in TimeForms => a.v \in Times

IsFile(file) ==
    /\ file.lines \in Seq(ToSet(file.lines))
    /\ \A line \in ToSet(file.lines) : IsLine(line)

IsDefinition(d) ==
    /\ d.operation \in {"copy", "regex", "lookup", "constant"}
    /\ d.source \in {"extracted_value", "information", "event", "raw_field", "trace_text",
                     "none"}
    /\ d.type \in DOMAIN PythonType
    /\ d.pattern \in Seq(ToSet(d.pattern))
    /\ d.default = NoValue \/ IsValue(d.default)
    /\ d.constant = NoValue \/ IsValue(d.constant)
    /\ \A key \in DOMAIN d.table : IsValue(d.table[key])

IsInput(given) ==
    /\ given.files \in Seq(ToSet(given.files))
    /\ \A file \in ToSet(given.files) : IsFile(file)
    /\ given.zones.source \in Int /\ given.zones.target \in Int
    /\ given.defs \in Seq(ToSet(given.defs))
    /\ \A d \in ToSet(given.defs) : IsDefinition(d)
    /\ ConfigurationOK(given.defs)

\* None is told from everything that can be there in its place.
ASSUME MarkersAreNoData ==
    /\ Naive \notin Int
    /\ NoTime \notin Times
    /\ NoText \notin [iso : Times]
    /\ {NoText, NoValue} \cap [type : {"str", "datetime"}, form : TimeForms, v : Times] = {}

ASSUME InputsAssumption == \A given \in Inputs : IsInput(given)

-----------------------------------------------------------------------------
Artifacts == DOMAIN input.files
File == input.files[at]

NoTrace == [rows |-> <<>>, parser_warnings |-> <<>>]
NoMessages == [warnings |-> <<>>, errors |-> <<>>]
NothingFound == [evidences |-> <<>>, signals |-> <<>>, extracted |-> NoValues]
NoMapping == [values |-> <<>>, warnings |-> <<>>, errors |-> <<>>]

-----------------------------------------------------------------------------
(* ParsedTrace and its snapshot                                            *)

\* _deduplicate_messages
Distinct(messages) ==
    LET distinct[n \in 0 .. Len(messages)] ==
            IF n = 0 THEN <<>>
            ELSE LET seen == distinct[n - 1]
                 IN  IF messages[n] \in ToSet(seen) THEN seen ELSE Append(seen, messages[n])
    IN  distinct[Len(messages)]

\* ParsedTrace.create: the messages of the parts are collected.
ParsedTrace(artifact, t, messages, parts, m) ==
    [artifact |-> artifact, raw_trace |-> t, evidences |-> parts.evidences,
     signals |-> parts.signals, extracted |-> parts.extracted, mapped |-> m,
     warnings |-> Distinct(messages.warnings \o t.parser_warnings
                             \o parts.extracted.warnings \o m.warnings),
     errors |-> Distinct(messages.errors \o m.errors)]

IsValid(parsed) == parsed.errors = <<>>

IsComplete(parsed) ==
    /\ IsValid(parsed)
    /\ \A m \in ToSet(parsed.mapped.values) : IsSuccessful(m)

\* datetime.isoformat, and its inverse in the mapper.
JsonTime(time) == IF time = NoTime THEN NoText ELSE [iso |-> time]
ParseJsonTime(text) == IF text = NoText THEN NoTime ELSE text.iso

\* A value in a JSON document: a datetime becomes text.
JsonValue(value) ==
    IF value # NoValue /\ value.type = "datetime" THEN [value EXCEPT !.type = "str"]
    ELSE value

Each(items, Change(_)) == [i \in DOMAIN items |-> Change(items[i])]

Timed(items, Change(_)) ==
    [i \in DOMAIN items |-> [items[i] EXCEPT !.time = Change(@)]]

JsonEntries(values) ==
    [n \in DOMAIN values |-> [values[n] EXCEPT !.value = JsonValue(@)]]

MappedToDict(m) == [m EXCEPT !.value = JsonValue(@), !.source_value = JsonValue(@)]

\* ParsedTrace.to_dict
ToDict(parsed) ==
    [parsed EXCEPT
        !.raw_trace.rows = Timed(@, JsonTime),
        !.evidences = Timed(@, JsonTime),
        !.signals = Timed(@, JsonTime),
        !.extracted.values = JsonEntries(@),
        !.mapped.values = Each(@, MappedToDict)]

\* Variant: the datetimes of the targets stay text.
MappedFromDict_AsText(m) == m

\* _mapped_value: the text of a datetime target is parsed again.
MappedFromDict(m) ==
    IF m.value # NoValue /\ m.value_type = "datetime"
    THEN [m EXCEPT !.value.type = "datetime"] ELSE m

\* ParsedTraceMapper.from_dict; extracted values and the sources of the targets
\* stay as they are in the document.
FromDict(data) ==
    [data EXCEPT
        !.raw_trace.rows = Timed(@, ParseJsonTime),
        !.evidences = Timed(@, ParseJsonTime),
        !.signals = Timed(@, ParseJsonTime),
        !.mapped.values = Each(@, MappedFromDict)]

\* The row of parsed_traces: the document and its summary.
Snapshot(parsed) ==
    [document |-> ToDict(parsed), is_valid |-> IsValid(parsed),
     is_complete |-> IsComplete(parsed), row_count |-> Len(parsed.raw_trace.rows),
     evidence_count |-> Len(parsed.evidences)]

\* The database takes no document with a number that is none.
Storable(parsed) ==
    \A m \in ToSet(parsed.mapped.values) :
        m.value # NoValue => ~(m.value.type = "float" /\ m.value.form = "nan")

-----------------------------------------------------------------------------
(* The events of a parsed trace                                            *)

\* operator and country: the mapped value, else the extracted one, as text.
TraceValue(parsed, name) ==
    LET values == parsed.extracted.values
        value == MappedOr(parsed.mapped, name,
                          IF name \in DOMAIN values THEN values[name].value ELSE NoValue)
    IN  IF value = NoValue THEN NoText ELSE Convert(value, "string")

\* TraceNormalizer.normalize
Events(parsed) ==
    [i \in DOMAIN parsed.evidences |->
        Event(parsed.artifact, i, parsed.evidences[i],
              TraceValue(parsed, "operator"), TraceValue(parsed, "country"),
              JsonEntries(parsed.extracted.values))]

\* NormalizeTraceResult
NormalizeTrace(parsed) ==
    LET made == Events(parsed)
    IN  [artifact |-> parsed.artifact, events |-> made,
         failures |-> Cardinality({i \in DOMAIN made : EventIsFailure(made[i])}),
         high |-> Cardinality({i \in DOMAIN made : EventIsHighSeverity(made[i])}),
         retries |-> Cardinality({i \in DOMAIN made : made[i].retry})]

-----------------------------------------------------------------------------
Init ==
    /\ input \in Inputs
    /\ at = 1
    /\ stage = "received"
    /\ trace = NoTrace
    /\ times = NoMessages
    /\ found = NothingFound
    /\ mapped = NoMapping
    /\ snapshot = NoValue
    /\ notices = <<>>
    /\ loaded = NoValue
    /\ normalized = NoValue
    /\ events = <<>>
    /\ outcome = [a \in DOMAIN input.files |-> "waiting"]

(* The parser worker                                                       *)

\* The next artifact, which starts from nothing.
NextArtifact(result) ==
    /\ outcome' = [outcome EXCEPT ![at] = result]
    /\ at' = at + 1
    /\ stage' = "received"
    /\ trace' = NoTrace
    /\ times' = NoMessages
    /\ found' = NothingFound
    /\ mapped' = NoMapping

\* An exception in any step: the transaction is rolled back.
Fails ==
    /\ at \in Artifacts
    /\ \/ stage = "received" /\ ~Accepted(File)
       \/ stage = "loaded" /\ ~WellFormed(File)
       \/ stage = "parsed" /\ \E r \in ToSet(trace.rows) : Overflows(r.time, input.zones)
       \/ stage = "mapped" /\ MappingOverflows(mapped, input.zones)
       \/ stage = "assembled" /\ ~Storable(ParsedTrace(at, trace, times, found, mapped))
    /\ NextArtifact("failed")
    /\ UNCHANGED <<input, snapshot, notices, normalizerVars>>

\* TraceLoader.load
Load ==
    /\ at \in Artifacts
    /\ stage = "received"
    /\ Accepted(File)
    /\ stage' = "loaded"
    /\ UNCHANGED <<input, at, trace, times, found, mapped, outcome, snapshot, notices,
                   normalizerVars>>

\* TraceParser.parse
Parse ==
    /\ at \in Artifacts
    /\ stage = "loaded"
    /\ WellFormed(File)
    /\ trace' = RawTrace(File)
    /\ stage' = "parsed"
    /\ UNCHANGED <<input, at, times, found, mapped, outcome, snapshot, notices,
                   normalizerVars>>

\* TimeNormalizer.normalize_trace
NormalizeTimes ==
    /\ stage = "parsed"
    /\ ~ \E r \in ToSet(trace.rows) : Overflows(r.time, input.zones)
    /\ LET result == NormalizedTrace(trace, input.zones)
       IN  /\ trace' = result.trace
           /\ times' = [warnings |-> result.warnings, errors |-> result.errors]
    /\ stage' = "timed"
    /\ UNCHANGED <<input, at, found, mapped, outcome, snapshot, notices, normalizerVars>>

\* The three extractors, each on the rows alone.
Extract ==
    /\ stage = "timed"
    /\ found' = [evidences |-> Evidences(trace.rows), signals |-> Signals(trace.rows),
                 extracted |-> ExtractValues(trace.rows)]
    /\ stage' = "extracted"
    /\ UNCHANGED <<input, at, trace, times, mapped, outcome, snapshot, notices,
                   normalizerVars>>

\* MappingEngine.map, which turns every error into a result.
Map ==
    /\ stage = "extracted"
    /\ mapped' = MapValues(input.defs, trace.rows, found.extracted)
    /\ stage' = "mapped"
    /\ UNCHANGED <<input, at, trace, times, found, outcome, snapshot, notices,
                   normalizerVars>>

\* TimeNormalizer.normalize_mapped_values
NormalizeMapped ==
    /\ stage = "mapped"
    /\ ~MappingOverflows(mapped, input.zones)
    /\ mapped' = NormalizedMapping(mapped, input.zones)
    /\ stage' = "assembled"
    /\ UNCHANGED <<input, at, trace, times, found, outcome, snapshot, notices,
                   normalizerVars>>

\* ParsedTraceStore.save, the TRACE_PARSED event and the commit: the snapshot of
\* the trace is inserted or replaced.
Save ==
    /\ stage = "assembled"
    /\ LET parsed == ParsedTrace(at, trace, times, found, mapped)
       IN  /\ Storable(parsed)
           /\ snapshot' = Snapshot(parsed)
    /\ notices' = Append(notices, at)
    /\ NextArtifact("stored")
    /\ UNCHANGED <<input, normalizerVars>>

(* The normalizer worker                                                   *)

\* ParsedTraceStore.get_domain, for the oldest event.
Reload ==
    /\ notices # <<>>
    /\ loaded = NoValue
    /\ loaded' = FromDict(snapshot.document)
    /\ UNCHANGED <<input, parserVars, snapshot, notices, normalized, events>>

Normalize ==
    /\ loaded # NoValue
    /\ normalized = NoValue
    /\ normalized' = NormalizeTrace(loaded)
    /\ UNCHANGED <<input, parserVars, snapshot, notices, loaded, events>>

\* OperationalEventStore.save_many, the outgoing event and the commit.
SaveEvents ==
    /\ normalized # NoValue
    /\ events' = Append(events, normalized)
    /\ notices' = Tail(notices)
    /\ loaded' = NoValue
    /\ normalized' = NoValue
    /\ UNCHANGED <<input, parserVars, snapshot>>

Done ==
    /\ at \notin Artifacts
    /\ notices = <<>>
    /\ UNCHANGED vars

ParserNext ==
    Load \/ Parse \/ NormalizeTimes \/ Extract \/ Map \/ NormalizeMapped \/ Save \/ Fails

NormalizerNext == Reload \/ Normalize \/ SaveEvents

Next == ParserNext \/ NormalizerNext \/ Done

Spec == Init /\ [][Next]_vars

-----------------------------------------------------------------------------
(* Properties.  A stored document is looked at as it is; what it says is   *)
(* compared with the file it was made of.                                  *)

Document == snapshot.document

\* The line of the file that a row number stands for.
LineOf(document, number) == DataLines(input.files[document.artifact])[number - 1]

(* Every event is the meaning of one row: the events of a batch are        *)
(* numbered 1, 2, ... in the order of the rows of the file they were made  *)
(* of; every row whose information holds a keyword has its event and no    *)
(* other row has one; and an event is generic (a failure or a rejection)   *)
(* only when the row holds no keyword of a specific rule.  A row that says *)
(* "not registered" is never counted as a success, whatever else it says,  *)
(* nor is one that says "detached" as an attachment (a registration that   *)
(* comes with a detachment is a success of the registration).              *)
EventsTellTheRows ==
    \A b \in ToSet(events) :
        LET lines == DataLines(input.files[b.artifact])
            Telling(rules) == UNION {r.any : r \in ToSet(rules)}
            generic == {"failure_signal", "reject_signal"}
            Denying(name) == {"nasnotregistered", "nas not registered"}
                \cup (IF name = "nas_registered" THEN {} ELSE Detached)
        IN  /\ \A i \in DOMAIN b.events :
                  LET e == b.events[i]
                      words == Words(lines[e.line - 1].info)
                  IN  /\ e.seq = i
                      /\ i > 1 => b.events[i - 1].line < e.line
                      /\ e.name \in generic => words \cap Telling(SpecificRules) = {}
                      /\ e.result = "success" => words \cap Denying(e.name) = {}
            /\ {ev.line : ev \in ToSet(b.events)} =
                  {n \in 2 .. Len(lines) + 1 :
                      Words(lines[n - 1].info)
                         \cap Telling(SpecificRules \o GenericRules) # {}}

(* The two vocabularies agree: where a row is classified as a failure, a   *)
(* rejection, a timeout or a retry, the signals of the same row hold a     *)
(* problem as well.  Evidence of mobility management is not among these:   *)
(* the signals have no rule for a PLMN that is not allowed.                *)
ProblemsAreSignalled ==
    snapshot # NoValue =>
        \A e \in ToSet(Document.evidences) :
            e.type \in {"failure", "rejection", "timing", "retry"} =>
                \E s \in ToSet(Document.signals) : s.line = e.line /\ IsProblemSignal(s)

(* No time is lost or guessed silently: a row of a stored trace has its    *)
(* time in the target zone, and a warning when the zone was guessed; if it *)
(* has no time, its column was missing or null, or a warning names the row;*)
(* if its time was refused, an error does, and the trace is not valid.     *)
NoTimeLostSilently ==
    snapshot # NoValue =>
        \A row \in ToSet(Document.raw_trace.rows) :
            LET time == ParseJsonTime(row.time)
                stamp == LineOf(Document, row.line).stamp
                Told(messages) == \E m \in ToSet(messages) : m.line = row.line
            IN  IF stamp.form # "time"
                THEN /\ time = NoTime
                     /\ stamp.form \in {"missing", "<null>"} \/ Told(Document.warnings)
                ELSE \/ /\ time.offset = Naive
                        /\ Told(Document.errors)
                        /\ ~snapshot.is_valid
                     \/ /\ time.offset = input.zones.target
                        /\ Instant(time) \in {stamp.at, stamp.at - input.zones.source}
                        /\ Told(Document.warnings)

(* The summary tells what the targets hold: a stored trace is valid exactly*)
(* when none of its targets failed and no time was refused, and every      *)
(* failed target is named by an error.                                     *)
ValidMeansNoError ==
    snapshot # NoValue =>
        LET failed == {m.target : m \in {n \in ToSet(Document.mapped.values) : IsError(n)}}
            refused == {r \in ToSet(Document.raw_trace.rows) :
                          r.time # NoText /\ ParseJsonTime(r.time).offset = Naive}
        IN  /\ snapshot.is_valid <=> failed = {} /\ refused = {}
            /\ \A t \in failed : \E e \in ToSet(Document.errors) : e.target = t

(* Whatever the analysis could not use, it says: of times and of targets.  *)
NothingIsSilent == NoTimeLostSilently /\ ValidMeansNoError

\* Where the lines of a file assign a name (which line, and which of its
\* assignments), in which order, and what is said there.
Places(lines, name) ==
    UNION {{<<n, i>> : i \in {j \in DOMAIN lines[n].sets : lines[n].sets[j].name = name}} :
              n \in DOMAIN lines}

Precedes(p, q) == p[1] < q[1] \/ (p[1] = q[1] /\ p[2] < q[2])

SaidAt(lines, p) ==
    Coerce(lines[p[1]].sets[p[2]].form, lines[p[1]].sets[p[2]].v)

(* A value is the last one the trace gives, from where it was said first:  *)
(* no later assignment says something else, and the one right before did.  *)
LastValueWins ==
    snapshot # NoValue =>
        LET lines == DataLines(input.files[Document.artifact])
            values == Document.extracted.values
        IN  /\ DOMAIN values = {a.name : a \in UNION {ToSet(l.sets) : l \in ToSet(lines)}}
            /\ \A name \in DOMAIN values : \E home \in Places(lines, name) :
                  /\ values[name].line = home[1] + 1
                  /\ values[name].value = JsonValue(SaidAt(lines, home))
                  /\ \A p \in Places(lines, name) :
                        IF Precedes(p, home)
                        THEN \E q \in Places(lines, name) :
                                /\ ~Precedes(q, p) /\ Precedes(q, home)
                                /\ ~SameValue(SaidAt(lines, q), SaidAt(lines, home))
                        ELSE SameValue(SaidAt(lines, p), SaidAt(lines, home))

(* No value is dropped in silence: a name is reported exactly when two of  *)
(* its assignments say something different.                                *)
DroppedValuesAreTold ==
    snapshot # NoValue =>
        LET lines == DataLines(input.files[Document.artifact])
        IN  \A name \in DOMAIN Document.extracted.values :
                OfTarget("duplicate", name) \in ToSet(Document.warnings) <=>
                    \E p, q \in Places(lines, name) :
                        ~SameValue(SaidAt(lines, p), SaidAt(lines, q))

(* A default or a gap hides nothing: a target has its default, or no value,*)
(* only when the trace holds nothing for it; a value that is there but     *)
(* cannot be used is an error.  And every target has exactly one result.   *)
GapsHideNothing ==
    snapshot # NoValue =>
        /\ [i \in DOMAIN Document.mapped.values |-> Document.mapped.values[i].target]
              = [i \in DOMAIN input.defs |-> input.defs[i].target]
        /\ \A i \in DOMAIN input.defs :
              LET d == input.defs[i]
                  m == Document.mapped.values[i]
                  lines == DataLines(input.files[Document.artifact])
              IN  m.status \in {"defaulted", "missing"} =>
                    /\ d.operation # "constant"
                    /\ d.operation = "copy" =>
                         CASE d.source = "extracted_value" ->
                                 \A l \in ToSet(lines) : \A a \in ToSet(l.sets) :
                                     a.name # d.name
                           [] d.source = "event" -> \A l \in ToSet(lines) : l.event = NoText
                           [] d.source = "raw_field" -> \A l \in ToSet(lines) : l.call = NoText
                           [] OTHER -> TRUE

(* The stored values are the trace's own: extracted ones and targets.      *)
ValuesTellTheTrace == LastValueWins /\ DroppedValuesAreTold /\ GapsHideNothing

\* What the parser makes of an artifact, without a database in between.
ParsedInMemory(a) ==
    LET raw == NormalizedTrace(RawTrace(input.files[a]), input.zones)
        rows == raw.trace.rows
        parts == [evidences |-> Evidences(rows), signals |-> Signals(rows),
                  extracted |-> ExtractValues(rows)]
    IN  ParsedTrace(a, raw.trace, [warnings |-> raw.warnings, errors |-> raw.errors],
                    parts, NormalizedMapping(MapValues(input.defs, rows, parts.extracted),
                                             input.zones))

\* A text with T where it has the blank of a printed datetime.
IsoText(text) ==
    IF text = NoText THEN NoText
    ELSE [text EXCEPT !.form = IF @ = "printed" THEN "stamp" ELSE @]

(* The database is not noticed: the trace that the normalizer rebuilds from*)
(* the snapshot has the targets, the rows and the verdict of the trace that*)
(* the parser had in memory, and yields the same events.  They are those of*)
(* one artifact, even when another one replaces the snapshot meanwhile.    *)
(* Only a datetime that is not the value of a datetime target (a source, or*)
(* the default of a target of another type) comes back as text, in ISO's   *)
(* form: as operator or country of an event it is printed with a T, where  *)
(* the datetime itself is printed with a blank.                            *)
(* The trace in memory is bound, so that it is computed once for a state.  *)
ReloadIsInvisible ==
    loaded # NoValue =>
        LET asText(m) == [m EXCEPT !.source_value = JsonValue(@),
                                   !.value = IF m.value_type = "datetime" THEN @
                                             ELSE JsonValue(@)]
            targets(p) == Each(p.mapped.values, asText)
            inIso(e) == [e EXCEPT !.operator = IsoText(@), !.country = IsoText(@)]
            told(result) == [result EXCEPT !.events = Each(@, inIso)]
        IN  \A before \in {ParsedInMemory(loaded.artifact)} :
            /\ outcome[loaded.artifact] = "stored"
            /\ loaded.raw_trace = before.raw_trace
            /\ targets(loaded) = targets(before)
            /\ IsValid(loaded) <=> IsValid(before)
            /\ normalized # NoValue => told(normalized) = told(NormalizeTrace(before))
=============================================================================
