---------------------------- MODULE TraceMapping ----------------------------
(***************************************************************************)
(* The values of a trace: TraceValueExtractor collects the assignments that*)
(* its rows contain, MappingEngine computes the configured targets from    *)
(* them, TimeNormalizer moves the mapped datetimes.  A value is its Python *)
(* type, the form its text has, and what tells it from others.             *)
(***************************************************************************)
EXTENDS Classification

CONSTANTS
    NoValue,       \* None instead of a value
    NumberOf(_)    \* the number that a written number or truth value stands for

Value(type, form, v) == [type |-> type, form |-> form, v |-> v]

-----------------------------------------------------------------------------
(* TraceValueExtractor, with the default strategy warn_last                *)

\* _coerce_value: the type a written form gets.  Numbers of more than ten
\* digits or with a leading zero, dates without a time, and words stay text.
Coerce(form, v) ==
    Value(CASE form = "truth" -> "bool"
            [] form \in {"bit", "number"} -> "int"
            [] form \in {"decimal", "whole"} -> "float"
            [] form = "stamp" -> "datetime"
            [] OTHER -> "str", form, v)

\* ExtractedValue: where the value comes from is part of it.
Extracted(row, assignment) ==
    [value |-> Coerce(assignment.form, assignment.v), line |-> row.line]

NoValues == [values |-> <<>>, warnings |-> <<>>]

\* What Python compares by ==: numbers and truth values by their number (1, True
\* and 1.0 are equal), datetimes with a zone by their instant; a datetime without
\* a zone equals none that has one, a text only the same text.
Denoted(value) ==
    CASE value.type \in {"bool", "int", "float"} -> [number |-> NumberOf(value.v)]
      [] value.type = "datetime" /\ value.v.offset # Naive -> [instant |-> Instant(value.v)]
      [] OTHER -> value

SameValue(value, other) == Denoted(value) = Denoted(other)

Put(values, name, entry) ==
    [n \in DOMAIN values \cup {name} |-> IF n = name THEN entry ELSE values[n]]

\* Variant: the first value is kept.
StoreValue_First(found, row, a) ==
    IF a.name \in DOMAIN found.values THEN found
    ELSE [found EXCEPT !.values = Put(@, a.name, Extracted(row, a))]

\* _store_value: an equal value changes nothing, neither the way it is written nor
\* where it comes from; another one is reported and wins.
StoreValue(found, row, a) ==
    IF a.name \notin DOMAIN found.values
    THEN [found EXCEPT !.values = Put(@, a.name, Extracted(row, a))]
    ELSE IF SameValue(found.values[a.name].value, Coerce(a.form, a.v)) THEN found
    ELSE [values |-> Put(found.values, a.name, Extracted(row, a)),
          warnings |-> Append(found.warnings, OfTarget("duplicate", a.name))]

ExtractRow(found, row) ==
    LET stored[n \in 0 .. Len(row.sets)] ==
            IF n = 0 THEN found ELSE StoreValue(stored[n - 1], row, row.sets[n])
    IN  stored[Len(row.sets)]

ExtractValues(rows) ==
    LET extracted[n \in 0 .. Len(rows)] ==
            IF n = 0 THEN NoValues ELSE ExtractRow(extracted[n - 1], rows[n])
    IN  extracted[Len(rows)]

-----------------------------------------------------------------------------
(* MappingEngine.  A definition d has a target, an operation, a source, a  *)
(* value type, a strategy for duplicates and perhaps a default.            *)

\* MappingDefinition.__post_init__ and MappingConfiguration.__post_init__.
ConfigurationOK(defs) ==
    /\ defs # <<>>
    /\ \A i, j \in DOMAIN defs : defs[i].target = defs[j].target => i = j
    /\ \A d \in ToSet(defs) :
          /\ d.operation = "constant" <=> d.source = "none"
          /\ d.operation = "constant" => d.constant # NoValue
          /\ d.source \in {"extracted_value", "raw_field"} => d.name # NoText
          /\ d.operation = "regex" <=> d.pattern # <<>>
          /\ d.operation = "lookup" <=> DOMAIN d.table # {}

Candidate(value, line) == [value |-> value, line |-> line]

\* _from_rows, _from_raw_field, _from_trace_text: a text of keywords, a word, or
\* the whole line.
FromRows(rows, form, Column(_)) ==
    LET filled == Kept(rows, {r \in ToSet(rows) : Column(r) # NoText})
    IN  [i \in DOMAIN filled |->
            Candidate(Value("str", form, Column(filled[i])), filled[i].line)]

\* _resolve_source_candidates: the column of event types, read as that of events
\* is, and other raw fields than CallId are left out.
SourceCandidates(d, rows, extracted) ==
    CASE d.source = "extracted_value" ->
            IF d.name \in DOMAIN extracted.values
            THEN <<Candidate(extracted.values[d.name].value, extracted.values[d.name].line)>>
            ELSE <<>>
      [] d.source = "information" -> FromRows(rows, "words", LAMBDA r : r.info)
      [] d.source = "event" -> FromRows(rows, "words", LAMBDA r : r.event)
      [] d.source = "raw_field" -> FromRows(rows, "word", LAMBDA r : r.call)
      [] d.source = "trace_text" -> FromRows(rows, "line", SourceLine)
      [] d.source = "none" -> <<>>

\* The keywords of the pattern that occur in a text, each of them a match.
RegexMatches(d, value) ==
    LET text == CASE value.form = "words" -> value.v
                  [] value.form = "line" ->
                        {value.v[2]} \cup Words(value.v[3]) \cup Words(value.v[4])
                  [] OTHER -> {value.v}
        found == Kept(d.pattern, text)
    IN  [i \in DOMAIN found |-> Value("str", "word", found[i])]

ApplyRegex(d, candidates) ==
    FlattenSeq([i \in DOMAIN candidates |->
        LET found == RegexMatches(d, candidates[i].value)
        IN  [j \in DOMAIN found |-> Candidate(found[j], candidates[i].line)]])

ApplyLookup(d, candidates) ==
    LET known == Kept(candidates, {c \in ToSet(candidates) : c.value.v \in DOMAIN d.table})
    IN  [i \in DOMAIN known |-> Candidate(d.table[known[i].value.v], known[i].line)]

Candidates(d, rows, extracted) ==
    LET sources == SourceCandidates(d, rows, extracted)
    IN  CASE d.operation = "constant" -> <<Candidate(d.constant, 0)>>
          [] d.operation = "copy" -> sources
          [] d.operation = "regex" -> ApplyRegex(d, sources)
          [] d.operation = "lookup" -> ApplyLookup(d, sources)

\* The group that a pattern names does not exist: an error, but only when the
\* pattern matches.
GroupMissing(d, rows, extracted) ==
    /\ d.operation = "regex"
    /\ ~d.group_exists
    /\ Candidates(d, rows, extracted) # <<>>

\* _select_candidate; Ambiguous when it raises ValueError.
Ambiguous(d, candidates) == Len(candidates) > 1 /\ d.duplicates = "error"

Selected(d, candidates) ==
    IF d.duplicates = "last" THEN candidates[Len(candidates)] ELSE candidates[1]

\* _to_integer, _to_float, _to_boolean and _to_datetime: what they accept.
Convertible(value, type) ==
    CASE type = "string" -> TRUE
      [] type = "integer" -> \/ value.type = "int"
                             \/ value.type = "float" /\ value.form = "whole"
                             \/ value.type = "str" /\ value.form = "long number"
      [] type = "float" -> \/ value.type \in {"int", "float"}
                           \/ value.type = "str" /\ value.form \in {"long number", "nan"}
      [] type = "boolean" -> \/ value.type = "bool"
                             \/ value.form = "bit"
                             \/ value.type = "str" /\ value.form = "yes"
      [] type = "datetime" -> \/ value.type = "datetime"
                              \/ value.type = "str" /\ value.form = "date"

PythonType ==
    [string |-> "str", integer |-> "int", float |-> "float", boolean |-> "bool",
     datetime |-> "datetime"]

\* The value in the type of its target.  As text, a datetime is printed with a
\* blank between date and time, where ISO has a T.
Convert(value, type) ==
    LET form == CASE type = "datetime" -> "stamp"
                  [] type = "string" /\ value.type = "datetime" -> "printed"
                  [] OTHER -> value.form
    IN  Value(PythonType[type], form, value.v)

\* MappedValue and its factories.
MappedValue(d, status, value, source, line, warned) ==
    [target |-> d.target, status |-> status, value |-> value, value_type |-> d.type,
     source_value |-> source, line |-> line, warned |-> warned]

\* Variant: a value that cannot be converted is replaced by the default.
ApplyDefinition_Masks(d, rows, extracted) ==
    LET candidates == Candidates(d, rows, extracted)
        chosen == Selected(d, candidates)
    IN  IF candidates # <<>> /\ Convertible(chosen.value, d.type)
        THEN MappedValue(d, "mapped", Convert(chosen.value, d.type), chosen.value,
                         chosen.line, Len(candidates) > 1)
        ELSE IF d.default # NoValue
        THEN MappedValue(d, "defaulted", d.default, NoValue, 0, TRUE)
        ELSE MappedValue(d, "missing", NoValue, NoValue, 0, TRUE)

\* _apply_definition
ApplyDefinition(d, rows, extracted) ==
    LET candidates == Candidates(d, rows, extracted)
        chosen == Selected(d, candidates)
    IN  IF GroupMissing(d, rows, extracted) \/ Ambiguous(d, candidates)
        THEN MappedValue(d, "mapping_error", NoValue, NoValue, 0, FALSE)
        ELSE IF candidates = <<>>
        THEN IF d.default # NoValue
             THEN MappedValue(d, "defaulted", d.default, NoValue, 0, TRUE)
             ELSE MappedValue(d, "missing", NoValue, NoValue, 0, TRUE)
        ELSE IF ~Convertible(chosen.value, d.type)
        THEN MappedValue(d, "conversion_error", NoValue, chosen.value, chosen.line, FALSE)
        ELSE MappedValue(d, "mapped", Convert(chosen.value, d.type), chosen.value,
                         chosen.line, Len(candidates) > 1)

IsSuccessful(m) == m.status \in {"mapped", "defaulted"}

IsError(m) == m.status \in {"conversion_error", "mapping_error"}

\* map: one result for each definition, in their order, and the messages.
MapValues(defs, rows, extracted) ==
    LET values == [i \in DOMAIN defs |-> ApplyDefinition(defs[i], rows, extracted)]
        warned == Kept(values, {m \in ToSet(values) : m.warned})
        failed == Kept(values, {m \in ToSet(values) : IsError(m)})
    IN  [values |-> values,
         warnings |-> [i \in DOMAIN warned |-> OfTarget("mapping", warned[i].target)],
         errors |-> [i \in DOMAIN failed |-> OfTarget("mapping", failed[i].target)]]

\* get: the value of a target that was mapped, else the fallback.
MappedOr(mapped, target, fallback) ==
    LET found == {i \in DOMAIN mapped.values :
                     mapped.values[i].target = target /\ IsSuccessful(mapped.values[i])}
    IN  IF found = {} THEN fallback ELSE mapped.values[Min(found)].value

-----------------------------------------------------------------------------
(* TimeNormalizer.normalize_mapped_values                                  *)

ShouldNormalize(m) == IsSuccessful(m) /\ m.value_type = "datetime"

\* A default that is no datetime is parsed now, or turns out to be none.
DatetimeOf(value) ==
    IF value.type = "datetime" \/ value.form \in {"date", "stamp", "printed"} THEN value.v
    ELSE NoTime

\* The datetime of a mapped value is moved; one that cannot be is an error.
NormalizedMappedValue(m, zones) ==
    LET result == Normalized(DatetimeOf(m.value), zones)
    IN  IF ~ShouldNormalize(m) THEN m
        ELSE IF result.status \in {"normalized", "unchanged"}
        THEN [m EXCEPT !.value = Value("datetime", "stamp", result.time),
                       !.warned = @ \/ result.warned]
        ELSE [m EXCEPT !.status = "conversion_error", !.value = NoValue, !.warned = FALSE]

\* Variant: the error of a datetime is not added to the errors of the mapping.
NormalizedMapping_Quiet(mapped, zones) ==
    [mapped EXCEPT !.values = [i \in DOMAIN @ |-> NormalizedMappedValue(@[i], zones)]]

NormalizedMapping(mapped, zones) ==
    LET after(m) == NormalizedMappedValue(m, zones)
        guessed == Kept(mapped.values, {m \in ToSet(mapped.values) :
            ShouldNormalize(m) /\ Normalized(DatetimeOf(m.value), zones).warned})
        failed == Kept(mapped.values,
                       {m \in ToSet(mapped.values) : IsError(after(m)) /\ ~IsError(m)})
    IN  [values |-> [i \in DOMAIN mapped.values |-> after(mapped.values[i])],
         warnings |-> mapped.warnings
            \o [i \in DOMAIN guessed |-> OfTarget("naive datetime", guessed[i].target)],
         errors |-> mapped.errors
            \o [i \in DOMAIN failed |-> OfTarget("datetime", failed[i].target)]]

\* The datetimes that astimezone would refuse with an OverflowError.
MappingOverflows(mapped, zones) ==
    \E m \in ToSet(mapped.values) :
        ShouldNormalize(m) /\ Overflows(DatetimeOf(m.value), zones)
=============================================================================
