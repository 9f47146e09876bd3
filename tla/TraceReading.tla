---------------------------- MODULE TraceReading ----------------------------
(***************************************************************************)
(* From a file to the timed rows of a trace: TraceLoader checks the file,  *)
(* TraceParser cuts it into rows, TimeNormalizer moves the times of the    *)
(* rows into the target zone.  A column is a set of keywords or NoText, a  *)
(* time is a number of hours with its offset from UTC.                     *)
(***************************************************************************)
EXTENDS Integers, Sequences, SequencesExt

CONSTANTS
    NoText,        \* a column that is empty or missing
    NoTime,        \* None instead of a datetime
    Naive,         \* the offset of a datetime that has no zone
    MaxFileSize,   \* max_file_size_bytes
    LastHour       \* the end of the year 9999, in hours from the year 1

ASSUME ReadingAssumption ==
    /\ MaxFileSize \in Nat \ {0}
    /\ LastHour \in Nat

\* A warning or error names the line or the target it is about.
AtLine(what, line) == [what |-> what, line |-> line, target |-> NoText]
OfTarget(what, target) == [what |-> what, line |-> 0, target |-> target]

\* The elements of a sequence that are in a set, in their order.
Kept(s, T) ==
    LET kept[n \in 0 .. Len(s)] ==
            IF n = 0 THEN <<>>
            ELSE IF s[n] \in T THEN Append(kept[n - 1], s[n]) ELSE kept[n - 1]
    IN  kept[Len(s)]

\* A datetime: its local hour and its offset from UTC.
Times == [local : Int, offset : Int \cup {Naive}]

-----------------------------------------------------------------------------
(* TraceLoader                                                             *)

\* load accepts a file: it lies in the trace directory, it is a file of a
\* supported kind, and its size is within the limits.
Accepted(file) ==
    /\ file.inside
    /\ file.kind = "file"
    /\ file.supported
    /\ file.size \in 1 .. MaxFileSize

-----------------------------------------------------------------------------
(* TraceParser                                                             *)

\* _parse_timestamp: a time in one of the two formats, which have no zone.
ParseTimestamp(stamp) ==
    IF stamp.form = "time" THEN [local |-> stamp.at, offset |-> Naive] ELSE NoTime

\* A time that was not understood is reported, unless it is missing or "<null>"
\* in small letters ("<NULL>" and an empty column are reported).
StampIsReported(stamp) ==
    /\ ParseTimestamp(stamp) = NoTime
    /\ stamp.form \notin {"missing", "<null>"}

\* csv.DictReader passes over empty lines.
DataLines(file) == Kept(file.lines, {l \in ToSet(file.lines) : l.shape # "empty"})

\* The header has every column and no row has more values than the header.
WellFormed(file) ==
    /\ file.header
    /\ \A l \in ToSet(file.lines) : l.shape # "long"

\* _parse_rows: the rows are counted from 2, the line below the header.
RawRows(file) ==
    LET lines == DataLines(file)
    IN  [i \in DOMAIN lines |->
            [line |-> i + 1, time |-> ParseTimestamp(lines[i].stamp),
             stamp |-> lines[i].stamp, call |-> lines[i].call, event |-> lines[i].event,
             info |-> lines[i].info, sets |-> lines[i].sets]]

\* Variant: an unrecognized time is not reported.
ParserWarnings_Silent(rows) ==
    IF rows = <<>> THEN <<AtLine("no rows", 0)>> ELSE <<>>

ParserWarnings(rows) ==
    LET reported == Kept(rows, {r \in ToSet(rows) : StampIsReported(r.stamp)})
    IN  [i \in DOMAIN reported |-> AtLine("unrecognized timestamp", reported[i].line)]
          \o (IF rows = <<>> THEN <<AtLine("no rows", 0)>> ELSE <<>>)

\* RawTrace.create
RawTrace(file) ==
    [rows |-> RawRows(file), parser_warnings |-> ParserWarnings(RawRows(file))]

-----------------------------------------------------------------------------
(* TimeNormalizer.  zones: its source and target offset and its strategy   *)
(* for naive datetimes.                                                    *)

Hours == 0 .. LastHour

\* _apply_naive_strategy
Zoned(time, zones) ==
    IF time.offset # Naive THEN time
    ELSE [time EXCEPT !.offset = IF zones.strategy = "assume_utc" THEN 0 ELSE zones.source]

Instant(time) == time.local - time.offset

\* datetime.astimezone
InZone(time, offset) == [local |-> Instant(time) + offset, offset |-> offset]

\* astimezone raises OverflowError, which normalize does not catch, when the
\* instant lies outside the years 1 to 9999 (in the zone it has already,
\* nothing is computed).
Overflows(time, zones) ==
    LET zoned == Zoned(time, zones)
    IN  /\ time # NoTime
        /\ time.offset # Naive \/ zones.strategy # "reject"
        /\ zoned.offset # zones.target
        /\ ~ {Instant(zoned), Instant(zoned) + zones.target} \subseteq Hours

\* normalize: status, datetime, and whether a warning tells of a guessed zone.
Normalized(time, zones) ==
    IF time = NoTime THEN [status |-> "missing", time |-> NoTime, warned |-> FALSE]
    ELSE IF time.offset = Naive /\ zones.strategy = "reject"
    THEN [status |-> "invalid", time |-> NoTime, warned |-> FALSE]
    ELSE [status |-> IF Zoned(time, zones).offset = zones.target
                     THEN "unchanged" ELSE "normalized",
          time |-> InZone(Zoned(time, zones), zones.target),
          warned |-> time.offset = Naive]

NormalizedRow(row, zones) ==
    LET result == Normalized(row.time, zones)
    IN  IF result.status \in {"missing", "invalid"} THEN row
        ELSE [row EXCEPT !.time = result.time]

\* normalize_trace: the trace with its times moved, the warnings and the errors;
\* both are appended to the parser's warnings as well.
NormalizedTrace(trace, zones) ==
    LET status(r) == Normalized(r.time, zones)
        guessed == Kept(trace.rows, {r \in ToSet(trace.rows) : status(r).warned})
        refused == Kept(trace.rows, {r \in ToSet(trace.rows) : status(r).status = "invalid"})
        warnings == [i \in DOMAIN guessed |-> AtLine("naive datetime", guessed[i].line)]
        errors == [i \in DOMAIN refused |-> AtLine("naive datetime refused", refused[i].line)]
    IN  [trace |->
            [rows |-> [i \in DOMAIN trace.rows |-> NormalizedRow(trace.rows[i], zones)],
             parser_warnings |-> trace.parser_warnings \o warnings \o errors],
         warnings |-> warnings, errors |-> errors]
=============================================================================
