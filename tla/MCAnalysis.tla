----------------------------- MODULE MCAnalysis -----------------------------
EXTENDS Analysis

\* A row of a file.
Line(stamp, call, event, info, sets) ==
    [shape |-> "row", stamp |-> stamp, call |-> call, event |-> event, info |-> info,
     sets |-> sets]

At(hour) == [form |-> "time", at |-> hour]
Stamp(form) == [form |-> form, at |-> 0]
Set(name, form, v) == [name |-> name, form |-> form, v |-> v]

\* Written numbers and truth values.
MCNumberOf(v) ==
    CASE v \in {"1", "1.0", "true"} -> 1
      [] v = "206" -> 206
      [] v = "0" -> 0

EmptyLine == [Line(Stamp("missing"), NoText, NoText, NoText, <<>>) EXCEPT !.shape = "empty"]
LongLine == [Line(At(5), NoText, NoText, NoText, <<>>) EXCEPT !.shape = "long"]

Attached ==
    Line(At(6), "c1", {"call"}, {"psattachstate attached", "attached", "attach"},
         <<Set("IMSI", "long number", "206012345678901")>>)
DetachedAgain ==
    Line(Stamp("missing"), NoText, {"send"},
         {"ps detached", "detached", "detach", "psattached", "attached", "attach"},
         <<Set("operator", "word", "KPN"), Set("operator", "word", "VF")>>)
TimedOut ==
    Line(At(1), NoText, NoText, {"timed out", "recv"},
         <<Set("Status", "word", "failed"), Set("IMSI", "number", "206")>>)
Denied ==
    Line(Stamp("garbled"), "c2", NoText,
         {"registration denied", "registration", "denied"}, <<Set("IMSI", "bit", "1")>>)
RegisteredDetached ==
    Line(At(3), NoText, NoText,
         {"nas registered", "registered", "register", "ps detached", "detached", "detach"},
         <<Set("IMSI", "truth", "true"), Set("IMSI", "whole", "1.0"),
           Set("seen", "stamp", [local |-> 7, offset |-> 0])>>)
ErrorEvent ==
    Line(Stamp("<NULL>"), NoText, {"error"}, {"exception", "error"},
         <<Set("seen", "stamp", [local |-> 7, offset |-> Naive]),
           Set("operator", "stamp", [local |-> 7, offset |-> 0])>>)
Quiet ==
    Line(Stamp("<null>"), NoText, NoText, NoText,
         <<Set("seen", "stamp", [local |-> 8, offset |-> 1])>>)
Early ==
    Line(At(0), NoText, NoText, {"retried"},
         <<Set("seen", "date", [local |-> 4, offset |-> Naive]), Set("load", "nan", "nan")>>)

Lines == {Attached, DetachedAgain, TimedOut, Denied, ErrorEvent, Quiet, Early, EmptyLine,
          RegisteredDetached}

FileOf(lines) ==
    [inside |-> TRUE, kind |-> "file", supported |-> TRUE, size |-> 1, header |-> TRUE,
     lines |-> lines]

Bad == LET f == FileOf(<<Attached>>)
       IN  {[f EXCEPT !.inside = FALSE], [f EXCEPT !.kind = "directory"],
            [f EXCEPT !.supported = FALSE], [f EXCEPT !.size = 0],
            [f EXCEPT !.size = MaxFileSize + 1], [f EXCEPT !.header = FALSE],
            FileOf(<<Attached, LongLine>>)}

Zones(source, target, strategy) ==
    [source |-> source, target |-> target, strategy |-> strategy]

Utc == Zones(0, 0, "assume_source_timezone")
Prague == Zones(1, 0, "assume_source_timezone")
UtcOnly == Zones(1, 2, "assume_utc")
Strict == Zones(1, 0, "reject")

Definition(target, operation, source, name, type) ==
    [target |-> target, operation |-> operation, source |-> source, name |-> name,
     type |-> type, duplicates |-> "first", default |-> NoValue, constant |-> NoValue,
     pattern |-> <<>>, group_exists |-> TRUE, table |-> <<>>]

StatusTable ==
    [s \in {"failed", "failure", "success"} |->
        Value("str", "word", IF s = "success" THEN "successful" ELSE "failed")]

\* etc/trace_mapping.yml
Shipped == <<
    Definition("imsi", "copy", "extracted_value", "IMSI", "string"),
    Definition("call_id", "copy", "raw_field", "CallId", "string"),
    Definition("first_event", "copy", "event", NoText, "string"),
    [Definition("trace_status", "lookup", "extracted_value", "Status", "string")
        EXCEPT !.table = StatusTable],
    [Definition("platform", "constant", "none", NoText, "string")
        EXCEPT !.constant = Value("str", "word", "globalroamer")] >>

\* Every operation, type and strategy that a configuration may use.
Typed == <<
    [Definition("imsi", "copy", "extracted_value", "IMSI", "integer")
        EXCEPT !.default = Value("int", "number", "0")],
    [Definition("started", "copy", "extracted_value", "seen", "datetime")
        EXCEPT !.default = Value("str", "stamp", [local |-> 0, offset |-> Naive])],
    Definition("load", "copy", "extracted_value", "load", "float"),
    Definition("registered", "copy", "extracted_value", "IMSI", "boolean"),
    [Definition("call_id", "copy", "raw_field", "CallId", "string")
        EXCEPT !.duplicates = "error"],
    [Definition("operator", "regex", "trace_text", NoText, "string")
        EXCEPT !.pattern = <<"detached", "denied">>, !.duplicates = "last"],
    [Definition("country", "regex", "raw_field", "CallId", "string")
        EXCEPT !.pattern = <<"c1">>],
    [Definition("cause", "regex", "information", NoText, "string")
        EXCEPT !.pattern = <<"exception">>, !.group_exists = FALSE],
    [Definition("text", "copy", "trace_text", NoText, "string")
        EXCEPT !.default = Value("datetime", "stamp", [local |-> 1, offset |-> 0])] >>

ASSUME ConfigurationOK(Shipped) /\ ConfigurationOK(Typed)

Given(files, zones, defs) == [files |-> files, zones |-> zones, defs |-> defs]

OneFile == UNION {{FileOf(ls) : ls \in [1 .. n -> Lines]} : n \in 0 .. 3} \cup Bad

Several == {FileOf(<<TimedOut, EmptyLine, Attached>>), FileOf(<<DetachedAgain, Denied>>),
            FileOf(<<Early, Denied>>)}

MCInputs ==
    {Given(<<f>>, z, d) : f \in OneFile, z \in {Utc, Prague, UtcOnly, Strict},
                          d \in {Shipped, Typed}}
      \cup {Given(<<f, g>>, Utc, d) : f \in Several, g \in Several, d \in {Shipped, Typed}}
=============================================================================
