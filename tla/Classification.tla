--------------------------- MODULE Classification ---------------------------
(***************************************************************************)
(* What the rows of a trace mean: EvidenceExtractor gives a row at most one*)
(* classified fact, SignalExtractor every concept its text mentions, and   *)
(* TraceNormalizer turns the facts into operational events.  A text is the *)
(* set of the keywords that occur in it (case and blanks do not count); a  *)
(* keyword that is part of another one occurs wherever that one does.      *)
(***************************************************************************)
EXTENDS TraceReading

Words(text) == IF text = NoText THEN {} ELSE text

\* RawTraceRow.source_line: the columns of the row, joined.
SourceLine(row) == <<row.stamp, row.call, row.event, row.info>>

-----------------------------------------------------------------------------
(* Evidence: the first rule that matches the information column.           *)

Rule(category, keywords, excluded) ==
    [category |-> category, any |-> keywords, excluded |-> excluded]

Detached == {"psattachstate detached", "psdetached", "ps detached"}

SpecificRules == <<
    Rule("plmn_not_allowed", {"plmn not allowed"}, {}),
    Rule("location_update_failed", {"locationupdate failed", "location update failed"}, {}),
    Rule("location_update_reject",
         {"mm location updating reject", "mm location update reject"}, {}),
    Rule("location_update_request",
         {"mm location updating request", "mm location update request"}, {}),
    Rule("registration_denied", {"registration denied"}, {}),
    Rule("nas_not_registered",
         {"nasnotregistered", "registrationstate nasnotregistered", "nas not registered"}, {}),
    Rule("nas_registered",
         {"nasregistered", "registrationstate nasregistered", "nas registered"},
         {"nasnotregistered", "nas not registered"}),
    Rule("ps_detached", Detached, {}),
    Rule("ps_attached", {"psattachstate attached", "psattached", "ps attached"}, Detached),
    Rule("timeout", {"timeout", "timed out"}, {}),
    Rule("retry_detected", {"retry", "retried", "retransmission", "retransmit"}, {}) >>

GenericRules == <<
    Rule("failure_signal", {"fail", "failed", "failure", "error", "exception"}, {}),
    Rule("reject_signal", {"reject", "rejected", "denied"}, {}) >>

\* Variant: the positive states come first and exclude nothing.
EvidenceRules_PositiveFirst ==
    <<Rule("ps_attached", {"psattachstate attached", "psattached", "ps attached"}, {})>>
       \o SpecificRules \o GenericRules

\* Variant: the generic rules come first.
EvidenceRules_GenericFirst == GenericRules \o SpecificRules

EvidenceRules == SpecificRules \o GenericRules

Matches(rule, text) ==
    /\ rule.excluded \cap Words(text) = {}
    /\ rule.any \cap Words(text) # {}

\* What the factories say of their category.
Profile(type, severity, layer) == [type |-> type, severity |-> severity, layer |-> layer]

MobilityProfile(category) ==
    Profile("mobility_management",
            IF category = "location_update_request" THEN "info" ELSE "high", "MM")

StateProfile(category) ==
    Profile("network_state",
            IF category \in {"nas_registered", "ps_attached"} THEN "info" ELSE "medium",
            "NAS")

OtherProfile(category) ==
    Profile(CASE category = "timeout" -> "timing"
              [] category = "retry_detected" -> "retry"
              [] category = "failure_signal" -> "failure"
              [] category = "reject_signal" -> "rejection", "medium", NoText)

ProfileOf(category) ==
    CASE category \in {"plmn_not_allowed", "location_update_failed",
                       "location_update_reject", "location_update_request",
                       "registration_denied"} -> MobilityProfile(category)
      [] category \in {"nas_registered", "nas_not_registered",
                       "ps_attached", "ps_detached"} -> StateProfile(category)
      [] OTHER -> OtherProfile(category)

\* ParsedEvidence, with the row it was found in.
Evidence(row, rule) ==
    LET p == ProfileOf(rule.category)
    IN  [category |-> rule.category, type |-> p.type, severity |-> p.severity,
         layer |-> p.layer, line |-> row.line, text |-> SourceLine(row),
         time |-> row.time, words |-> Words(row.event) \cup Words(row.info)]

Matching(row) == {i \in DOMAIN EvidenceRules : Matches(EvidenceRules[i], row.info)}

EvidenceOfRow(row) == Evidence(row, EvidenceRules[Min(Matching(row))])

Evidences(rows) ==
    LET telling == Kept(rows, {r \in ToSet(rows) : Matching(r) # {}})
    IN  [i \in DOMAIN telling |-> EvidenceOfRow(telling[i])]

EvidenceIsFailure(e) == e.type \in {"failure", "rejection"}

-----------------------------------------------------------------------------
(* Signals: every rule whose keywords occur in the information, event or   *)
(* type column; a rule names the first of its keywords that does.          *)

SignalRule(type, keywords) == [type |-> type, keywords |-> keywords]

\* Variant: the signal rules know no "timed out".
SignalRules_Narrow == <<
    SignalRule("failure", <<"failed", "failure", "fail">>),
    SignalRule("error", <<"exception", "error">>),
    SignalRule("timeout", <<"timeout">>),
    SignalRule("retry", <<"retransmission", "retransmit", "retried", "retry">>),
    SignalRule("reject", <<"rejected", "reject", "denied">>) >>

SignalRules == <<
    SignalRule("failure", <<"failed", "failure", "fail">>),
    SignalRule("error", <<"exception", "error">>),
    SignalRule("timeout", <<"timed out", "timeout">>),
    SignalRule("retry", <<"retransmission", "retransmit", "retried", "retry">>),
    SignalRule("detach", <<"psattachstate detached", "ps detached", "psdetached",
                           "detached", "detach">>),
    SignalRule("attach", <<"psattachstate attached", "ps attached", "psattached",
                           "attached", "attach">>),
    SignalRule("registration", <<"registrationstate", "registration", "registered",
                                 "register">>),
    SignalRule("authentication", <<"authentication", "authenticate", "authorization",
                                   "authorisation", "auth">>),
    SignalRule("paging", <<"paging", "page request">>),
    SignalRule("reject", <<"rejected", "reject", "denied">>),
    SignalRule("disconnect", <<"disconnected", "disconnect">>),
    SignalRule("release", <<"released", "release">>),
    SignalRule("sms", <<"short message service", "sms">>),
    SignalRule("call", <<"voice call", "call", "voice">>),
    SignalRule("volte", <<"voice over lte", "volte", "ims">>) >>

FoundKeywords(rule, words) == Kept(rule.keywords, words)

Signal(row, type, keyword) ==
    [type |-> type, keyword |-> keyword, line |-> row.line, text |-> SourceLine(row),
     time |-> row.time]

SignalsOfRow(row) ==
    LET words == Words(row.info) \cup Words(row.event)
        found == Kept(SignalRules, {r \in ToSet(SignalRules) : FoundKeywords(r, words) # <<>>})
    IN  [i \in DOMAIN found |->
            Signal(row, found[i].type, FoundKeywords(found[i], words)[1])]

Signals(rows) == FlattenSeq([i \in DOMAIN rows |-> SignalsOfRow(rows[i])])

IsProblemSignal(s) ==
    s.type \in {"failure", "error", "timeout", "retry", "reject", "disconnect", "detach"}

-----------------------------------------------------------------------------
(* Operational events: one for each evidence, numbered from 1.             *)

Mobility == {"location_update_request", "location_update_reject",
             "location_update_failed", "plmn_not_allowed", "registration_denied"}

\* The names that differ from the category in more than capitals.
EventName(e) ==
    IF e.category = "location_update_reject" THEN "mm_location_update_reject"
    ELSE IF e.category = "location_update_request" THEN "mm_location_update_request"
    ELSE e.category

EventFamily(e) == IF e.type = "rejection" THEN "failure" ELSE e.type

EventSeverity(e) ==
    IF e.category \in {"plmn_not_allowed", "location_update_failed",
                       "location_update_reject", "registration_denied"} THEN "high"
    ELSE IF e.category \in {"timeout", "retry_detected", "nas_not_registered", "detached",
                            "failure_signal", "reject_signal"} THEN "medium"
    ELSE e.severity

Cause(e) ==
    IF e.category = "retry_detected" THEN "retry"
    ELSE IF e.category \in {"plmn_not_allowed", "location_update_failed", "timeout",
                            "location_update_reject", "registration_denied",
                            "nas_not_registered", "detached"}
    THEN e.category ELSE NoText

WorkflowStage(e) ==
    CASE e.category \in Mobility -> "mobility_management"
      [] e.category \in {"nas_registered", "nas_not_registered", "ps_attached", "detached"}
            -> "network_registration"
      [] e.category \in {"timeout", "retry_detected"} -> "stability_or_retry"
      [] OTHER -> "trace_analysis"

NetworkDomain(e) ==
    CASE e.type \in {"mobility_management", "network_state"} -> "roaming"
      [] e.type \in {"timing", "retry"} -> "connectivity"
      [] OTHER -> "unknown"

Direction(e) ==
    CASE e.words \cap {"send", "sent", "-->"} # {} -> "send"
      [] e.words \cap {"send", "sent", "-->"} = {}
         /\ e.words \cap {"recv", "received", "<--"} # {} -> "receive"
      [] OTHER -> "unknown"

EventResult(e) ==
    CASE e.category = "timeout" -> "timeout"
      [] e.category \in {"location_update_reject", "registration_denied",
                         "reject_signal", "plmn_not_allowed"} -> "rejected"
      [] e.category \in {"location_update_failed", "failure_signal",
                         "nas_not_registered", "detached"} -> "failed"
      [] e.category \in {"nas_registered", "ps_attached"} -> "success"
      [] OTHER -> IF EvidenceIsFailure(e) THEN "failed" ELSE "observed"

Tags(e) == {e.type, e.category, e.severity, e.layer} \ {NoText}

Advice(e) ==
    CASE e.category = "plmn_not_allowed" -> "check roaming agreement"
      [] e.category \in {"location_update_failed", "location_update_reject",
                         "registration_denied"} -> "review location update"
      [] e.category = "timeout" -> "check stability"
      [] e.category = "retry_detected" -> "compare retries"
      [] e.category \in {"nas_not_registered", "detached"} -> "check attach state"
      [] OTHER -> NoText

RetryRecommended(e) ==
    e.category \in {"timeout", "retry_detected", "nas_not_registered", "detached"}

\* An event of the trace identity; operator and country are values of the trace.
Event(identity, number, e, operator, country, values) ==
    [trace |-> identity, seq |-> number, name |-> EventName(e), family |-> EventFamily(e),
     severity |-> EventSeverity(e), result |-> EventResult(e), cause |-> Cause(e),
     stage |-> WorkflowStage(e), domain |-> NetworkDomain(e), direction |-> Direction(e),
     operator |-> operator, country |-> country, retry |-> RetryRecommended(e),
     advice |-> Advice(e), tags |-> Tags(e), line |-> e.line, raw |-> e.text,
     time |-> e.time, layer |-> e.layer, values |-> values]

EventIsFailure(ev) == ev.result \in {"failed", "rejected", "timeout"}

EventIsHighSeverity(ev) == ev.severity \in {"high", "critical"}
=============================================================================
