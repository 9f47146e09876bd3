------------------------------ MODULE Requests ------------------------------
(***************************************************************************)
(* The trace API: what its concurrent requests do to the database, to the  *)
(* object storage and to each other.                                       *)
(*                                                                         *)
(*   create   POST /traces            CreateTrace                          *)
(*   get      GET /traces/{id}        GetTrace                             *)
(*   list     GET /traces, page after page until one is empty  ListTraces  *)
(*   submit   POST /traces/submit     SubmitTrace, LocalObjectStorage      *)
(*   process  POST /traces/process    ProcessTrace, ParsedTraceStore       *)
(*   none     no request                                                   *)
(*                                                                         *)
(* A request has a session of its own.  What it flushes, nobody sees       *)
(* before it commits (read committed), but an insert of a key that another *)
(* session has flushed, or an update of its row, waits for that session.   *)
(* The database session commits when the handler has returned; whether the *)
(* response leaves before or after is up to the version of FastAPI         *)
(* (dependencies with yield), so that the model does either.               *)
(*                                                                         *)
(* A request stands for the identifiers that it generates (the uuid of its *)
(* trace, artifact and message).  A hash is the content it is taken of.    *)
(***************************************************************************)
EXTENDS Naturals, FiniteSets

CONSTANTS
    Requests,     \* the requests, and the clients that sent them
    Workloads,    \* functions from Requests to commands
    FirstFiles,   \* what the files may hold when the requests arrive
    Files,        \* the files under the paths that commands name
    Contents,     \* what a file can hold
    SummaryOf,    \* the summary columns of the parse of each content
    NoFile,       \* there is no regular file under the path
    NoContent,    \* nothing was read yet
    AnyTenant,    \* a listing without tenant_id
    MaxLimit,     \* ListTraces.MAX_LIMIT
    MaxIncidents  \* bound: failures, crashes and changes of files together

ASSUME RequestsAssumption ==
    /\ NoFile \notin Contents /\ NoContent \notin Contents
    /\ DOMAIN SummaryOf = Contents
    /\ FirstFiles \subseteq [Files -> Contents \cup {NoFile}]
    /\ {MaxLimit, MaxIncidents} \subseteq Nat
    /\ \A w \in Workloads : \A r \in Requests :
          /\ w[r].kind \in {"create", "get", "list", "submit", "process", "none"}
          /\ w[r].kind \in {"submit", "process"} => w[r].file \in Files

VARIABLES
    command,       \* what each request asks for
    commitsFirst,  \* the session commits before the response is sent
    file,          \* the content of each file, or NoFile
    objects,       \* the object storage: a function from keys to contents
    traces,        \* committed rows of traces
    artifacts,     \* committed rows of source_artifacts
    outbox,        \* committed rows of outbox_messages
    parsed,        \* committed rows of parsed_traces
    stage,         \* how far the handler of each request is
    work,          \* its local variables
    writes,        \* the rows its session has flushed and not committed
    answer,        \* the response its client got
    clock,         \* datetime.now()
    replaced,      \* requests whose file changed after it was hashed
    incidents

tables == <<traces, artifacts, outbox, parsed>>
storage == <<file, objects>>
vars == <<command, commitsFirst, storage, tables, stage, work, writes, answer, clock,
          replaced, incidents>>

Stages == {"waiting", "absent", "paging", "inspected", "copied", "stored", "recorded",
           "loaded", "selected", "handled", "committed", "answered", "raised", "done"}

Open == Stages \ {"waiting", "done"}

Answers == {"none", "ok", "conflict", "duplicate", "missing", "invalid", "failed"}

NoWork == [content |-> NoContent, copy |-> NoContent, created |-> 0, row |-> {},
           offset |-> 0, seen |-> {}, expected |-> {}, outcome |-> "none"]

NoWrites == [traces |-> {}, artifacts |-> {}, outbox |-> {}, inserted |-> {}, updated |-> {}]

TypeOK ==
    /\ commitsFirst \in BOOLEAN
    /\ file \in [Files -> Contents \cup {NoFile}]
    /\ \A key \in DOMAIN objects : objects[key] \in Contents
    /\ stage \in [Requests -> Stages]
    /\ answer \in [Requests -> Answers]
    /\ \A r \in Requests :
          /\ stage[r] \notin Open => writes[r] = NoWrites
          /\ answer[r] # "none" => stage[r] \in {"answered", "done"}
    /\ {clock, incidents} \subseteq Nat
    /\ replaced \subseteq Requests

Init ==
    /\ command \in Workloads
    /\ commitsFirst \in BOOLEAN
    /\ file \in FirstFiles
    /\ objects = <<>>
    /\ traces = {} /\ artifacts = {} /\ outbox = {} /\ parsed = {}
    /\ stage = [r \in Requests |-> IF command[r].kind = "none" THEN "done" ELSE "waiting"]
    /\ work = [r \in Requests |-> NoWork]
    /\ writes = [r \in Requests |-> NoWrites]
    /\ answer = [r \in Requests |-> "none"]
    /\ clock = 0
    /\ replaced = {}
    /\ incidents = 0

-----------------------------------------------------------------------------
(* The steps of a handler.                                                 *)

IsAt(r, kind, s) == command[r].kind = kind /\ stage[r] = s

(* The request arrives; nobody sees that before its first step.            *)
Starts(r, kind) == IsAt(r, kind, "waiting") /\ command[r].valid

(* The handler of r goes on with local variables w.                        *)
Continue(r, s, w) ==
    /\ stage' = [stage EXCEPT ![r] = s]
    /\ work' = [work EXCEPT ![r] = w]

Returns(r) ==
    /\ Continue(r, "handled", [work[r] EXCEPT !.outcome = "ok"])
    /\ UNCHANGED writes

(* An exception that is answered as outcome.                               *)
Raises(r, outcome) ==
    /\ Continue(r, "raised", [work[r] EXCEPT !.outcome = outcome])
    /\ UNCHANGED writes

InScope(r, t) == command[r].tenant \in {t.tenant, AnyTenant}

(* The schema, the route or the command's own checks refuse blank          *)
(* identifiers.                                                            *)
Refuse(r) ==
    /\ stage[r] = "waiting"
    /\ ~command[r].valid
    /\ Raises(r, "invalid")
    /\ UNCHANGED <<objects, clock>>

\* Variant: sessions do not wait for each other's flushed rows.
Blocked_Never(r, table, key) == FALSE

(* Another session has flushed a row of the same unique key, or an update  *)
(* of it: the statement waits until that session ends.                     *)
Blocked(r, table, key) ==
    \E q \in Requests \ {r} : \E row \in writes[q][table] : row.key = key

(* flush() of a new row, which the unique constraint refuses if its key is *)
(* committed.                                                              *)
Insert(r, table, committed, row, next) ==
    /\ ~Blocked(r, table, row.key)
    /\ IF \E t \in committed : t.key = row.key
       THEN Raises(r, "duplicate")
       ELSE /\ Continue(r, next, [work[r] EXCEPT !.outcome = "ok"])
            /\ writes' = [writes EXCEPT ![r][table] = @ \cup {row}]

-----------------------------------------------------------------------------
(* The registry of traces.                                                 *)

Key(c) == <<c.tenant, c.trace>>

\* Variant: the lookup sees what other sessions have not committed.
Existing_Dirty(c) ==
    {t \in traces \cup UNION {writes[q].traces : q \in Requests} : t.key = Key(c)}

(* get_by_external_id.                                                     *)
Existing(c) == {t \in traces : t.key = Key(c)}

(* CreateTrace: the lookup, and the entity, whose created_at is older than *)
(* its row.                                                                *)
LookUp(r) ==
    /\ Starts(r, "create")
    /\ IF Existing(command[r]) # {}
       THEN Raises(r, "conflict") /\ UNCHANGED clock
       ELSE /\ Continue(r, "absent", [work[r] EXCEPT !.created = clock])
            /\ clock' = clock + 1
            /\ UNCHANGED writes
    /\ UNCHANGED objects

AddTrace(r) ==
    /\ IsAt(r, "create", "absent")
    /\ Insert(r, "traces", traces, [key |-> Key(command[r]), tenant |-> command[r].tenant,
                                    by |-> r, created |-> work[r].created], "handled")
    /\ UNCHANGED <<objects, clock>>

GetTrace(r) ==
    /\ Starts(r, "get")
    /\ IF \E t \in traces : t.by = command[r].id THEN Returns(r) ELSE Raises(r, "missing")
    /\ UNCHANGED <<objects, clock>>

(* The WHERE clause of a listing.                                          *)
Rows(r) == {t \in traces : InScope(r, t)}

(* ORDER BY created_at DESC: the rows in front of t.                       *)
Newer(t, rows) == {u \in rows : u.created > t.created}

\* Variant: the offset counts from one.
Page_OneBased(rows, offset, limit) ==
    {t \in rows : Cardinality(Newer(t, rows)) \in offset + 1 .. offset + limit}

(* OFFSET and LIMIT.                                                       *)
Page(rows, offset, limit) ==
    {t \in rows : Cardinality(Newer(t, rows)) \in offset .. offset + limit - 1}

(* A request for a page.  The client asks for the next one, behind the     *)
(* rows it was given, until it gets an empty one.                          *)
ListPage(r) ==
    /\ Starts(r, "list") \/ IsAt(r, "list", "paging")
    /\ LET page == Page(Rows(r), work[r].offset, command[r].limit)
       IN  CASE command[r].limit \notin 1 .. MaxLimit -> Raises(r, "invalid")
             [] command[r].limit \in 1 .. MaxLimit /\ page = {} -> Returns(r)
             [] OTHER -> /\ Continue(r, "paging", [work[r] EXCEPT
                                !.offset = @ + Cardinality(page),
                                !.seen = @ \cup page,
                                !.expected = IF stage[r] = "paging" THEN @ ELSE Rows(r)])
                         /\ UNCHANGED writes
    /\ UNCHANGED <<objects, clock>>

-----------------------------------------------------------------------------
(* The submission of a file.                                               *)

(* The content under the path of the command, if there is a file.          *)
Source(r) == file[command[r].file]

(* _inspect_source_file: the hash of the content.                          *)
Inspect(r) ==
    /\ Starts(r, "submit")
    /\ IF Source(r) = NoFile
       THEN Raises(r, "failed")
       ELSE /\ Continue(r, "inspected", [work[r] EXCEPT !.content = Source(r)])
            /\ UNCHANGED writes
    /\ UNCHANGED <<objects, clock>>

(* ObjectStorage.write opens the file again and copies it to a temporary   *)
(* file ...                                                                *)
CopyContent(r) ==
    /\ IsAt(r, "submit", "inspected")
    /\ IF Source(r) = NoFile
       THEN Raises(r, "failed")
       ELSE /\ Continue(r, "copied", [work[r] EXCEPT !.copy = Source(r)])
            /\ UNCHANGED writes
    /\ UNCHANGED <<objects, clock>>

\* Variant: the key is made of the tenant and the file name alone.
StorageKey_ByName(r) == <<command[r].tenant, command[r].file>>

(* _build_storage_key: the tenant, the artifact and the file name.         *)
StorageKey(r) == <<command[r].tenant, r, command[r].file>>

(* ... which then takes the place of the object, whole.                    *)
PlaceObject(r) ==
    /\ IsAt(r, "submit", "copied")
    /\ objects' = [key \in DOMAIN objects \cup {StorageKey(r)} |->
                      IF key = StorageKey(r) THEN work[r].copy ELSE objects[key]]
    /\ Continue(r, "stored", work[r])
    /\ UNCHANGED <<writes, clock>>

ArtifactRow(r) ==
    [key |-> <<command[r].tenant, work[r].content>>, by |-> r, hash |-> work[r].content,
     storage |-> StorageKey(r), trace |-> command[r].trace]

\* Variant: ON CONFLICT DO NOTHING.
AddArtifact_Ignores(r) ==
    /\ IsAt(r, "submit", "stored")
    /\ ~Blocked(r, "artifacts", ArtifactRow(r).key)
    /\ Continue(r, "recorded", [work[r] EXCEPT !.outcome = "ok"])
    /\ writes' = [writes EXCEPT ![r].artifacts =
                     {a \in {ArtifactRow(r)} : \A b \in artifacts : a.key # b.key}]
    /\ UNCHANGED <<objects, clock>>

AddArtifact(r) ==
    /\ IsAt(r, "submit", "stored")
    /\ Insert(r, "artifacts", artifacts, ArtifactRow(r), "recorded")
    /\ UNCHANGED <<objects, clock>>

\* Variant: the table is locked to keep messages in the order of artifacts.
AddMessage_LocksTable(r) ==
    /\ IsAt(r, "submit", "recorded")
    /\ \A q \in Requests \ {r} : writes[q].artifacts = {}
    /\ Continue(r, "handled", work[r])
    /\ writes' = [writes EXCEPT ![r].outbox = {[artifact |-> r, trace |-> command[r].trace]}]
    /\ UNCHANGED <<objects, clock>>

(* The outbox message of the TRACE_ARTIFACT_RECEIVED event.                *)
AddMessage(r) ==
    /\ IsAt(r, "submit", "recorded")
    /\ Continue(r, "handled", work[r])
    /\ writes' = [writes EXCEPT ![r].outbox = {[artifact |-> r, trace |-> command[r].trace]}]
    /\ UNCHANGED <<objects, clock>>

-----------------------------------------------------------------------------
(* The synchronous processing of a file.                                   *)

(* TraceLoader.load and ParseTrace, which do not await.                    *)
LoadAndParse(r) ==
    /\ Starts(r, "process")
    /\ IF Source(r) = NoFile
       THEN Raises(r, "invalid")
       ELSE /\ Continue(r, "loaded", [work[r] EXCEPT !.content = Source(r)])
            /\ UNCHANGED writes
    /\ UNCHANGED <<objects, clock>>

(* ParsedTraceStore._get_model.                                            *)
SelectSnapshot(r) ==
    /\ IsAt(r, "process", "loaded")
    /\ Continue(r, "selected", [work[r] EXCEPT !.row = {p \in parsed : p.key = Key(command[r])}])
    /\ UNCHANGED <<writes, objects, clock>>

(* The JSON document of a snapshot and its summary columns.                *)
Columns(content) == [document |-> content, summary |-> SummaryOf[content]]

(* The session writes the columns that differ from those it has loaded.    *)
Assigned(r, row) ==
    {column \in {"document", "summary"} :
        Columns(work[r].content)[column] # row.columns[column]}

(* ParsedTraceStore.save.                                                  *)
SaveSnapshot(r) ==
    /\ IsAt(r, "process", "selected")
    /\ LET key == Key(command[r])
       IN  IF work[r].row = {}
           THEN Insert(r, "inserted", parsed,
                       [key |-> key, columns |-> Columns(work[r].content), by |-> r], "handled")
           ELSE \E row \in work[r].row :
                   IF Assigned(r, row) = {}
                   THEN Returns(r)
                   ELSE /\ ~Blocked(r, "updated", key)
                        /\ Continue(r, "handled", [work[r] EXCEPT !.outcome = "ok"])
                        /\ writes' = [writes EXCEPT ![r].updated =
                                         {[key |-> key, columns |-> Assigned(r, row)]}]
    /\ UNCHANGED <<objects, clock>>

Handle(r) ==
    /\ \/ Refuse(r)
       \/ LookUp(r) \/ AddTrace(r) \/ GetTrace(r) \/ ListPage(r)
       \/ Inspect(r) \/ CopyContent(r) \/ PlaceObject(r) \/ AddArtifact(r) \/ AddMessage(r)
       \/ LoadAndParse(r) \/ SelectSnapshot(r) \/ SaveSnapshot(r)
    /\ UNCHANGED <<command, commitsFirst, file, tables, answer, replaced, incidents>>

-----------------------------------------------------------------------------
(* The end of the session, and of the request.                             *)

(* The rows that the session of r has flushed become visible together.     *)
Apply(r) ==
    /\ traces' = traces \cup writes[r].traces
    /\ artifacts' = artifacts \cup writes[r].artifacts
    /\ outbox' = outbox \cup writes[r].outbox
    /\ parsed' = {IF \E u \in writes[r].updated : u.key = p.key
                  THEN [p EXCEPT !.by = r, !.columns = [column \in DOMAIN @ |->
                           IF \E u \in writes[r].updated : column \in u.columns
                           THEN Columns(work[r].content)[column] ELSE @[column]]]
                  ELSE p : p \in parsed} \cup writes[r].inserted

Ends(r, s, outcome) ==
    /\ stage' = [stage EXCEPT ![r] = s]
    /\ answer' = [answer EXCEPT ![r] = outcome]
    /\ work' = [work EXCEPT ![r].row = {}, ![r].copy = NoContent, ![r].created = 0,
                            ![r].offset = 0]
    /\ UNCHANGED <<command, commitsFirst, storage, clock, replaced>>

IsReadyToCommit(r) == stage[r] = IF commitsFirst THEN "handled" ELSE "answered"

Commit(r) ==
    /\ IsReadyToCommit(r)
    /\ Apply(r)
    /\ writes' = [writes EXCEPT ![r] = NoWrites]
    /\ Ends(r, IF commitsFirst THEN "committed" ELSE "done", answer[r])
    /\ UNCHANGED incidents

(* Something goes wrong, as often as the bound allows.                     *)
Incident == incidents < MaxIncidents /\ incidents' = incidents + 1

(* The connection is lost in the commit, which may have taken effect.      *)
CommitFails(r) ==
    /\ IsReadyToCommit(r)
    /\ Incident
    /\ Apply(r) \/ UNCHANGED tables
    /\ writes' = [writes EXCEPT ![r] = NoWrites]
    /\ Ends(r, "done", IF commitsFirst THEN "failed" ELSE answer[r])

Respond(r) ==
    /\ stage[r] = IF commitsFirst THEN "committed" ELSE "handled"
    /\ Ends(r, IF commitsFirst THEN "done" ELSE "answered", "ok")
    /\ UNCHANGED <<tables, writes, incidents>>

\* Variant: the session of a failed request stays open.
Rollback_StaysOpen(r) ==
    /\ stage[r] = "raised"
    /\ Ends(r, "done", work[r].outcome)
    /\ UNCHANGED <<tables, writes, incidents>>

Rollback(r) ==
    /\ stage[r] = "raised"
    /\ writes' = [writes EXCEPT ![r] = NoWrites]
    /\ Ends(r, "done", work[r].outcome)
    /\ UNCHANGED <<tables, incidents>>

-----------------------------------------------------------------------------
(* Faults.                                                                 *)

(* A statement or the storage fails while the handler waits for it.        *)
Fails(r) ==
    /\ stage[r] \in {"waiting", "absent", "paging", "inspected", "copied", "stored", "recorded",
                   "loaded", "selected"}
    /\ Incident
    /\ Raises(r, "failed")
    /\ UNCHANGED <<command, commitsFirst, storage, tables, answer, clock, replaced>>

(* The process ends: the connections to its clients and to the database    *)
(* are closed.  Requests that have not arrived meet its successor.         *)
Crash ==
    /\ Incident
    /\ \E r \in Requests : stage[r] \in Open
    /\ stage' = [r \in Requests |-> IF stage[r] \in Open THEN "done" ELSE stage[r]]
    /\ writes' = [r \in Requests |-> NoWrites]
    /\ UNCHANGED <<command, commitsFirst, storage, tables, work, answer, clock,
                   replaced>>

(* Somebody replaces a file that a request is going to read, by a rename,  *)
(* or removes it.                                                          *)
IsToBeRead(f) ==
    \E r \in Requests :
        /\ command[r].kind \in {"submit", "process"} /\ command[r].file = f
        /\ stage[r] \in {"waiting", "inspected"}

ReplaceFile ==
    /\ Incident
    /\ \E f \in {g \in Files : IsToBeRead(g)} : \E content \in (Contents \cup {NoFile}) \ {file[f]} :
          /\ file' = [file EXCEPT ![f] = content]
          /\ replaced' = replaced \cup {r \in Requests : IsAt(r, "submit", "inspected")
                                                        /\ command[r].file = f}
    /\ UNCHANGED <<command, commitsFirst, objects, tables, stage, work, writes, answer, clock>>

-----------------------------------------------------------------------------
Proceed(r) == Handle(r) \/ Commit(r) \/ Respond(r) \/ Rollback(r)

Next ==
    \/ \E r \in Requests : Proceed(r) \/ CommitFails(r) \/ Fails(r)
    \/ Crash
    \/ ReplaceFile

(* The event loop and the database serve every request.                    *)
Fairness == \A r \in Requests : WF_vars(Proceed(r))

Spec == Init /\ [][Next]_vars /\ Fairness

-----------------------------------------------------------------------------
(* Properties.                                                             *)

IsStored(r) ==
    CASE command[r].kind = "create" -> \E t \in traces : t.by = r
      [] command[r].kind = "submit" -> \E a \in artifacts : a.by = r
      [] command[r].kind = "process" -> \E p \in parsed : p.key = Key(command[r])
      [] OTHER -> TRUE

IsTaken(r) ==
    CASE command[r].kind = "create" -> \E t \in traces : t.key = Key(command[r]) /\ t.by # r
      [] command[r].kind = "submit" ->
            \E a \in artifacts : a.key = <<command[r].tenant, work[r].content>> /\ a.by # r
      [] OTHER -> \E p \in parsed : p.key = Key(command[r])

(* What clients are told is what the database holds: a creation or a       *)
(* submission that is turned down because of another one leaves nothing,   *)
(* and the other one is committed, not under way; what is accepted is      *)
(* stored if the session commits before the response.  A commit that fails *)
(* leaves it open what "failed" means.                                     *)
AnswersAreTrue ==
    \A r \in Requests : stage[r] = "done" =>
        /\ answer[r] \in {"conflict", "duplicate"} => IsTaken(r)
        /\ answer[r] \in {"conflict", "duplicate", "missing", "invalid"} =>
              /\ \A t \in traces : t.by # r
              /\ \A a \in artifacts : a.by # r
        /\ answer[r] = "ok" /\ commitsFirst => IsStored(r)

(* Racing requests never store a trace, a snapshot or a tenant's content   *)
(* twice: the check before the insert cannot see that, the wait for the    *)
(* other session and the unique constraint together do.                    *)
OneRowPerKey ==
    \A rows \in {traces, artifacts, parsed} :
        \A x, y \in rows : x.key = y.key => x = y

(* Whatever fails and wherever, the artifacts that are recorded are those  *)
(* that are announced, each once, and each has its object: the content     *)
(* that was hashed, unless the file was replaced between the hash and the  *)
(* copy, and no later submission of the path touches it.                   *)
ArtifactsAreWhole ==
    /\ {m.artifact : m \in outbox} = {a.by : a \in artifacts}
    /\ \A m \in outbox : \E a \in artifacts : a.by = m.artifact /\ a.trace = m.trace
    /\ \A a \in artifacts :
          /\ a.storage \in DOMAIN objects
          /\ a.by \notin replaced => objects[a.storage] = a.hash

(* A client that pages through the traces gets every trace that was        *)
(* committed when it began, whatever is created meanwhile.  No two traces  *)
(* are created at the same microsecond here: the query has no order for    *)
(* them.                                                                   *)
PagingMissesNothing ==
    \A r \in Requests :
        command[r].kind = "list" /\ answer[r] = "ok" => work[r].expected \subseteq work[r].seen

(* Every request ends: no request waits for good for the session of        *)
(* another one.                                                            *)
EveryRequestEnds == \A r \in Requests : stage[r] = "waiting" ~> stage[r] = "done"

(* The summary columns of a stored snapshot, which queries filter by, are  *)
(* those of its JSON document.                                             *)
SummaryDescribesDocument ==
    \A p \in parsed : p.columns.summary = SummaryOf[p.columns.document]
=============================================================================
