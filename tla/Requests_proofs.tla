-------------------------- MODULE Requests_proofs --------------------------
(***************************************************************************)
(* Proofs about Requests, for any requests, commands and files and any     *)
(* number of failures, crashes and changes of files.                       *)
(*                                                                         *)
(* The argument: what a session has flushed belongs to its request, meets  *)
(* no committed row and no row of another session, and is there in full    *)
(* when the handler has returned.  So a commit keeps the keys unique, and  *)
(* brings an artifact together with its message, after its object.         *)
(***************************************************************************)
EXTENDS Requests, FiniteSetTheorems, WellFoundedInduction, TLAPS

IsKind(r, kind) == command[r].kind = kind

WorkFields ==
    {"content", "copy", "created", "row", "offset", "seen", "expected", "outcome"}

WriteTables == {"traces", "artifacts", "outbox", "inserted", "updated"}

(* Shapes of the local variables and of what was flushed.                  *)
Shapes ==
    /\ command \in Workloads
    /\ DOMAIN work = Requests /\ DOMAIN writes = Requests
    /\ \A r \in Requests : DOMAIN work[r] = WorkFields /\ DOMAIN writes[r] = WriteTables
    /\ \A p \in parsed : DOMAIN p = {"key", "columns", "by"}

(* A handler flushes nothing before its insert, and nothing is left when   *)
(* its session has ended.                                                  *)
NothingFlushed(r) ==
    stage[r] \notin {"recorded", "handled", "answered", "raised"} => writes[r] = NoWrites

(* A session flushes rows of its own request only, one of a kind.          *)
FlushesItsOwn(r) ==
    /\ \A x \in writes[r].traces :
          IsKind(r, "create") /\ x.key = Key(command[r]) /\ x.by = r
    /\ \A x, y \in writes[r].traces : x = y
    /\ \A x \in writes[r].artifacts : IsKind(r, "submit") /\ x = ArtifactRow(r)
    /\ \A x \in writes[r].outbox :
          IsKind(r, "submit") /\ x = [artifact |-> r, trace |-> command[r].trace]
    /\ \A x \in writes[r].inserted :
          /\ IsKind(r, "process") /\ x.key = Key(command[r])
          /\ DOMAIN x = {"key", "columns", "by"}
    /\ \A x, y \in writes[r].inserted : x = y

HasSnapshot(r) == \E p \in parsed : p.key = Key(command[r])

(* When the handler has returned, everything it writes is flushed.         *)
FlushedInFull(r) ==
    /\ stage[r] \in {"handled", "answered"} =>
          /\ IsKind(r, "create") => writes[r].traces # {}
          /\ IsKind(r, "submit") => writes[r].artifacts # {} /\ writes[r].outbox # {}
          /\ IsKind(r, "process") => writes[r].inserted # {} \/ HasSnapshot(r)
    /\ stage[r] = "recorded" /\ IsKind(r, "submit") => writes[r].artifacts # {}
    /\ stage[r] = "selected" /\ IsKind(r, "process") /\ work[r].row # {} => HasSnapshot(r)

(* The way of a file into the object storage.                              *)
ObjectFollowsFile(r) ==
    IsKind(r, "submit") =>
        /\ stage[r] = "inspected" =>
              r \in replaced \/ Source(r) = work[r].content
        /\ stage[r] = "copied" =>
              /\ work[r].copy \in Contents
              /\ r \in replaced \/ work[r].copy = work[r].content
        /\ stage[r] \in {"stored", "recorded", "handled", "answered"} =>
              /\ StorageKey(r) \in DOMAIN objects
              /\ r \in replaced \/ objects[StorageKey(r)] = work[r].content

Refusals == {"conflict", "duplicate", "missing", "invalid"}

(* What a request is told, or is about to be told.                         *)
AnswerIsTrue(r) ==
    /\ stage[r] = "raised" =>
          /\ work[r].outcome \in Refusals \cup {"failed"}
          /\ work[r].outcome \in {"conflict", "duplicate"} => IsTaken(r)
    /\ stage[r] = "answered" => ~commitsFirst /\ answer[r] = "ok"
    /\ stage[r] = "committed" => commitsFirst /\ IsStored(r)
    /\ stage[r] = "done" =>
          /\ answer[r] \in {"conflict", "duplicate"} => IsTaken(r)
          /\ answer[r] = "ok" /\ commitsFirst => IsStored(r)

Local(r) ==
    /\ NothingFlushed(r)
    /\ FlushesItsOwn(r)
    /\ FlushedInFull(r)
    /\ ObjectFollowsFile(r)
    /\ AnswerIsTrue(r)

(* A flushed row has the key of no committed row and of no other flushed   *)
(* one.                                                                    *)
KeysAreFree ==
    \A r \in Requests :
        /\ \A x \in writes[r].traces :
              /\ \A t \in traces : t.key # x.key
              /\ \A q \in Requests \ {r} : \A y \in writes[q].traces : y.key # x.key
        /\ \A x \in writes[r].artifacts :
              /\ \A t \in artifacts : t.key # x.key
              /\ \A q \in Requests \ {r} : \A y \in writes[q].artifacts : y.key # x.key
        /\ \A x \in writes[r].inserted :
              /\ \A t \in parsed : t.key # x.key
              /\ \A q \in Requests \ {r} : \A y \in writes[q].inserted : y.key # x.key

(* Who has committed a row has not been turned down.                       *)
HasCommitted(r) ==
    /\ r \in Requests
    /\ stage[r] \in {"committed", "done"}
    /\ answer[r] \notin Refusals

RowsAreOfCommitted ==
    /\ \A t \in traces : HasCommitted(t.by)
    /\ \A a \in artifacts : HasCommitted(a.by) /\ a.storage = StorageKey(a.by)

(* The inductive invariant.                                                *)
RequestsInv ==
    /\ TypeOK
    /\ Shapes
    /\ \A r \in Requests : Local(r)
    /\ KeysAreFree
    /\ RowsAreOfCommitted
    /\ OneRowPerKey
    /\ ArtifactsAreWhole


-----------------------------------------------------------------------------
(* Frames.                                                                 *)

(* A step that concerns request r: the others keep their local state, no   *)
(* row is deleted, and no object but that of r is written.                 *)
StepOf(r) ==
    /\ UNCHANGED <<command, commitsFirst, file, replaced>>
    /\ \A q \in Requests \ {r} :
          /\ stage'[q] = stage[q] /\ work'[q] = work[q]
          /\ writes'[q] = writes[q] /\ answer'[q] = answer[q]
    /\ traces \subseteq traces' /\ artifacts \subseteq artifacts'
    /\ \A p \in parsed : \E n \in parsed' : n.key = p.key
    /\ \A key \in DOMAIN objects : key # StorageKey(r) =>
          key \in DOMAIN objects' /\ objects'[key] = objects[key]

(* Requests have objects of their own: the key holds the artifact's id.    *)
LEMMA StorageKeysDiffer ==
    ASSUME NEW r, NEW q, r # q
    PROVE  StorageKey(r) # StorageKey(q)
  BY DEF StorageKey

(* A conflict stays one, because no row is deleted.                        *)
LEMMA TakenStays ==
    ASSUME NEW r, NEW q, StepOf(r), work'[q].content = work[q].content, IsTaken(q)
    PROVE  IsTaken(q)'
  <1>1. CASE command[q].kind = "create"
    BY <1>1 DEF StepOf, IsTaken, Key
  <1>2. CASE command[q].kind = "submit"
    BY <1>2 DEF StepOf, IsTaken
  <1>3. CASE command[q].kind \notin {"create", "submit"}
    BY <1>3 DEF StepOf, IsTaken, Key
  <1>. QED
    BY <1>1, <1>2, <1>3

(* What is stored stays stored.                                            *)
LEMMA StoredStays ==
    ASSUME NEW r, NEW q, StepOf(r), IsStored(q)
    PROVE  IsStored(q)'
  <1>1. CASE command[q].kind = "create"
    BY <1>1 DEF StepOf, IsStored
  <1>2. CASE command[q].kind = "submit"
    BY <1>2 DEF StepOf, IsStored
  <1>3. CASE command[q].kind = "process"
    BY <1>3 DEF StepOf, IsStored, Key
  <1>4. CASE command[q].kind \notin {"create", "submit", "process"}
    BY <1>4 DEF StepOf, IsStored
  <1>. QED
    BY <1>1, <1>2, <1>3, <1>4

(* What holds of the other requests still does.                            *)
LEMMA OthersKeep ==
    ASSUME RequestsInv, NEW r \in Requests, StepOf(r), NEW q \in Requests, q # r
    PROVE  Local(q)'
  <1>1. /\ stage'[q] = stage[q] /\ work'[q] = work[q]
        /\ writes'[q] = writes[q] /\ answer'[q] = answer[q]
        /\ UNCHANGED <<command, commitsFirst, file, replaced>>
        /\ Local(q)
    BY DEF StepOf, RequestsInv
  <1>2. NothingFlushed(q)' /\ FlushesItsOwn(q)'
    BY <1>1 DEF Local, NothingFlushed, FlushesItsOwn, IsKind, Key, ArtifactRow, StorageKey
  <1>3. FlushedInFull(q)'
    <2>1. HasSnapshot(q) => HasSnapshot(q)'
      BY DEF HasSnapshot, StepOf, Key
    <2>. QED
      BY <1>1, <2>1 DEF Local, FlushedInFull, IsKind
  <1>4. ObjectFollowsFile(q)'
    <2>1. StorageKey(q) # StorageKey(r) /\ StorageKey(q)' = StorageKey(q)
      BY <1>1, StorageKeysDiffer DEF StorageKey
    <2>2. StorageKey(q) \in DOMAIN objects =>
             /\ StorageKey(q) \in DOMAIN objects'
             /\ objects'[StorageKey(q)] = objects[StorageKey(q)]
      BY <2>1 DEF StepOf
    <2>. QED
      BY <1>1, <2>1, <2>2 DEF Local, ObjectFollowsFile, IsKind, Source
  <1>5. AnswerIsTrue(q)'
    BY <1>1, TakenStays, StoredStays DEF Local, AnswerIsTrue
  <1>. QED
    BY <1>2, <1>3, <1>4, <1>5 DEF Local

(* A step of a handler leaves the committed rows alone.                    *)
LEMMA RowsKeep ==
    ASSUME RequestsInv, NEW r \in Requests, StepOf(r), UNCHANGED <<tables, answer>>,
           stage[r] \notin {"committed", "done"}
    PROVE  RowsAreOfCommitted' /\ OneRowPerKey' /\ ArtifactsAreWhole'
  <1>1. RowsAreOfCommitted'
    <2>1. ASSUME NEW q, HasCommitted(q)
          PROVE  HasCommitted(q)'
      BY <2>1 DEF HasCommitted, StepOf
    <2>. QED
      BY <2>1 DEF RequestsInv, RowsAreOfCommitted, tables, StepOf, StorageKey
  <1>2. OneRowPerKey'
    BY DEF RequestsInv, OneRowPerKey, tables
  <1>3. ArtifactsAreWhole'
    <2>1. ASSUME NEW a \in artifacts
          PROVE  a.storage # StorageKey(r)
      BY StorageKeysDiffer DEF RequestsInv, RowsAreOfCommitted, HasCommitted
    <2>. QED
      BY <2>1 DEF RequestsInv, ArtifactsAreWhole, tables, StepOf
  <1>. QED
    BY <1>1, <1>2, <1>3

(* What every step of a handler has in common: it goes on, with local      *)
(* variables w, and neither its answer nor a table is touched.             *)
Steps(r, s, w) ==
    /\ stage[r] \notin {"answered", "committed", "done"}
    /\ s \in Open \ {"answered", "committed"}
    /\ Continue(r, s, w)
    /\ DOMAIN w = WorkFields
    /\ UNCHANGED <<command, commitsFirst, file, tables, answer, replaced>>
    /\ clock' \in Nat /\ incidents' \in Nat

(* It suffices to look at the request itself, what it flushes and what it  *)
(* writes to the object storage.                                           *)
LEMMA HandlerStep ==
    ASSUME RequestsInv, NEW r \in Requests, NEW s, NEW w, Steps(r, s, w),
           DOMAIN writes' = Requests, DOMAIN writes'[r] = WriteTables,
           \A q \in Requests \ {r} : writes'[q] = writes[q],
           \A key \in DOMAIN objects : key # StorageKey(r) =>
              key \in DOMAIN objects' /\ objects'[key] = objects[key],
           \A key \in DOMAIN objects' : objects'[key] \in Contents,
           Local(r)', KeysAreFree'
    PROVE  RequestsInv'
  <1>1. /\ stage'[r] = s /\ work'[r] = w /\ s \in Stages
        /\ \A q \in Requests \ {r} : stage'[q] = stage[q] /\ work'[q] = work[q]
        /\ stage' \in [Requests -> Stages]
        /\ DOMAIN work' = Requests
    BY DEF RequestsInv, TypeOK, Shapes, Steps, Continue, Open
  <1>2. StepOf(r)
    BY <1>1 DEF StepOf, Steps, tables
  <1>3. \A q \in Requests : Local(q)'
    BY <1>2, OthersKeep
  <1>4. RowsAreOfCommitted' /\ OneRowPerKey' /\ ArtifactsAreWhole'
    BY <1>2, RowsKeep DEF Steps
  <1>5. Shapes'
    BY <1>1 DEF RequestsInv, Shapes, Steps, tables
  <1>6. TypeOK'
    <2>1. ASSUME NEW q \in Requests
          PROVE  /\ stage'[q] \notin Open => writes'[q] = NoWrites
                 /\ answer'[q] # "none" => stage'[q] \in {"answered", "done"}
      <3>1. stage'[q] \notin Open => writes'[q] = NoWrites
        BY <1>1, <1>3 DEF Local, NothingFlushed, Open
      <3>2. answer'[q] # "none" => stage'[q] \in {"answered", "done"}
        BY <1>1 DEF RequestsInv, TypeOK, Steps
      <3>. QED
        BY <3>1, <3>2
    <2>. QED
      BY <1>1, <2>1 DEF RequestsInv, TypeOK, Steps
  <1>. QED
    BY <1>3, <1>4, <1>5, <1>6 DEF RequestsInv

(* Without a flush the keys stay free.                                     *)
LEMMA KeysKeep ==
    ASSUME RequestsInv, UNCHANGED <<tables, writes>>
    PROVE  KeysAreFree'
  BY DEF RequestsInv, KeysAreFree, tables

(* An exception: what was flushed waits for the rollback.                  *)
LEMMA RaisesStep ==
    ASSUME RequestsInv, NEW r \in Requests, NEW outcome, Raises(r, outcome),
           stage[r] \notin {"answered", "committed", "done"},
           outcome \in Refusals \cup {"failed"},
           outcome \in {"conflict", "duplicate"} => IsTaken(r),
           UNCHANGED <<command, commitsFirst, file, objects, tables, answer, replaced>>,
           clock' \in Nat, incidents' \in Nat
    PROVE  RequestsInv'
  <1> DEFINE w == [work[r] EXCEPT !.outcome = outcome]
  <1>1. DOMAIN work[r] = WorkFields /\ DOMAIN writes[r] = WriteTables
    BY DEF RequestsInv, Shapes
  <1>2. /\ DOMAIN w = WorkFields
        /\ w.outcome = outcome /\ w.content = work[r].content
    BY <1>1 DEF WorkFields
  <1>3. Continue(r, "raised", w) /\ writes' = writes
    BY DEF Raises
  <1> HIDE DEF w
  <1>4. stage'[r] = "raised" /\ work'[r] = w
    BY <1>3 DEF RequestsInv, TypeOK, Shapes, Continue
  <1>5. Steps(r, "raised", w)
    BY <1>2, <1>3 DEF Steps, Open, Stages
  <1>6. Local(r)
    BY DEF RequestsInv
  <1>7. NothingFlushed(r)' /\ FlushesItsOwn(r)'
    BY <1>2, <1>3, <1>4, <1>6
    DEF Local, NothingFlushed, FlushesItsOwn, IsKind, Key, ArtifactRow, StorageKey
  <1>8. FlushedInFull(r)' /\ ObjectFollowsFile(r)'
    BY <1>4 DEF FlushedInFull, ObjectFollowsFile
  <1>9. AnswerIsTrue(r)'
    <2>1. IsTaken(r) => IsTaken(r)'
      BY <1>2, <1>4 DEF IsTaken, Key, tables
    <2>. QED
      BY <1>2, <1>4, <2>1 DEF AnswerIsTrue
  <1>10. Local(r)' /\ KeysAreFree'
    BY <1>3, <1>7, <1>8, <1>9, KeysKeep DEF Local
  <1>. QED
    BY <1>1, <1>3, <1>5, <1>10, HandlerStep DEF RequestsInv, TypeOK, Shapes

(* A step that flushes nothing, before anything was flushed.               *)
LEMMA QuietStep ==
    ASSUME RequestsInv, NEW r \in Requests, NEW s, NEW w, Steps(r, s, w),
           stage[r] \notin {"recorded", "handled", "raised"},
           s # "raised",
           writes' = writes, UNCHANGED objects,
           FlushedInFull(r)', ObjectFollowsFile(r)'
    PROVE  RequestsInv'
  <1>1. stage'[r] = s /\ writes'[r] = NoWrites
    BY DEF RequestsInv, Local, NothingFlushed, TypeOK, Shapes, Steps, Continue
  <1>2. NothingFlushed(r)' /\ FlushesItsOwn(r)'
    BY <1>1 DEF NothingFlushed, FlushesItsOwn, NoWrites
  <1>3. AnswerIsTrue(r)'
    BY <1>1 DEF AnswerIsTrue, Steps, Open
  <1>4. Local(r)' /\ KeysAreFree'
    BY <1>2, <1>3, KeysKeep DEF Local, Steps
  <1>. QED
    BY <1>4, HandlerStep DEF RequestsInv, TypeOK, Shapes

-----------------------------------------------------------------------------
(* The handlers.                                                           *)

(* What Handle adds to each of its steps.                                  *)
HandleFrame(r) == UNCHANGED <<command, commitsFirst, file, tables, answer, replaced, incidents>>

(* A handler ends without having written anything.                         *)
LEMMA ReturnsStep ==
    ASSUME RequestsInv, NEW r \in Requests, Returns(r), HandleFrame(r),
           UNCHANGED <<objects, clock>>,
           \/ stage[r] = "waiting" /\ ~IsKind(r, "create") /\ ~IsKind(r, "submit")
                                   /\ ~IsKind(r, "process")
           \/ stage[r] = "paging" /\ IsKind(r, "list")
           \/ stage[r] = "selected" /\ IsKind(r, "process") /\ work[r].row # {}
    PROVE  RequestsInv'
  <1> DEFINE w == [work[r] EXCEPT !.outcome = "ok"]
  <1>1. Continue(r, "handled", w) /\ writes' = writes
    BY DEF Returns
  <1>2. DOMAIN w = WorkFields
    BY DEF RequestsInv, Shapes, WorkFields
  <1> HIDE DEF w
  <1>3. Steps(r, "handled", w)
    BY <1>1, <1>2 DEF Steps, Open, Stages, HandleFrame, RequestsInv, TypeOK
  <1>4. stage'[r] = "handled"
    BY <1>1 DEF RequestsInv, TypeOK, Continue
  <1>5. FlushedInFull(r)'
    BY <1>4 DEF FlushedInFull, IsKind, HasSnapshot, Key, tables, HandleFrame,
                RequestsInv, Local
  <1>6. ObjectFollowsFile(r)'
    BY DEF ObjectFollowsFile, IsKind, HandleFrame
  <1>. QED
    BY <1>1, <1>3, <1>5, <1>6, QuietStep

(* CreateTrace: the lookup; a conflict is with a committed trace of        *)
(* another request.                                                        *)
LEMMA LookUpStep ==
    ASSUME RequestsInv, NEW r \in Requests, LookUp(r), HandleFrame(r)
    PROVE  RequestsInv'
  <1>1. stage[r] = "waiting" /\ IsKind(r, "create")
    BY DEF LookUp, Starts, IsAt, IsKind
  <1>2. CASE Existing(command[r]) # {}
    <2>1. Raises(r, "conflict") /\ UNCHANGED <<objects, clock>>
      BY <1>2 DEF LookUp
    <2>2. PICK t \in traces : t.key = Key(command[r])
      BY <1>2 DEF Existing
    <2>3. t.by # r
      BY <1>1, <2>2 DEF RequestsInv, RowsAreOfCommitted, HasCommitted
    <2>4. IsTaken(r)
      BY <1>1, <2>2, <2>3 DEF IsTaken, IsKind
    <2>. QED
      BY <1>1, <2>1, <2>4, RaisesStep DEF HandleFrame, Refusals, RequestsInv, TypeOK
  <1>3. CASE Existing(command[r]) = {}
    <2> DEFINE w == [work[r] EXCEPT !.created = clock]
    <2>1. Continue(r, "absent", w) /\ clock' = clock + 1 /\ UNCHANGED <<writes, objects>>
      BY <1>3 DEF LookUp
    <2>2. DOMAIN w = WorkFields
      BY DEF RequestsInv, Shapes, WorkFields
    <2> HIDE DEF w
    <2>3. Steps(r, "absent", w)
      BY <1>1, <2>1, <2>2 DEF Steps, Open, Stages, HandleFrame, RequestsInv, TypeOK
    <2>4. stage'[r] = "absent"
      BY <2>1 DEF RequestsInv, TypeOK, Continue
    <2>5. FlushedInFull(r)' /\ ObjectFollowsFile(r)'
      BY <2>4 DEF FlushedInFull, ObjectFollowsFile
    <2>. QED
      BY <1>1, <2>1, <2>3, <2>5, QuietStep
  <1>. QED
    BY <1>2, <1>3

(* GetTrace.                                                               *)
LEMMA GetTraceStep ==
    ASSUME RequestsInv, NEW r \in Requests, GetTrace(r), HandleFrame(r)
    PROVE  RequestsInv'
  <1>1. stage[r] = "waiting" /\ IsKind(r, "get")
    BY DEF GetTrace, Starts, IsAt, IsKind
  <1>2. UNCHANGED <<objects, clock>>
    BY DEF GetTrace
  <1>3. CASE Returns(r)
    BY <1>1, <1>2, <1>3, ReturnsStep DEF IsKind
  <1>4. CASE Raises(r, "missing")
    BY <1>1, <1>2, <1>4, RaisesStep DEF HandleFrame, Refusals, RequestsInv, TypeOK
  <1>. QED
    BY <1>3, <1>4 DEF GetTrace

(* ListTraces: a page or the end of the listing.                           *)
LEMMA ListPageStep ==
    ASSUME RequestsInv, NEW r \in Requests, ListPage(r), HandleFrame(r)
    PROVE  RequestsInv'
  <1>1. stage[r] \in {"waiting", "paging"} /\ IsKind(r, "list")
    BY DEF ListPage, Starts, IsAt, IsKind
  <1>2. UNCHANGED <<objects, clock>>
    BY DEF ListPage
  <1>3. CASE Returns(r)
    BY <1>1, <1>2, <1>3, ReturnsStep DEF IsKind
  <1>4. CASE Raises(r, "invalid")
    BY <1>1, <1>2, <1>4, RaisesStep DEF HandleFrame, Refusals, RequestsInv, TypeOK
  <1>5. ASSUME NEW o, NEW s, NEW e, writes' = writes,
               Continue(r, "paging", [work[r] EXCEPT !.offset = o, !.seen = s, !.expected = e])
        PROVE  RequestsInv'
    <2> DEFINE w == [work[r] EXCEPT !.offset = o, !.seen = s, !.expected = e]
    <2>1. Continue(r, "paging", w)
      BY <1>5
    <2>2. DOMAIN w = WorkFields
      BY DEF RequestsInv, Shapes, WorkFields
    <2> HIDE DEF w
    <2>3. Steps(r, "paging", w)
      BY <1>1, <1>2, <2>1, <2>2 DEF Steps, Open, Stages, HandleFrame, RequestsInv, TypeOK
    <2>4. stage'[r] = "paging"
      BY <2>1 DEF RequestsInv, TypeOK, Continue
    <2>5. FlushedInFull(r)' /\ ObjectFollowsFile(r)'
      BY <2>4 DEF FlushedInFull, ObjectFollowsFile
    <2>. QED
      BY <1>1, <1>2, <1>5, <2>3, <2>5, QuietStep
  <1>6. \/ Returns(r) \/ Raises(r, "invalid")
        \/ \E o, s, e : /\ writes' = writes
                        /\ Continue(r, "paging",
                              [work[r] EXCEPT !.offset = o, !.seen = s, !.expected = e])
    <2> DEFINE page == Page(Rows(r), work[r].offset, command[r].limit)
    <2>1. CASE command[r].limit \notin 1 .. MaxLimit
      BY <2>1 DEF ListPage
    <2>2. CASE command[r].limit \in 1 .. MaxLimit /\ page = {}
      BY <2>2 DEF ListPage
    <2>3. CASE command[r].limit \in 1 .. MaxLimit /\ page # {}
      <3>1. /\ writes' = writes
            /\ Continue(r, "paging", [work[r] EXCEPT
                                !.offset = @ + Cardinality(page),
                                !.seen = @ \cup page,
                                !.expected = IF stage[r] = "paging" THEN @ ELSE Rows(r)])
        BY <2>3 DEF ListPage
      <3>. QED
        BY <3>1, Zenon
    <2>. QED
      BY <2>1, <2>2, <2>3
  <1>. QED
    BY <1>3, <1>4, <1>5, <1>6

(* SubmitTrace: the hash of the file.                                      *)
LEMMA InspectStep ==
    ASSUME RequestsInv, NEW r \in Requests, Inspect(r), HandleFrame(r)
    PROVE  RequestsInv'
  <1>1. stage[r] = "waiting" /\ IsKind(r, "submit")
    BY DEF Inspect, Starts, IsAt, IsKind
  <1>2. UNCHANGED <<objects, clock>>
    BY DEF Inspect
  <1>3. CASE Source(r) = NoFile
    BY <1>1, <1>2, <1>3, RaisesStep DEF Inspect, HandleFrame, RequestsInv, TypeOK
  <1>4. CASE Source(r) # NoFile
    <2> DEFINE w == [work[r] EXCEPT !.content = Source(r)]
    <2>1. Continue(r, "inspected", w) /\ writes' = writes
      BY <1>4 DEF Inspect
    <2>2. DOMAIN w = WorkFields /\ w.content = Source(r)
      BY DEF RequestsInv, Shapes, WorkFields
    <2> HIDE DEF w
    <2>3. Steps(r, "inspected", w)
      BY <1>1, <1>2, <2>1, <2>2 DEF Steps, Open, Stages, HandleFrame, RequestsInv, TypeOK
    <2>4. stage'[r] = "inspected" /\ work'[r] = w
      BY <2>1 DEF RequestsInv, TypeOK, Shapes, Continue
    <2>5. FlushedInFull(r)' /\ ObjectFollowsFile(r)'
      BY <2>2, <2>4 DEF FlushedInFull, ObjectFollowsFile, Source, HandleFrame
    <2>. QED
      BY <1>1, <1>2, <2>1, <2>3, <2>5, QuietStep
  <1>. QED
    BY <1>3, <1>4

(* The file is opened again; it holds what was hashed, unless it was       *)
(* replaced.                                                               *)
LEMMA CopyContentStep ==
    ASSUME RequestsInv, NEW r \in Requests, CopyContent(r), HandleFrame(r)
    PROVE  RequestsInv'
  <1>1. stage[r] = "inspected" /\ IsKind(r, "submit")
    BY DEF CopyContent, IsAt, IsKind
  <1>2. UNCHANGED <<objects, clock>>
    BY DEF CopyContent
  <1>3. CASE Source(r) = NoFile
    BY <1>1, <1>2, <1>3, RaisesStep DEF CopyContent, HandleFrame, RequestsInv, TypeOK
  <1>4. CASE Source(r) # NoFile
    <2> DEFINE w == [work[r] EXCEPT !.copy = Source(r)]
    <2>1. Continue(r, "copied", w) /\ writes' = writes
      BY <1>4 DEF CopyContent
    <2>2. DOMAIN w = WorkFields /\ w.copy = Source(r) /\ w.content = work[r].content
      BY DEF RequestsInv, Shapes, WorkFields
    <2>3. Source(r) \in Contents
      <3>1. command[r].file \in Files
        BY <1>1, RequestsAssumption DEF RequestsInv, Shapes, IsKind
      <3>. QED
        BY <1>4, <3>1 DEF RequestsInv, TypeOK, Source
    <2> HIDE DEF w
    <2>4. Steps(r, "copied", w)
      BY <1>1, <1>2, <2>1, <2>2 DEF Steps, Open, Stages, HandleFrame, RequestsInv, TypeOK
    <2>5. stage'[r] = "copied" /\ work'[r] = w
      BY <2>1 DEF RequestsInv, TypeOK, Shapes, Continue
    <2>6. FlushedInFull(r)'
      BY <2>5 DEF FlushedInFull
    <2>7. ObjectFollowsFile(r)'
      BY <1>1, <2>2, <2>3, <2>5
      DEF ObjectFollowsFile, HandleFrame, RequestsInv, Local, IsKind
    <2>. QED
      BY <1>1, <1>2, <2>1, <2>4, <2>6, <2>7, QuietStep
  <1>. QED
    BY <1>3, <1>4

(* The object takes its place, under a key that no other request has.      *)
LEMMA PlaceObjectStep ==
    ASSUME RequestsInv, NEW r \in Requests, PlaceObject(r), HandleFrame(r)
    PROVE  RequestsInv'
  <1>1. stage[r] = "copied" /\ IsKind(r, "submit")
    BY DEF PlaceObject, IsAt, IsKind
  <1>2. /\ objects' = [key \in DOMAIN objects \cup {StorageKey(r)} |->
                          IF key = StorageKey(r) THEN work[r].copy ELSE objects[key]]
        /\ Continue(r, "stored", work[r])
        /\ UNCHANGED <<writes, clock>>
    BY DEF PlaceObject
  <1>3. stage'[r] = "stored" /\ work'[r] = work[r] /\ writes'[r] = NoWrites
    BY <1>1, <1>2 DEF RequestsInv, TypeOK, Shapes, Continue, Local, NothingFlushed
  <1>4. Steps(r, "stored", work[r])
    BY <1>1, <1>2 DEF Steps, Open, Stages, HandleFrame, RequestsInv, TypeOK, Shapes
  <1>5. Local(r)
    BY DEF RequestsInv
  <1>6. work[r].copy \in Contents /\ (r \in replaced \/ work[r].copy = work[r].content)
    BY <1>1, <1>5 DEF Local, ObjectFollowsFile
  <1>7. \A key \in DOMAIN objects : key # StorageKey(r) =>
              key \in DOMAIN objects' /\ objects'[key] = objects[key]
    BY <1>2
  <1>8. \A key \in DOMAIN objects' : objects'[key] \in Contents
    BY <1>2, <1>6 DEF RequestsInv, TypeOK
  <1>9. NothingFlushed(r)' /\ FlushesItsOwn(r)' /\ FlushedInFull(r)' /\ AnswerIsTrue(r)'
    BY <1>3 DEF NothingFlushed, FlushesItsOwn, NoWrites, FlushedInFull, AnswerIsTrue
  <1>10. ObjectFollowsFile(r)'
    <2>1. StorageKey(r)' = StorageKey(r) /\ replaced' = replaced
      BY DEF StorageKey, HandleFrame
    <2>2. StorageKey(r) \in DOMAIN objects' /\ objects'[StorageKey(r)] = work[r].copy
      BY <1>2
    <2>. QED
      BY <1>3, <1>6, <2>1, <2>2 DEF ObjectFollowsFile
  <1>11. Local(r)' /\ KeysAreFree'
    BY <1>2, <1>9, <1>10, KeysKeep DEF Local, HandleFrame
  <1>. QED
    BY <1>2, <1>4, <1>7, <1>8, <1>11, HandlerStep DEF RequestsInv, Shapes

(* A step that flushes rows v.                                             *)
LEMMA FlushStep ==
    ASSUME RequestsInv, NEW r \in Requests, NEW s \in {"recorded", "handled"}, NEW w, NEW v,
           Steps(r, s, w), UNCHANGED objects,
           writes' = [writes EXCEPT ![r] = v], DOMAIN v = WriteTables,
           FlushesItsOwn(r)', FlushedInFull(r)', ObjectFollowsFile(r)', KeysAreFree'
    PROVE  RequestsInv'
  <1>1. stage'[r] = s
    BY DEF RequestsInv, TypeOK, Steps, Continue
  <1>2. /\ DOMAIN writes' = Requests /\ writes'[r] = v
        /\ \A q \in Requests \ {r} : writes'[q] = writes[q]
    BY DEF RequestsInv, Shapes
  <1>3. NothingFlushed(r)' /\ AnswerIsTrue(r)'
    BY <1>1 DEF NothingFlushed, AnswerIsTrue
  <1>. QED
    BY <1>2, <1>3, HandlerStep DEF Local, RequestsInv, TypeOK

(* CreateTrace: the row is flushed if no session, committed or not, has    *)
(* its key.                                                                *)
LEMMA AddTraceStep ==
    ASSUME RequestsInv, NEW r \in Requests, AddTrace(r), HandleFrame(r)
    PROVE  RequestsInv'
  <1> DEFINE row == [key |-> Key(command[r]), tenant |-> command[r].tenant,
                     by |-> r, created |-> work[r].created]
  <1>1. stage[r] = "absent" /\ IsKind(r, "create") /\ UNCHANGED <<objects, clock>>
    BY DEF AddTrace, IsAt, IsKind
  <1>2. Insert(r, "traces", traces, row, "handled")
    BY DEF AddTrace
  <1>3. row.key = Key(command[r]) /\ row.by = r
    OBVIOUS
  <1>4. writes[r] = NoWrites
    BY <1>1 DEF RequestsInv, Local, NothingFlushed
  <1> HIDE DEF row
  <1>5. CASE \E t \in traces : t.key = row.key
    <2>1. Raises(r, "duplicate")
      BY <1>2, <1>5 DEF Insert
    <2>2. IsTaken(r)
      BY <1>1, <1>3, <1>5 DEF IsTaken, IsKind, RequestsInv, RowsAreOfCommitted, HasCommitted
    <2>. QED
      BY <1>1, <2>1, <2>2, RaisesStep DEF HandleFrame, Refusals, RequestsInv, TypeOK
  <1>6. CASE ~\E t \in traces : t.key = row.key
    <2> DEFINE w == [work[r] EXCEPT !.outcome = "ok"]
               v == [NoWrites EXCEPT !.traces = {row}]
    <2>1. Continue(r, "handled", w)
      BY <1>2, <1>6 DEF Insert
    <2>2. writes' = [writes EXCEPT ![r] = v]
      <3>1. writes' = [writes EXCEPT ![r]["traces"] = @ \cup {row}]
        BY <1>2, <1>6 DEF Insert
      <3>2. v = [writes[r] EXCEPT !["traces"] = writes[r]["traces"] \cup {row}]
        BY <1>4 DEF NoWrites
      <3>. QED
        BY <3>1, <3>2
    <2>3. \A q \in Requests \ {r} : \A y \in writes[q].traces : y.key # row.key
      BY <1>2 DEF Insert, Blocked
    <2>4. DOMAIN w = WorkFields
      BY DEF RequestsInv, Shapes, WorkFields
    <2>5. /\ DOMAIN v = WriteTables /\ v.traces = {row}
          /\ v.artifacts = {} /\ v.outbox = {} /\ v.inserted = {}
      BY DEF NoWrites, WriteTables
    <2> HIDE DEF w, v
    <2>6. /\ writes'[r] = v /\ stage'[r] = "handled"
          /\ \A q \in Requests \ {r} : writes'[q] = writes[q]
      BY <2>1, <2>2 DEF RequestsInv, TypeOK, Shapes, Continue
    <2>7. Steps(r, "handled", w)
      BY <1>1, <2>1, <2>4 DEF Steps, Open, Stages, HandleFrame, RequestsInv, TypeOK
    <2>8. FlushesItsOwn(r)'
      BY <1>1, <1>3, <2>5, <2>6 DEF FlushesItsOwn, IsKind, Key, HandleFrame
    <2>9. FlushedInFull(r)' /\ ObjectFollowsFile(r)'
      BY <1>1, <2>5, <2>6 DEF FlushedInFull, ObjectFollowsFile, IsKind, HandleFrame
    <2>10. KeysAreFree'
      BY <1>6, <2>3, <2>5, <2>6 DEF KeysAreFree, HandleFrame, tables, RequestsInv
    <2>. QED
      BY <1>1, <2>2, <2>5, <2>7, <2>8, <2>9, <2>10, FlushStep
  <1>. QED
    BY <1>5, <1>6

(* The artifact's row, if its content is new to the tenant.                *)
LEMMA AddArtifactStep ==
    ASSUME RequestsInv, NEW r \in Requests, AddArtifact(r), HandleFrame(r)
    PROVE  RequestsInv'
  <1> DEFINE row == ArtifactRow(r)
  <1>1. stage[r] = "stored" /\ IsKind(r, "submit") /\ UNCHANGED <<objects, clock>>
    BY DEF AddArtifact, IsAt, IsKind
  <1>2. Insert(r, "artifacts", artifacts, row, "recorded")
    BY DEF AddArtifact
  <1>3. row.key = <<command[r].tenant, work[r].content>> /\ row.by = r
    BY DEF ArtifactRow
  <1>4. writes[r] = NoWrites
    BY <1>1 DEF RequestsInv, Local, NothingFlushed
  <1> HIDE DEF row
  <1>5. CASE \E t \in artifacts : t.key = row.key
    <2>1. Raises(r, "duplicate")
      BY <1>2, <1>5 DEF Insert
    <2>2. IsTaken(r)
      BY <1>1, <1>3, <1>5 DEF IsTaken, IsKind, RequestsInv, RowsAreOfCommitted, HasCommitted
    <2>. QED
      BY <1>1, <2>1, <2>2, RaisesStep DEF HandleFrame, Refusals, RequestsInv, TypeOK
  <1>6. CASE ~\E t \in artifacts : t.key = row.key
    <2> DEFINE w == [work[r] EXCEPT !.outcome = "ok"]
               v == [NoWrites EXCEPT !.artifacts = {row}]
    <2>1. Continue(r, "recorded", w)
      BY <1>2, <1>6 DEF Insert
    <2>2. writes' = [writes EXCEPT ![r] = v]
      <3>1. writes' = [writes EXCEPT ![r]["artifacts"] = @ \cup {row}]
        BY <1>2, <1>6 DEF Insert
      <3>2. v = [writes[r] EXCEPT !["artifacts"] = writes[r]["artifacts"] \cup {row}]
        BY <1>4 DEF NoWrites
      <3>. QED
        BY <3>1, <3>2
    <2>3. \A q \in Requests \ {r} : \A y \in writes[q].artifacts : y.key # row.key
      BY <1>2 DEF Insert, Blocked
    <2>4. DOMAIN w = WorkFields /\ w.content = work[r].content
      BY DEF RequestsInv, Shapes, WorkFields
    <2>5. /\ DOMAIN v = WriteTables /\ v.artifacts = {row}
          /\ v.traces = {} /\ v.outbox = {} /\ v.inserted = {}
      BY DEF NoWrites, WriteTables
    <2> HIDE DEF w, v
    <2>6. /\ writes'[r] = v /\ stage'[r] = "recorded" /\ work'[r] = w
          /\ \A q \in Requests \ {r} : writes'[q] = writes[q]
      BY <2>1, <2>2 DEF RequestsInv, TypeOK, Shapes, Continue
    <2>7. Steps(r, "recorded", w)
      BY <1>1, <2>1, <2>4 DEF Steps, Open, Stages, HandleFrame, RequestsInv, TypeOK
    <2>8. ArtifactRow(r)' = row
      BY <2>4, <2>6 DEF ArtifactRow, StorageKey, HandleFrame, row
    <2>9. FlushesItsOwn(r)'
      BY <1>1, <2>5, <2>6, <2>8 DEF FlushesItsOwn, IsKind, HandleFrame
    <2>10. FlushedInFull(r)'
      BY <2>5, <2>6 DEF FlushedInFull
    <2>11. ObjectFollowsFile(r)'
      BY <1>1, <2>4, <2>6
      DEF ObjectFollowsFile, IsKind, StorageKey, HandleFrame, RequestsInv, Local
    <2>12. KeysAreFree'
      BY <1>6, <2>3, <2>5, <2>6 DEF KeysAreFree, HandleFrame, tables, RequestsInv
    <2>. QED
      BY <1>1, <2>2, <2>5, <2>7, <2>9, <2>10, <2>11, <2>12, FlushStep
  <1>. QED
    BY <1>5, <1>6

(* The message of the artifact joins it in the same session.               *)
LEMMA AddMessageStep ==
    ASSUME RequestsInv, NEW r \in Requests, AddMessage(r), HandleFrame(r)
    PROVE  RequestsInv'
  <1> DEFINE m == [artifact |-> r, trace |-> command[r].trace]
             v == [writes[r] EXCEPT !.outbox = {m}]
  <1>1. stage[r] = "recorded" /\ IsKind(r, "submit") /\ UNCHANGED <<objects, clock>>
    BY DEF AddMessage, IsAt, IsKind
  <1>2. Continue(r, "handled", work[r]) /\ writes' = [writes EXCEPT ![r] = v]
    BY DEF AddMessage
  <1>3. /\ DOMAIN v = WriteTables /\ v.outbox = {m}
        /\ v.traces = writes[r].traces /\ v.artifacts = writes[r].artifacts
        /\ v.inserted = writes[r].inserted
    BY DEF RequestsInv, Shapes, WriteTables
  <1> HIDE DEF v
  <1>4. /\ writes'[r] = v /\ stage'[r] = "handled" /\ work'[r] = work[r]
        /\ \A q \in Requests \ {r} : writes'[q] = writes[q]
    BY <1>2 DEF RequestsInv, TypeOK, Shapes, Continue
  <1>5. Steps(r, "handled", work[r])
    BY <1>1, <1>2 DEF Steps, Open, Stages, HandleFrame, RequestsInv, TypeOK, Shapes
  <1>6. Local(r)
    BY DEF RequestsInv
  <1>7. FlushesItsOwn(r)'
    BY <1>1, <1>3, <1>4, <1>6
    DEF FlushesItsOwn, IsKind, HandleFrame, Local, ArtifactRow, StorageKey, Key
  <1>8. FlushedInFull(r)'
    BY <1>1, <1>3, <1>4, <1>6 DEF FlushedInFull, IsKind, HandleFrame, Local
  <1>9. ObjectFollowsFile(r)'
    BY <1>1, <1>4, <1>6 DEF ObjectFollowsFile, IsKind, StorageKey, HandleFrame, Local
  <1>10. KeysAreFree'
    BY <1>3, <1>4 DEF KeysAreFree, HandleFrame, tables, RequestsInv
  <1>. QED
    BY <1>1, <1>2, <1>3, <1>5, <1>7, <1>8, <1>9, <1>10, FlushStep

(* ProcessTrace: the parse of the file.                                    *)
LEMMA LoadAndParseStep ==
    ASSUME RequestsInv, NEW r \in Requests, LoadAndParse(r), HandleFrame(r)
    PROVE  RequestsInv'
  <1>1. stage[r] = "waiting" /\ IsKind(r, "process") /\ UNCHANGED <<objects, clock>>
    BY DEF LoadAndParse, Starts, IsAt, IsKind
  <1>2. CASE Source(r) = NoFile
    BY <1>1, <1>2, RaisesStep
    DEF LoadAndParse, HandleFrame, Refusals, RequestsInv, TypeOK
  <1>3. CASE Source(r) # NoFile
    <2> DEFINE w == [work[r] EXCEPT !.content = Source(r)]
    <2>1. Continue(r, "loaded", w) /\ writes' = writes
      BY <1>3 DEF LoadAndParse
    <2>2. DOMAIN w = WorkFields
      BY DEF RequestsInv, Shapes, WorkFields
    <2> HIDE DEF w
    <2>3. Steps(r, "loaded", w)
      BY <1>1, <2>1, <2>2 DEF Steps, Open, Stages, HandleFrame, RequestsInv, TypeOK
    <2>4. stage'[r] = "loaded"
      BY <2>1 DEF RequestsInv, TypeOK, Continue
    <2>5. FlushedInFull(r)' /\ ObjectFollowsFile(r)'
      BY <2>4 DEF FlushedInFull, ObjectFollowsFile
    <2>. QED
      BY <1>1, <2>1, <2>3, <2>5, QuietStep
  <1>. QED
    BY <1>2, <1>3

(* The stored snapshot is looked up.                                       *)
LEMMA SelectSnapshotStep ==
    ASSUME RequestsInv, NEW r \in Requests, SelectSnapshot(r), HandleFrame(r)
    PROVE  RequestsInv'
  <1> DEFINE found == {p \in parsed : p.key = Key(command[r])}
             w == [work[r] EXCEPT !.row = found]
  <1>1. /\ stage[r] = "loaded" /\ IsKind(r, "process")
        /\ Continue(r, "selected", w) /\ UNCHANGED <<writes, objects, clock>>
    BY DEF SelectSnapshot, IsAt, IsKind
  <1>2. DOMAIN w = WorkFields /\ w.row = found
    BY DEF RequestsInv, Shapes, WorkFields
  <1> HIDE DEF w
  <1>3. Steps(r, "selected", w)
    BY <1>1, <1>2 DEF Steps, Open, Stages, HandleFrame, RequestsInv, TypeOK
  <1>4. stage'[r] = "selected" /\ work'[r] = w
    BY <1>1 DEF RequestsInv, TypeOK, Shapes, Continue
  <1>5. FlushedInFull(r)'
    BY <1>2, <1>4 DEF FlushedInFull, HasSnapshot, Key, HandleFrame, tables
  <1>6. ObjectFollowsFile(r)'
    BY <1>4 DEF ObjectFollowsFile
  <1>. QED
    BY <1>1, <1>3, <1>5, <1>6, QuietStep

(* The snapshot is inserted, or the columns that differ are updated.       *)
LEMMA SaveSnapshotStep ==
    ASSUME RequestsInv, NEW r \in Requests, SaveSnapshot(r), HandleFrame(r)
    PROVE  RequestsInv'
  <1> DEFINE key == Key(command[r])
             row == [key |-> key, columns |-> Columns(work[r].content), by |-> r]
  <1>1. stage[r] = "selected" /\ IsKind(r, "process") /\ UNCHANGED <<objects, clock>>
    BY DEF SaveSnapshot, IsAt, IsKind
  <1>2. writes[r] = NoWrites
    BY <1>1 DEF RequestsInv, Local, NothingFlushed
  <1>3. row.key = Key(command[r]) /\ DOMAIN row = {"key", "columns", "by"}
    OBVIOUS
  <1>4. ASSUME NEW v, DOMAIN v = WriteTables, writes' = [writes EXCEPT ![r] = v],
               v.traces = {} /\ v.artifacts = {} /\ v.outbox = {},
               \A x, y \in v.inserted : x = y,
               \A x \in v.inserted :
                  /\ x.key = Key(command[r]) /\ DOMAIN x = {"key", "columns", "by"}
                  /\ \A p \in parsed : p.key # x.key
                  /\ \A q \in Requests \ {r} : \A y \in writes[q].inserted : y.key # x.key,
               v.inserted # {} \/ HasSnapshot(r),
               Continue(r, "handled", [work[r] EXCEPT !.outcome = "ok"])
        PROVE  RequestsInv'
    <2> DEFINE w == [work[r] EXCEPT !.outcome = "ok"]
    <2>1. Continue(r, "handled", w) /\ DOMAIN w = WorkFields
      BY <1>4 DEF RequestsInv, Shapes, WorkFields
    <2> HIDE DEF w
    <2>2. /\ writes'[r] = v /\ stage'[r] = "handled"
          /\ \A q \in Requests \ {r} : writes'[q] = writes[q]
      BY <1>4, <2>1 DEF RequestsInv, TypeOK, Shapes, Continue
    <2>3. Steps(r, "handled", w)
      BY <1>1, <2>1 DEF Steps, Open, Stages, HandleFrame, RequestsInv, TypeOK
    <2>4. FlushesItsOwn(r)'
      BY <1>1, <1>4, <2>2 DEF FlushesItsOwn, IsKind, Key, HandleFrame
    <2>5. FlushedInFull(r)' /\ ObjectFollowsFile(r)'
      BY <1>1, <1>4, <2>2
      DEF FlushedInFull, ObjectFollowsFile, IsKind, HasSnapshot, Key, HandleFrame, tables
    <2>6. KeysAreFree'
      BY <1>4, <2>2 DEF KeysAreFree, HandleFrame, tables, RequestsInv
    <2>. QED
      BY <1>1, <1>4, <2>3, <2>4, <2>5, <2>6, FlushStep
  <1> HIDE DEF row
  <1>5. CASE work[r].row = {}
    <2>1. Insert(r, "inserted", parsed, row, "handled")
      BY <1>5 DEF SaveSnapshot, row
    <2>2. CASE \E p \in parsed : p.key = row.key
      <3>1. Raises(r, "duplicate")
        BY <2>1, <2>2 DEF Insert
      <3>2. IsTaken(r)
        BY <1>1, <1>3, <2>2 DEF IsTaken, IsKind
      <3>. QED
        BY <1>1, <3>1, <3>2, RaisesStep DEF HandleFrame, Refusals, RequestsInv, TypeOK
    <2>3. CASE ~\E p \in parsed : p.key = row.key
      <3> DEFINE v == [NoWrites EXCEPT !.inserted = {row}]
      <3>1. Continue(r, "handled", [work[r] EXCEPT !.outcome = "ok"])
        BY <2>1, <2>3 DEF Insert
      <3>2. writes' = [writes EXCEPT ![r] = v]
        <4>1. writes' = [writes EXCEPT ![r]["inserted"] = @ \cup {row}]
          BY <2>1, <2>3 DEF Insert
        <4>2. v = [writes[r] EXCEPT !["inserted"] = writes[r]["inserted"] \cup {row}]
          BY <1>2 DEF NoWrites
        <4>. QED
          BY <4>1, <4>2
      <3>3. \A q \in Requests \ {r} : \A y \in writes[q].inserted : y.key # row.key
        BY <2>1 DEF Insert, Blocked
      <3>4. /\ DOMAIN v = WriteTables /\ v.inserted = {row}
            /\ v.traces = {} /\ v.artifacts = {} /\ v.outbox = {}
        BY DEF NoWrites, WriteTables
      <3> HIDE DEF v
      <3>. QED
        BY <1>3, <1>4, <2>3, <3>1, <3>2, <3>3, <3>4
    <2>. QED
      BY <2>2, <2>3
  <1>6. CASE work[r].row # {}
    <2>1. HasSnapshot(r)
      BY <1>1, <1>6 DEF RequestsInv, Local, FlushedInFull
    <2>2. PICK old \in work[r].row :
             IF Assigned(r, old) = {}
             THEN Returns(r)
             ELSE /\ ~Blocked(r, "updated", key)
                  /\ Continue(r, "handled", [work[r] EXCEPT !.outcome = "ok"])
                  /\ writes' = [writes EXCEPT ![r].updated =
                                   {[key |-> key, columns |-> Assigned(r, old)]}]
      BY <1>6 DEF SaveSnapshot
    <2>3. CASE Assigned(r, old) = {}
      BY <1>1, <1>6, <2>2, <2>3, ReturnsStep
    <2>4. CASE Assigned(r, old) # {}
      <3> DEFINE v == [NoWrites EXCEPT !.updated = {[key |-> key, columns |-> Assigned(r, old)]}]
      <3>1. writes' = [writes EXCEPT ![r] = v]
        BY <1>2, <2>2, <2>4
      <3>2. /\ DOMAIN v = WriteTables /\ v.inserted = {}
            /\ v.traces = {} /\ v.artifacts = {} /\ v.outbox = {}
        BY DEF NoWrites, WriteTables
      <3>3. Continue(r, "handled", [work[r] EXCEPT !.outcome = "ok"])
        BY <2>2, <2>4
      <3> HIDE DEF v
      <3>. QED
        BY <1>4, <2>1, <3>1, <3>2, <3>3
    <2>. QED
      BY <2>3, <2>4
  <1>. QED
    BY <1>5, <1>6

LEMMA RefuseStep ==
    ASSUME RequestsInv, NEW r \in Requests, Refuse(r), HandleFrame(r)
    PROVE  RequestsInv'
  BY RaisesStep DEF Refuse, HandleFrame, Refusals, RequestsInv, TypeOK

(* A step of any handler.                                                  *)
LEMMA HandleStep ==
    ASSUME RequestsInv, NEW r \in Requests, Handle(r)
    PROVE  RequestsInv'
  <1>1. HandleFrame(r)
    BY DEF Handle, HandleFrame
  <1>2. CASE Refuse(r)
    BY <1>1, <1>2, RefuseStep
  <1>3. CASE LookUp(r)
    BY <1>1, <1>3, LookUpStep
  <1>4. CASE AddTrace(r)
    BY <1>1, <1>4, AddTraceStep
  <1>5. CASE GetTrace(r)
    BY <1>1, <1>5, GetTraceStep
  <1>6. CASE ListPage(r)
    BY <1>1, <1>6, ListPageStep
  <1>7. CASE Inspect(r)
    BY <1>1, <1>7, InspectStep
  <1>8. CASE CopyContent(r)
    BY <1>1, <1>8, CopyContentStep
  <1>9. CASE PlaceObject(r)
    BY <1>1, <1>9, PlaceObjectStep
  <1>10. CASE AddArtifact(r)
    BY <1>1, <1>10, AddArtifactStep
  <1>11. CASE AddMessage(r)
    BY <1>1, <1>11, AddMessageStep
  <1>12. CASE LoadAndParse(r)
    BY <1>1, <1>12, LoadAndParseStep
  <1>13. CASE SelectSnapshot(r)
    BY <1>1, <1>13, SelectSnapshotStep
  <1>14. CASE SaveSnapshot(r)
    BY <1>1, <1>14, SaveSnapshotStep
  <1>. QED
    BY <1>2, <1>3, <1>4, <1>5, <1>6, <1>7, <1>8, <1>9, <1>10, <1>11, <1>12, <1>13, <1>14
    DEF Handle

(* A statement or the storage fails.                                       *)
LEMMA FailsStep ==
    ASSUME RequestsInv, NEW r \in Requests, Fails(r)
    PROVE  RequestsInv'
  <1>1. incidents' \in Nat
    BY DEF Fails, Incident, RequestsInv, TypeOK
  <1>. QED
    BY <1>1, RaisesStep DEF Fails, RequestsInv, TypeOK, Refusals, storage

-----------------------------------------------------------------------------
(* The end of a session.                                                   *)

(* What a step that ends something leaves of r.                            *)
LEMMA EndsStep ==
    ASSUME RequestsInv, NEW r \in Requests, NEW s, NEW outcome, Ends(r, s, outcome)
    PROVE  /\ stage'[r] = s /\ answer'[r] = outcome
           /\ work'[r].content = work[r].content
           /\ DOMAIN work' = Requests /\ DOMAIN work'[r] = WorkFields
           /\ \A q \in Requests \ {r} :
                 stage'[q] = stage[q] /\ work'[q] = work[q] /\ answer'[q] = answer[q]
           /\ UNCHANGED <<command, commitsFirst, file, objects, clock, replaced>>
  <1> DEFINE w == [work[r] EXCEPT !.row = {}, !.copy = NoContent, !.created = 0, !.offset = 0]
  <1>1. work' = [work EXCEPT ![r] = w]
    BY DEF Ends, RequestsInv, Shapes, WorkFields
  <1>2. DOMAIN w = WorkFields /\ w.content = work[r].content
    BY DEF RequestsInv, Shapes, WorkFields
  <1> HIDE DEF w
  <1>. QED
    BY <1>1, <1>2 DEF Ends, RequestsInv, TypeOK, Shapes, storage

(* A session that ends without a commit, or a response.                    *)
LEMMA ClosesStep ==
    ASSUME RequestsInv, NEW r \in Requests, NEW s \in {"done", "answered"},
           NEW outcome \in Answers, Ends(r, s, outcome), UNCHANGED tables,
           \/ writes' = writes /\ stage[r] \in {"handled", "committed"}
           \/ writes' = [writes EXCEPT ![r] = NoWrites],
           s = "done" => writes'[r] = NoWrites,
           s = "answered" => /\ stage[r] = "handled" /\ writes' = writes
                             /\ ~commitsFirst /\ outcome = "ok",
           stage[r] # "done",
           stage[r] = "committed" => outcome \notin Refusals /\ s = "done",
           outcome \in {"conflict", "duplicate"} => IsTaken(r),
           outcome = "ok" /\ commitsFirst /\ s = "done" => IsStored(r),
           incidents' \in Nat
    PROVE  RequestsInv'
  <1>1. /\ stage'[r] = s /\ answer'[r] = outcome
        /\ work'[r].content = work[r].content
        /\ DOMAIN work' = Requests /\ DOMAIN work'[r] = WorkFields
        /\ \A q \in Requests \ {r} :
              stage'[q] = stage[q] /\ work'[q] = work[q] /\ answer'[q] = answer[q]
        /\ UNCHANGED <<command, commitsFirst, file, objects, clock, replaced>>
    BY EndsStep
  <1>2. /\ DOMAIN writes' = Requests /\ writes'[r] \in {writes[r], NoWrites}
        /\ \A q \in Requests \ {r} : writes'[q] = writes[q]
    BY DEF RequestsInv, Shapes
  <1>3. StepOf(r)
    BY <1>1, <1>2 DEF StepOf, tables
  <1>4. Local(r)
    BY DEF RequestsInv
  <1>5. Local(r)'
    <2>1. NothingFlushed(r)' /\ FlushesItsOwn(r)'
      BY <1>1, <1>2, <1>4
      DEF Local, NothingFlushed, FlushesItsOwn, IsKind, Key, ArtifactRow, StorageKey, NoWrites
    <2>2. FlushedInFull(r)' /\ ObjectFollowsFile(r)'
      BY <1>1, <1>4
      DEF Local, FlushedInFull, ObjectFollowsFile, IsKind, HasSnapshot, Key, StorageKey, tables
    <2>3. AnswerIsTrue(r)'
      BY <1>1, <1>3, TakenStays, StoredStays DEF AnswerIsTrue
    <2>. QED
      BY <2>1, <2>2, <2>3 DEF Local
  <1>6. \A q \in Requests : Local(q)'
    BY <1>3, <1>5, OthersKeep
  <1>7. KeysAreFree'
    BY <1>2 DEF RequestsInv, KeysAreFree, tables, NoWrites
  <1>8. RowsAreOfCommitted'
    <2>1. ASSUME NEW q, HasCommitted(q)
          PROVE  HasCommitted(q)' /\ StorageKey(q)' = StorageKey(q)
      BY <1>1, <2>1 DEF HasCommitted, StorageKey
    <2>. QED
      BY <2>1 DEF RequestsInv, RowsAreOfCommitted, tables
  <1>9. OneRowPerKey' /\ ArtifactsAreWhole'
    BY <1>1 DEF RequestsInv, OneRowPerKey, ArtifactsAreWhole, tables
  <1>10. Shapes'
    <2>1. DOMAIN NoWrites = WriteTables
      BY DEF NoWrites, WriteTables
    <2>. QED
      BY <1>1, <1>2, <2>1 DEF RequestsInv, Shapes, tables
  <1>11. TypeOK'
    <2>1. stage' \in [Requests -> Stages] /\ answer' \in [Requests -> Answers]
      BY DEF RequestsInv, TypeOK, Ends, Stages
    <2>2. ASSUME NEW q \in Requests
          PROVE  /\ stage'[q] \notin Open => writes'[q] = NoWrites
                 /\ answer'[q] # "none" => stage'[q] \in {"answered", "done"}
      BY <1>1, <1>6, <2>1 DEF RequestsInv, TypeOK, Local, NothingFlushed, Open
    <2>. QED
      BY <1>1, <2>1, <2>2 DEF RequestsInv, TypeOK
  <1>. QED
    BY <1>6, <1>7, <1>8, <1>9, <1>10, <1>11 DEF RequestsInv

LEMMA RespondStep ==
    ASSUME RequestsInv, NEW r \in Requests, Respond(r)
    PROVE  RequestsInv'
  <1>1. Local(r)
    BY DEF RequestsInv
  <1>2. CASE commitsFirst
    <2>1. stage[r] = "committed" /\ Ends(r, "done", "ok") /\ writes' = writes
      BY <1>2 DEF Respond
    <2>2. writes[r] = NoWrites /\ IsStored(r)
      BY <1>1, <2>1 DEF Local, NothingFlushed, AnswerIsTrue
    <2>. QED
      BY <2>1, <2>2, ClosesStep DEF Respond, Answers, Refusals, RequestsInv, TypeOK
  <1>3. CASE ~commitsFirst
    <2>1. stage[r] = "handled" /\ Ends(r, "answered", "ok") /\ writes' = writes
      BY <1>3 DEF Respond
    <2>. QED
      BY <1>3, <2>1, ClosesStep DEF Respond, Answers, Refusals, RequestsInv, TypeOK
  <1>. QED
    BY <1>2, <1>3

LEMMA RollbackStep ==
    ASSUME RequestsInv, NEW r \in Requests, Rollback(r)
    PROVE  RequestsInv'
  <1> DEFINE outcome == work[r].outcome
  <1>1. /\ stage[r] = "raised" /\ Ends(r, "done", outcome)
        /\ writes' = [writes EXCEPT ![r] = NoWrites] /\ UNCHANGED <<tables, incidents>>
    BY DEF Rollback
  <1>2. /\ outcome \in Refusals \cup {"failed"}
        /\ outcome \in {"conflict", "duplicate"} => IsTaken(r)
    BY <1>1 DEF RequestsInv, Local, AnswerIsTrue
  <1>3. outcome \in Answers /\ outcome # "ok"
    BY <1>2 DEF Refusals, Answers
  <1>4. writes'[r] = NoWrites
    BY <1>1 DEF RequestsInv, Shapes
  <1> HIDE DEF outcome
  <1>. QED
    BY <1>1, <1>2, <1>3, <1>4, ClosesStep DEF RequestsInv, TypeOK

(* What is flushed becomes visible together.                               *)
LEMMA AppliesStep ==
    ASSUME RequestsInv, NEW r \in Requests, NEW s \in {"committed", "done"},
           NEW outcome \in Answers, Ends(r, s, outcome), IsReadyToCommit(r), Apply(r),
           writes' = [writes EXCEPT ![r] = NoWrites],
           s = "committed" => commitsFirst /\ outcome = "none",
           outcome \in {"none", "ok", "failed"},
           incidents' \in Nat
    PROVE  RequestsInv'
  <1>1. /\ stage'[r] = s /\ answer'[r] = outcome
        /\ work'[r].content = work[r].content
        /\ DOMAIN work' = Requests /\ DOMAIN work'[r] = WorkFields
        /\ \A q \in Requests \ {r} :
              stage'[q] = stage[q] /\ work'[q] = work[q] /\ answer'[q] = answer[q]
        /\ UNCHANGED <<command, commitsFirst, file, objects, clock, replaced>>
    BY EndsStep
  <1>2. /\ DOMAIN writes' = Requests /\ writes'[r] = NoWrites
        /\ \A q \in Requests \ {r} : writes'[q] = writes[q]
    BY DEF RequestsInv, Shapes
  <1>3. stage[r] \in {"handled", "answered"}
    BY DEF IsReadyToCommit
  <1>4. Local(r)
    BY DEF RequestsInv
  <1>5. traces' = traces \cup writes[r].traces /\ artifacts' = artifacts \cup writes[r].artifacts
        /\ outbox' = outbox \cup writes[r].outbox
    BY DEF Apply
  <1> DEFINE Updated(p) ==
                IF \E u \in writes[r].updated : u.key = p.key
                THEN [p EXCEPT !.by = r, !.columns = [column \in DOMAIN @ |->
                         IF \E u \in writes[r].updated : column \in u.columns
                         THEN Columns(work[r].content)[column] ELSE @[column]]]
                ELSE p
  <1>6. parsed' = {Updated(p) : p \in parsed} \cup writes[r].inserted
    BY DEF Apply
  <1>7. \A p \in parsed : Updated(p).key = p.key /\ DOMAIN Updated(p) = {"key", "columns", "by"}
    BY DEF RequestsInv, Shapes
  <1> HIDE DEF Updated
  <1>8. StepOf(r)
    <2>1. \A p \in parsed : \E n \in parsed' : n.key = p.key
      BY <1>6, <1>7
    <2>. QED
      BY <1>1, <1>2, <1>5, <2>1 DEF StepOf
  <1>9. IsStored(r)'
    <2>1. CASE IsKind(r, "create")
      <3>1. PICK t \in writes[r].traces : t.by = r
        BY <1>3, <1>4, <2>1 DEF Local, FlushedInFull, FlushesItsOwn
      <3>. QED
        BY <1>1, <1>5, <2>1, <3>1 DEF IsStored, IsKind
    <2>2. CASE IsKind(r, "submit")
      <3>1. PICK a \in writes[r].artifacts : a.by = r
        BY <1>3, <1>4, <2>2 DEF Local, FlushedInFull, FlushesItsOwn, ArtifactRow
      <3>. QED
        BY <1>1, <1>5, <2>2, <3>1 DEF IsStored, IsKind
    <2>3. CASE IsKind(r, "process")
      <3>1. \E p \in parsed' : p.key = Key(command[r])
        <4>1. CASE writes[r].inserted # {}
          BY <1>4, <1>6, <4>1 DEF Local, FlushesItsOwn
        <4>2. CASE HasSnapshot(r)
          BY <1>8, <4>2 DEF StepOf, HasSnapshot
        <4>. QED
          BY <1>3, <1>4, <2>3, <4>1, <4>2 DEF Local, FlushedInFull
      <3>. QED
        BY <1>1, <2>3, <3>1 DEF IsStored, IsKind, Key
    <2>4. CASE ~IsKind(r, "create") /\ ~IsKind(r, "submit") /\ ~IsKind(r, "process")
      BY <1>1, <2>4 DEF IsStored, IsKind
    <2>. QED
      BY <2>1, <2>2, <2>3, <2>4
  <1>10. Local(r)'
    BY <1>1, <1>2, <1>9
    DEF Local, NothingFlushed, FlushesItsOwn, FlushedInFull, ObjectFollowsFile, AnswerIsTrue,
        NoWrites
  <1>11. \A q \in Requests : Local(q)'
    BY <1>8, <1>10, OthersKeep
  <1>12. KeysAreFree'
    <2> SUFFICES ASSUME NEW q \in Requests \ {r}
                 PROVE  /\ \A x \in writes[q].traces : \A t \in traces' : t.key # x.key
                        /\ \A x \in writes[q].artifacts : \A t \in artifacts' : t.key # x.key
                        /\ \A x \in writes[q].inserted : \A t \in parsed' : t.key # x.key
      BY <1>2 DEF KeysAreFree, RequestsInv, NoWrites
    <2>1. /\ \A x \in writes[q].traces : \A t \in traces' : t.key # x.key
          /\ \A x \in writes[q].artifacts : \A t \in artifacts' : t.key # x.key
      BY <1>5 DEF KeysAreFree, RequestsInv
    <2>2. ASSUME NEW x \in writes[q].inserted, NEW t \in parsed'
          PROVE  t.key # x.key
      <3>1. CASE t \in writes[r].inserted
        BY <3>1 DEF KeysAreFree, RequestsInv
      <3>2. CASE t \in {Updated(p) : p \in parsed}
        BY <1>7, <3>2 DEF KeysAreFree, RequestsInv
      <3>. QED
        BY <1>6, <3>1, <3>2
    <2>. QED
      BY <2>1, <2>2
  <1>13. RowsAreOfCommitted'
    <2>1. ASSUME NEW q, HasCommitted(q)
          PROVE  HasCommitted(q)' /\ StorageKey(q)' = StorageKey(q)
      BY <1>1, <1>3, <2>1 DEF HasCommitted, StorageKey
    <2>2. HasCommitted(r)' /\ StorageKey(r)' = StorageKey(r)
      BY <1>1 DEF HasCommitted, StorageKey, Refusals
    <2>3. \A t \in writes[r].traces : t.by = r
      BY <1>4 DEF Local, FlushesItsOwn
    <2>4. \A a \in writes[r].artifacts : a.by = r /\ a.storage = StorageKey(r)
      BY <1>4 DEF Local, FlushesItsOwn, ArtifactRow
    <2>. QED
      BY <1>5, <2>1, <2>2, <2>3, <2>4 DEF RequestsInv, RowsAreOfCommitted
  <1>14. OneRowPerKey'
    <2>1. \A x, y \in traces' : x.key = y.key => x = y
      BY <1>4, <1>5 DEF RequestsInv, OneRowPerKey, KeysAreFree, Local, FlushesItsOwn
    <2>2. \A x, y \in artifacts' : x.key = y.key => x = y
      BY <1>4, <1>5 DEF RequestsInv, OneRowPerKey, KeysAreFree, Local, FlushesItsOwn
    <2>3. ASSUME NEW x \in parsed', NEW y \in parsed', x.key = y.key
          PROVE  x = y
      <3>1. CASE x \in writes[r].inserted /\ y \in writes[r].inserted
        BY <1>4, <3>1 DEF Local, FlushesItsOwn
      <3>2. ASSUME NEW z \in writes[r].inserted, NEW p \in parsed
            PROVE  z.key # Updated(p).key
        BY <1>7 DEF RequestsInv, KeysAreFree
      <3>3. CASE \E p, q \in parsed : x = Updated(p) /\ y = Updated(q)
        <4>1. PICK p, q \in parsed : x = Updated(p) /\ y = Updated(q)
          BY <3>3
        <4>2. p.key = q.key
          BY <1>7, <2>3, <4>1
        <4>3. p = q
          BY <4>2 DEF RequestsInv, OneRowPerKey
        <4>. QED
          BY <4>1, <4>3
      <3>. QED
        BY <1>6, <2>3, <3>1, <3>2, <3>3
    <2>. QED
      BY <2>1, <2>2, <2>3 DEF OneRowPerKey
  <1>15. ArtifactsAreWhole'
    <2>1. CASE IsKind(r, "submit")
      <3>1. writes[r].artifacts = {ArtifactRow(r)}
        BY <1>3, <1>4, <2>1 DEF Local, FlushedInFull, FlushesItsOwn
      <3>2. writes[r].outbox = {[artifact |-> r, trace |-> command[r].trace]}
        BY <1>3, <1>4, <2>1 DEF Local, FlushedInFull, FlushesItsOwn
      <3>3. /\ StorageKey(r) \in DOMAIN objects
            /\ r \in replaced \/ objects[StorageKey(r)] = work[r].content
        BY <1>3, <1>4, <2>1 DEF Local, ObjectFollowsFile
      <3> DEFINE row == ArtifactRow(r)
                 m == [artifact |-> r, trace |-> command[r].trace]
      <3>4. /\ row.by = r /\ row.trace = command[r].trace /\ row.storage = StorageKey(r)
            /\ row.hash = work[r].content
        BY DEF ArtifactRow
      <3>5. m.artifact = r /\ m.trace = command[r].trace
        OBVIOUS
      <3>6. outbox' = outbox \cup {m} /\ artifacts' = artifacts \cup {row}
        BY <1>5, <3>1, <3>2
      <3> HIDE DEF row, m
      <3>7. {n.artifact : n \in outbox'} = {a.by : a \in artifacts'}
        <4>1. {n.artifact : n \in outbox'} = {n.artifact : n \in outbox} \cup {r}
          BY <3>5, <3>6
        <4>2. {a.by : a \in artifacts'} = {a.by : a \in artifacts} \cup {r}
          BY <3>4, <3>6
        <4>. QED
          BY <4>1, <4>2 DEF RequestsInv, ArtifactsAreWhole
      <3>8. \A n \in outbox' : \E a \in artifacts' : a.by = n.artifact /\ a.trace = n.trace
        BY <3>4, <3>5, <3>6 DEF RequestsInv, ArtifactsAreWhole
      <3>9. \A a \in artifacts' :
               /\ a.storage \in DOMAIN objects'
               /\ a.by \notin replaced' => objects'[a.storage] = a.hash
        BY <1>1, <3>3, <3>4, <3>6 DEF RequestsInv, ArtifactsAreWhole
      <3>. QED
        BY <3>7, <3>8, <3>9 DEF ArtifactsAreWhole
    <2>2. CASE ~IsKind(r, "submit")
      <3>1. writes[r].artifacts = {} /\ writes[r].outbox = {}
        BY <1>4, <2>2 DEF Local, FlushesItsOwn
      <3>2. artifacts' = artifacts /\ outbox' = outbox
        BY <1>5, <3>1
      <3>. QED
        BY <1>1, <3>2 DEF RequestsInv, ArtifactsAreWhole
    <2>. QED
      BY <2>1, <2>2
  <1>16. Shapes'
    <2>1. DOMAIN NoWrites = WriteTables
      BY DEF NoWrites, WriteTables
    <2>2. \A p \in parsed' : DOMAIN p = {"key", "columns", "by"}
      BY <1>4, <1>6, <1>7 DEF Local, FlushesItsOwn
    <2>. QED
      BY <1>1, <1>2, <2>1, <2>2 DEF RequestsInv, Shapes
  <1>17. TypeOK'
    <2>1. stage' \in [Requests -> Stages] /\ answer' \in [Requests -> Answers]
      BY DEF RequestsInv, TypeOK, Ends, Stages
    <2>2. ASSUME NEW q \in Requests
          PROVE  /\ stage'[q] \notin Open => writes'[q] = NoWrites
                 /\ answer'[q] # "none" => stage'[q] \in {"answered", "done"}
      BY <1>1, <1>11, <2>1 DEF RequestsInv, TypeOK, Local, NothingFlushed, Open
    <2>. QED
      BY <1>1, <2>1, <2>2 DEF RequestsInv, TypeOK
  <1>. QED
    BY <1>11, <1>12, <1>13, <1>14, <1>15, <1>16, <1>17 DEF RequestsInv

LEMMA CommitStep ==
    ASSUME RequestsInv, NEW r \in Requests, Commit(r)
    PROVE  RequestsInv'
  <1>1. Local(r)
    BY DEF RequestsInv
  <1>2. commitsFirst => stage[r] = "handled" /\ answer[r] = "none"
    BY DEF Commit, IsReadyToCommit, RequestsInv, TypeOK
  <1>3. ~commitsFirst => stage[r] = "answered" /\ answer[r] = "ok"
    BY <1>1 DEF Commit, IsReadyToCommit, Local, AnswerIsTrue
  <1>. QED
    BY <1>2, <1>3, AppliesStep DEF Commit, Answers, RequestsInv, TypeOK

(* Whether the commit took effect or not, nobody is told "ok" after it     *)
(* failed, and who was told so before has no claim to the rows.            *)
LEMMA CommitFailsStep ==
    ASSUME RequestsInv, NEW r \in Requests, CommitFails(r)
    PROVE  RequestsInv'
  <1> DEFINE outcome == IF commitsFirst THEN "failed" ELSE answer[r]
  <1>1. /\ IsReadyToCommit(r) /\ Ends(r, "done", outcome)
        /\ writes' = [writes EXCEPT ![r] = NoWrites] /\ incidents' \in Nat
        /\ Apply(r) \/ UNCHANGED tables
    BY DEF CommitFails, Incident, RequestsInv, TypeOK
  <1>2. ~commitsFirst => stage[r] = "answered" /\ answer[r] = "ok"
    BY <1>1 DEF IsReadyToCommit, RequestsInv, Local, AnswerIsTrue
  <1>3. /\ outcome \in {"ok", "failed"} /\ outcome \in Answers
        /\ outcome = "ok" => ~commitsFirst
        /\ stage[r] \in {"handled", "answered"}
    BY <1>1, <1>2 DEF Answers, IsReadyToCommit
  <1>4. writes'[r] = NoWrites
    BY <1>1 DEF RequestsInv, Shapes
  <1> HIDE DEF outcome
  <1>5. CASE Apply(r)
    BY <1>1, <1>3, <1>5, AppliesStep
  <1>6. CASE UNCHANGED tables
    BY <1>1, <1>3, <1>4, <1>6, ClosesStep
  <1>. QED
    BY <1>1, <1>5, <1>6

-----------------------------------------------------------------------------
(* Faults, and the whole of it.                                            *)

(* The process ends: no session keeps what it has flushed.                 *)
LEMMA CrashStep ==
    ASSUME RequestsInv, Crash
    PROVE  RequestsInv'
  <1>1. /\ UNCHANGED <<command, commitsFirst, file, objects, work, answer, clock, replaced>>
        /\ UNCHANGED tables /\ incidents' \in Nat
    BY DEF Crash, Incident, storage, RequestsInv, TypeOK
  <1>2. \A r \in Requests :
           /\ stage'[r] = IF stage[r] \in Open THEN "done" ELSE stage[r]
           /\ writes'[r] = NoWrites
    BY DEF Crash
  <1>3. stage' \in [Requests -> Stages] /\ DOMAIN writes' = Requests
    BY DEF Crash, RequestsInv, TypeOK, Stages
  <1>4. \A r \in Requests : stage'[r] \in {"waiting", "done"}
    BY <1>2 DEF RequestsInv, TypeOK, Open
  <1>5. ASSUME NEW r \in Requests
        PROVE  Local(r)'
    <2>1. Local(r)
      BY DEF RequestsInv
    <2>2. NothingFlushed(r)' /\ FlushesItsOwn(r)' /\ FlushedInFull(r)' /\ ObjectFollowsFile(r)'
      BY <1>2, <1>4
      DEF NothingFlushed, FlushesItsOwn, FlushedInFull, ObjectFollowsFile, NoWrites
    <2>3. (IsTaken(r) => IsTaken(r)') /\ (IsStored(r) => IsStored(r)')
      BY <1>1 DEF IsTaken, IsStored, Key, tables
    <2>4. AnswerIsTrue(r)'
      <3>1. CASE stage[r] = "answered"
        BY <1>1, <1>2, <1>4, <2>1, <3>1 DEF Local, AnswerIsTrue
      <3>2. CASE stage[r] \in Open \ {"answered"}
        BY <1>1, <1>2, <1>4, <3>2 DEF AnswerIsTrue, RequestsInv, TypeOK, Open
      <3>3. CASE stage[r] \notin Open
        BY <1>1, <1>2, <1>4, <2>1, <2>3, <3>3 DEF Local, AnswerIsTrue
      <3>. QED
        BY <3>1, <3>2, <3>3
    <2>. QED
      BY <2>2, <2>4 DEF Local
  <1>6. KeysAreFree'
    BY <1>2 DEF KeysAreFree, NoWrites
  <1>7. RowsAreOfCommitted' /\ OneRowPerKey' /\ ArtifactsAreWhole'
    <2>1. ASSUME NEW r, HasCommitted(r)
          PROVE  HasCommitted(r)' /\ StorageKey(r)' = StorageKey(r)
      BY <1>1, <1>2, <2>1 DEF HasCommitted, StorageKey
    <2>. QED
      BY <1>1, <2>1 DEF RequestsInv, RowsAreOfCommitted, OneRowPerKey, ArtifactsAreWhole, tables
  <1>8. Shapes'
    <2>1. DOMAIN NoWrites = WriteTables
      BY DEF NoWrites, WriteTables
    <2>. QED
      BY <1>1, <1>2, <1>3, <2>1 DEF RequestsInv, Shapes, tables
  <1>9. TypeOK'
    <2>1. ASSUME NEW r \in Requests, answer[r] # "none"
          PROVE  stage'[r] = "done"
      BY <1>2, <2>1 DEF RequestsInv, TypeOK, Open, Stages
    <2>. QED
      BY <1>1, <1>2, <1>3, <2>1 DEF RequestsInv, TypeOK
  <1>. QED
    BY <1>5, <1>6, <1>7, <1>8, <1>9 DEF RequestsInv

(* Whose file changes between the hash and the copy is remembered.         *)
LEMMA ReplaceFileStep ==
    ASSUME RequestsInv, ReplaceFile
    PROVE  RequestsInv'
  <1>1. PICK f \in Files : \E content \in (Contents \cup {NoFile}) \ {file[f]} :
            /\ file' = [file EXCEPT ![f] = content]
            /\ replaced' = replaced \cup {r \in Requests : IsAt(r, "submit", "inspected")
                                                          /\ command[r].file = f}
    BY DEF ReplaceFile
  <1>2. PICK content \in Contents \cup {NoFile} : file' = [file EXCEPT ![f] = content]
    BY <1>1
  <1>3. /\ UNCHANGED <<command, commitsFirst, objects, stage, work, writes, answer, clock>>
        /\ UNCHANGED tables /\ incidents' \in Nat
    BY DEF ReplaceFile, Incident, RequestsInv, TypeOK
  <1>4. file' \in [Files -> Contents \cup {NoFile}]
    BY <1>2 DEF RequestsInv, TypeOK
  <1>5. replaced \subseteq replaced' /\ replaced' \subseteq Requests
    BY <1>1 DEF RequestsInv, TypeOK
  <1>6. ASSUME NEW r \in Requests, IsAt(r, "submit", "inspected"), r \notin replaced'
        PROVE  Source(r)' = Source(r)
    <2>1. command[r].file # f
      BY <1>1, <1>6
    <2>2. command[r].file \in Files
      BY <1>6, RequestsAssumption DEF RequestsInv, Shapes, IsAt
    <2>. QED
      BY <1>2, <1>3, <2>1, <2>2 DEF RequestsInv, TypeOK, Source
  <1>7. ASSUME NEW r \in Requests
        PROVE  Local(r)'
    <2>1. Local(r)
      BY DEF RequestsInv
    <2>2. NothingFlushed(r)' /\ FlushesItsOwn(r)' /\ FlushedInFull(r)'
      BY <1>3, <2>1
      DEF Local, NothingFlushed, FlushesItsOwn, FlushedInFull, IsKind, Key, ArtifactRow,
          StorageKey, HasSnapshot, tables
    <2>3. ObjectFollowsFile(r)'
      BY <1>3, <1>5, <1>6, <2>1 DEF Local, ObjectFollowsFile, IsKind, StorageKey, IsAt
    <2>4. AnswerIsTrue(r)'
      BY <1>3, <2>1 DEF Local, AnswerIsTrue, IsTaken, IsStored, Key, tables
    <2>. QED
      BY <2>2, <2>3, <2>4 DEF Local
  <1>8. KeysAreFree'
    BY <1>3, KeysKeep
  <1>9. RowsAreOfCommitted' /\ OneRowPerKey'
    <2>1. ASSUME NEW r, HasCommitted(r)
          PROVE  HasCommitted(r)' /\ StorageKey(r)' = StorageKey(r)
      BY <1>3, <2>1 DEF HasCommitted, StorageKey
    <2>. QED
      BY <1>3, <2>1 DEF RequestsInv, RowsAreOfCommitted, OneRowPerKey, tables
  <1>10. ArtifactsAreWhole'
    BY <1>3, <1>5 DEF RequestsInv, ArtifactsAreWhole, tables
  <1>11. TypeOK' /\ Shapes'
    BY <1>3, <1>4, <1>5 DEF RequestsInv, TypeOK, Shapes, tables
  <1>. QED
    BY <1>7, <1>8, <1>9, <1>10, <1>11 DEF RequestsInv

LEMMA RequestsInitInv == Init => RequestsInv
  <1> SUFFICES ASSUME Init
               PROVE  RequestsInv
    OBVIOUS
  <1>1. /\ \A r \in Requests : stage[r] = IF command[r].kind = "none" THEN "done" ELSE "waiting"
        /\ \A r \in Requests : writes[r] = NoWrites /\ work[r] = NoWork /\ answer[r] = "none"
        /\ DOMAIN objects = {}
    BY DEF Init
  <1>2. TypeOK
    <2>1. stage \in [Requests -> Stages] /\ answer \in [Requests -> Answers]
      BY DEF Init, Stages, Answers
    <2>2. file \in [Files -> Contents \cup {NoFile}]
      BY RequestsAssumption DEF Init
    <2>. QED
      BY <1>1, <2>1, <2>2 DEF Init, TypeOK
  <1>3. Shapes
    <2>1. DOMAIN NoWork = WorkFields /\ DOMAIN NoWrites = WriteTables
      BY DEF NoWork, NoWrites, WorkFields, WriteTables
    <2>. QED
      BY <2>1 DEF Init, Shapes
  <1>4. ASSUME NEW r \in Requests
        PROVE  Local(r)
    BY <1>1
    DEF Local, NothingFlushed, FlushesItsOwn, FlushedInFull, ObjectFollowsFile, AnswerIsTrue,
        NoWrites
  <1>5. KeysAreFree /\ RowsAreOfCommitted /\ OneRowPerKey /\ ArtifactsAreWhole
    BY <1>1 DEF Init, KeysAreFree, RowsAreOfCommitted, OneRowPerKey, ArtifactsAreWhole, NoWrites
  <1>. QED
    BY <1>2, <1>3, <1>4, <1>5 DEF RequestsInv

LEMMA RequestsStepInv == RequestsInv /\ [Next]_vars => RequestsInv'
  <1> SUFFICES ASSUME RequestsInv, [Next]_vars
               PROVE  RequestsInv'
    OBVIOUS
  <1>1. ASSUME NEW r \in Requests, Proceed(r)
        PROVE  RequestsInv'
    BY <1>1, HandleStep, CommitStep, RespondStep, RollbackStep DEF Proceed
  <1>2. ASSUME NEW r \in Requests, CommitFails(r) \/ Fails(r)
        PROVE  RequestsInv'
    BY <1>2, CommitFailsStep, FailsStep
  <1>3. CASE UNCHANGED vars
    <2>1. /\ UNCHANGED <<command, commitsFirst, file, objects, stage, work, writes, answer, clock>>
          /\ UNCHANGED <<tables, replaced, incidents>>
      BY <1>3 DEF vars, storage
    <2>2. (TypeOK /\ Shapes)' <=> TypeOK /\ Shapes
      BY <2>1 DEF TypeOK, Shapes, tables
    <2>3. ASSUME NEW r
          PROVE  Local(r)' <=> Local(r)
      <3>1. (NothingFlushed(r) /\ FlushesItsOwn(r))' <=> NothingFlushed(r) /\ FlushesItsOwn(r)
        BY <2>1 DEF NothingFlushed, FlushesItsOwn, IsKind, Key, ArtifactRow, StorageKey
      <3>2. FlushedInFull(r)' <=> FlushedInFull(r)
        BY <2>1 DEF FlushedInFull, IsKind, HasSnapshot, Key, tables
      <3>3. ObjectFollowsFile(r)' <=> ObjectFollowsFile(r)
        BY <2>1 DEF ObjectFollowsFile, IsKind, Source, StorageKey
      <3>4. AnswerIsTrue(r)' <=> AnswerIsTrue(r)
        BY <2>1 DEF AnswerIsTrue, IsTaken, IsStored, Key, tables
      <3>. QED
        BY <3>1, <3>2, <3>3, <3>4 DEF Local
    <2>4. (KeysAreFree /\ RowsAreOfCommitted)' <=> KeysAreFree /\ RowsAreOfCommitted
      BY <2>1 DEF KeysAreFree, RowsAreOfCommitted, HasCommitted, StorageKey, tables
    <2>5. (OneRowPerKey /\ ArtifactsAreWhole)' <=> OneRowPerKey /\ ArtifactsAreWhole
      BY <2>1 DEF OneRowPerKey, ArtifactsAreWhole, tables
    <2>. QED
      BY <2>2, <2>3, <2>4, <2>5 DEF RequestsInv
  <1>. QED
    BY <1>1, <1>2, <1>3, CrashStep, ReplaceFileStep DEF Next

(* The inductive invariant holds, whatever the requests, files and faults. *)
THEOREM RequestsInvariant == Spec => []RequestsInv
  BY RequestsInitInv, RequestsStepInv, PTL DEF Spec

-----------------------------------------------------------------------------
(* What follows from it.                                                   *)

(* The variables have their types, no session outlives its request, and    *)
(* nobody is answered before the end of the handler.                       *)
THEOREM RequestsTypeCorrect == Spec => []TypeOK
  <1>1. RequestsInv => TypeOK
    BY DEF RequestsInv
  <1>. QED
    BY <1>1, RequestsInvariant, PTL

(* Racing requests never store a trace, a snapshot or a content twice.     *)
THEOREM KeysAreUnique == Spec => []OneRowPerKey
  <1>1. RequestsInv => OneRowPerKey
    BY DEF RequestsInv
  <1>. QED
    BY <1>1, RequestsInvariant, PTL

(* The artifacts recorded are those announced, and each has its object.    *)
THEOREM ArtifactsAreAlwaysWhole == Spec => []ArtifactsAreWhole
  <1>1. RequestsInv => ArtifactsAreWhole
    BY DEF RequestsInv
  <1>. QED
    BY <1>1, RequestsInvariant, PTL

(* What clients are told is what the database holds: who is turned down    *)
(* has left nothing, because only the rows of others are committed.        *)
THEOREM AnswersAreAlwaysTrue == Spec => []AnswersAreTrue
  <1>1. RequestsInv => AnswersAreTrue
    <2> SUFFICES ASSUME RequestsInv, NEW r \in Requests, stage[r] = "done"
                 PROVE  /\ answer[r] \in {"conflict", "duplicate"} => IsTaken(r)
                        /\ answer[r] \in Refusals => /\ \A t \in traces : t.by # r
                                                     /\ \A a \in artifacts : a.by # r
                        /\ answer[r] = "ok" /\ commitsFirst => IsStored(r)
      BY DEF AnswersAreTrue, Refusals
    <2>1. /\ answer[r] \in {"conflict", "duplicate"} => IsTaken(r)
          /\ answer[r] = "ok" /\ commitsFirst => IsStored(r)
      BY DEF RequestsInv, Local, AnswerIsTrue
    <2>2. ASSUME answer[r] \in Refusals
          PROVE  (\A t \in traces : t.by # r) /\ (\A a \in artifacts : a.by # r)
      BY <2>2 DEF RequestsInv, RowsAreOfCommitted, HasCommitted
    <2>. QED
      BY <2>1, <2>2
  <1>. QED
    BY <1>1, RequestsInvariant, PTL

-----------------------------------------------------------------------------
(* Pages of a finite listing, whose rows have different times.             *)

LEMMA SmallestNat ==
    ASSUME NEW S \in SUBSET Nat, S # {}
    PROVE  \E m \in S : \A n \in S : m <= n
  <1> DEFINE R == {ss \in Nat \X Nat : ss[1] < ss[2]}
  <1>1. IsWellFoundedOn(R, Nat)
    BY NatLessThanWellFounded DEF OpToRel
  <1> HIDE DEF R
  <1>2. PICK m \in S : \A n \in S : ~(<<n, m>> \in R)
    BY <1>1, WFMin
  <1>3. ASSUME NEW n \in S
        PROVE  m <= n
    <2>1. m \in Nat /\ n \in Nat /\ <<n, m>> \in Nat \X Nat
      OBVIOUS
    <2>2. ~(n < m)
      BY <1>2, <2>1 DEF R
    <2>. QED
      BY <2>1, <2>2
  <1>. QED
    BY <1>3

IsListing(rows) ==
    /\ IsFiniteSet(rows)
    /\ \A t \in rows : t.created \in Nat
    /\ \A t, u \in rows : t.created = u.created => t = u

Rank(t, rows) == Cardinality(Newer(t, rows))

LEMMA RankIsNat ==
    ASSUME NEW rows, IsFiniteSet(rows), NEW t
    PROVE  IsFiniteSet(Newer(t, rows)) /\ Rank(t, rows) \in Nat
  <1>1. Newer(t, rows) \in SUBSET rows
    BY DEF Newer
  <1>2. IsFiniteSet(Newer(t, rows))
    BY <1>1, FS_Subset
  <1>. QED
    BY <1>2, FS_CardinalityType DEF Rank

(* The newer row comes first.                                              *)
LEMMA NewerComesFirst ==
    ASSUME NEW rows, IsListing(rows), NEW t \in rows, NEW u \in rows, t.created < u.created
    PROVE  Rank(u, rows) < Rank(t, rows)
  <1>1. t.created \in Nat /\ u.created \in Nat /\ \A v \in rows : v.created \in Nat
    BY DEF IsListing
  <1>2. Newer(u, rows) \in SUBSET Newer(t, rows)
    BY <1>1 DEF Newer
  <1>3. u \in Newer(t, rows) /\ u \notin Newer(u, rows)
    BY <1>1 DEF Newer
  <1>4. /\ IsFiniteSet(Newer(t, rows))
        /\ Rank(u, rows) \in Nat /\ Rank(t, rows) \in Nat
    BY RankIsNat DEF IsListing
  <1>5. Rank(u, rows) <= Rank(t, rows) /\ Rank(u, rows) # Rank(t, rows)
    BY <1>2, <1>3, <1>4, FS_Subset DEF Rank
  <1>. QED
    BY <1>4, <1>5

(* No two rows have the same place.                                        *)
LEMMA RanksDiffer ==
    ASSUME NEW rows, IsListing(rows), NEW t \in rows, NEW u \in rows,
           Rank(t, rows) = Rank(u, rows)
    PROVE  t = u
  <1>1. t.created \in Nat /\ u.created \in Nat
    BY DEF IsListing
  <1>2. Rank(t, rows) \in Nat /\ Rank(u, rows) \in Nat
    BY RankIsNat DEF IsListing
  <1>3. ~(t.created < u.created) /\ ~(u.created < t.created)
    BY <1>2, NewerComesFirst
  <1>. QED
    BY <1>1, <1>3 DEF IsListing

(* Rows whose places are in an interval are at most as many as its places. *)
LEMMA RowsInInterval ==
    ASSUME NEW rows, IsListing(rows), NEW S \in SUBSET rows, NEW m \in Nat, NEW n \in Nat,
           \A t \in S : Rank(t, rows) \in m .. m + n - 1
    PROVE  IsFiniteSet(S) /\ Cardinality(S) \in Nat /\ Cardinality(S) <= n
  <1> DEFINE f == [t \in S |-> Rank(t, rows)]
  <1>1. f \in Injection(S, m .. m + n - 1)
    BY RanksDiffer DEF Injection, IsInjective
  <1>2. IsFiniteSet(m .. m + n - 1) /\ Cardinality(m .. m + n - 1) = n
    BY FS_Interval
  <1> HIDE DEF f
  <1>3. IsFiniteSet(S) /\ Cardinality(S) <= n
    BY <1>1, <1>2, FS_Injection
  <1>. QED
    BY <1>3, FS_CardinalityType

(* No page is longer than its limit, ...                                   *)
LEMMA PageIsBounded ==
    ASSUME NEW rows, IsListing(rows), NEW offset \in Nat, NEW limit \in Nat
    PROVE  LET page == Page(rows, offset, limit)
           IN  Cardinality(page) \in Nat /\ Cardinality(page) <= limit
  <1>1. /\ Page(rows, offset, limit) \in SUBSET rows
        /\ \A t \in Page(rows, offset, limit) : Rank(t, rows) \in offset .. offset + limit - 1
    BY DEF Page, Rank
  <1>. QED
    BY <1>1, RowsInInterval

(* ... and an empty one is behind all of the rows.                         *)
LEMMA EmptyPageIsTheEnd ==
    ASSUME NEW rows, IsListing(rows), NEW offset \in Nat, NEW limit \in Nat \ {0},
           Page(rows, offset, limit) = {}, NEW t \in rows
    PROVE  Rank(t, rows) < offset
  <1> SUFFICES ASSUME Rank(t, rows) >= offset
               PROVE  FALSE
    BY RankIsNat DEF IsListing
  <1> DEFINE behind == {Rank(u, rows) : u \in {v \in rows : Rank(v, rows) >= offset}}
  <1>1. behind \in SUBSET Nat /\ behind # {}
    BY RankIsNat DEF IsListing
  <1>2. PICK m \in behind : \A n \in behind : m <= n
    BY <1>1, SmallestNat
  <1>3. PICK u \in rows : Rank(u, rows) = m /\ m >= offset
    BY <1>2
  <1>4. ASSUME NEW v \in Newer(u, rows)
        PROVE  v \in rows /\ Rank(v, rows) \in 0 .. 0 + offset - 1
    <2>1. v \in rows /\ Rank(v, rows) < m /\ Rank(v, rows) \in Nat
      BY <1>3, NewerComesFirst, RankIsNat DEF Newer, IsListing
    <2>2. Rank(v, rows) \notin behind
      BY <1>1, <1>2, <2>1
    <2>. QED
      BY <2>1, <2>2
  <1>5. Newer(u, rows) \in SUBSET rows
    BY DEF Newer
  <1>6. Rank(u, rows) <= offset
    BY <1>4, <1>5, RowsInInterval DEF Rank
  <1>7. Rank(u, rows) = offset
    BY <1>1, <1>3, <1>6
  <1>8. u \in Page(rows, offset, limit)
    BY <1>7 DEF Page, Rank
  <1>. QED
    BY <1>8

(* New rows move the old ones back, never forward.                         *)
LEMMA RanksGrow ==
    ASSUME NEW rows, NEW more, rows \subseteq more, IsFiniteSet(more), NEW t
    PROVE  /\ Rank(t, rows) \in Nat /\ Rank(t, more) \in Nat
           /\ Rank(t, rows) <= Rank(t, more)
  <1>1. Newer(t, rows) \in SUBSET Newer(t, more)
    BY DEF Newer
  <1>2. IsFiniteSet(rows) /\ IsFiniteSet(Newer(t, more))
    BY RankIsNat, FS_Subset
  <1>. QED
    BY <1>1, <1>2, RankIsNat, FS_Subset DEF Rank

-----------------------------------------------------------------------------
(* The times of creation.                                                  *)

(* The times that request r has taken from the clock.                      *)
Stamps(r) ==
    (IF IsAt(r, "create", "absent") THEN {work[r].created} ELSE {})
        \cup {t.created : t \in {u \in traces : u.by = r} \cup writes[r].traces}

StampsAreUnique ==
    /\ \A r \in Requests : \A c \in Stamps(r) : c \in Nat /\ c < clock
    /\ \A r \in Requests : \A q \in Requests \ {r} : Stamps(r) \cap Stamps(q) = {}

TracesAreListed ==
    /\ IsFiniteSet(traces)
    /\ \A t \in traces : t.key = Key(command[t.by])
    /\ StampsAreUnique

(* What the client of a listing has, or is still to be given.              *)
PagesWell(r) ==
    IsKind(r, "list") =>
        /\ stage[r] = "waiting" =>
              work[r].offset = 0 /\ work[r].seen = {} /\ work[r].expected = {}
        /\ stage[r] = "paging" =>
              /\ work[r].offset \in Nat
              /\ work[r].expected \subseteq Rows(r)
              /\ \A t \in work[r].expected :
                    t \in work[r].seen \/ Rank(t, Rows(r)) >= work[r].offset
        /\ stage[r] \in {"handled", "answered", "committed"} =>
              work[r].expected \subseteq work[r].seen
        /\ stage[r] = "done" /\ answer[r] = "ok" =>
              work[r].expected \subseteq work[r].seen

ListingInv == TracesAreListed /\ \A r \in Requests : PagesWell(r)

(* The rows of a listing have different times.                             *)
LEMMA RowsAreListing ==
    ASSUME RequestsInv, TracesAreListed, NEW r
    PROVE  IsListing(Rows(r))
  <1>1. Rows(r) \in SUBSET traces
    BY DEF Rows
  <1>2. ASSUME NEW t \in traces
        PROVE  t.by \in Requests /\ t.created \in Stamps(t.by)
    BY DEF RequestsInv, RowsAreOfCommitted, HasCommitted, Stamps
  <1>3. \A t \in traces : t.created \in Nat
    BY <1>2 DEF TracesAreListed, StampsAreUnique
  <1>4. ASSUME NEW t \in traces, NEW u \in traces, t.created = u.created
        PROVE  t = u
    <2>1. t.by = u.by
      BY <1>2, <1>4 DEF TracesAreListed, StampsAreUnique
    <2>2. t.key = u.key
      BY <2>1 DEF TracesAreListed
    <2>. QED
      BY <2>2 DEF RequestsInv, OneRowPerKey
  <1>5. IsFiniteSet(Rows(r))
    BY <1>1, FS_Subset DEF TracesAreListed
  <1>. QED
    BY <1>1, <1>3, <1>4, <1>5 DEF IsListing

(* The part of a step of request r that listings depend on.                *)
Frame(r) ==
    /\ command' = command
    /\ \A q \in Requests \ {r} :
          /\ stage'[q] = stage[q] /\ work'[q] = work[q]
          /\ writes'[q] = writes[q] /\ answer'[q] = answer[q]
    /\ traces \subseteq traces'
    /\ \A t \in traces' : t \in traces \/ t.by = r
    /\ \/ clock' = clock /\ Stamps(r)' \subseteq Stamps(r)
       \/ clock' = clock + 1 /\ Stamps(r)' \subseteq Stamps(r) \cup {clock}

LEMMA StampsKeep ==
    ASSUME RequestsInv, TracesAreListed, NEW r \in Requests, Frame(r)
    PROVE  StampsAreUnique'
  <1>1. clock \in Nat
    BY DEF RequestsInv, TypeOK
  <1>2. ASSUME NEW q \in Requests \ {r}
        PROVE  Stamps(q)' = Stamps(q)
    <2>1. {u \in traces' : u.by = q} = {u \in traces : u.by = q}
      BY DEF Frame
    <2>2. stage'[q] = stage[q] /\ work'[q] = work[q] /\ writes'[q] = writes[q]
          /\ command' = command
      BY DEF Frame
    <2>. QED
      BY <2>1, <2>2 DEF Stamps, IsAt
  <1>3. \A q \in Requests : \A c \in Stamps(q) : c \in Nat /\ c < clock
    BY DEF TracesAreListed, StampsAreUnique
  <1>4. \A q \in Requests : \A p \in Requests \ {q} : Stamps(q) \cap Stamps(p) = {}
    BY DEF TracesAreListed, StampsAreUnique
  <1>5. CASE clock' = clock /\ Stamps(r)' \subseteq Stamps(r)
    BY <1>2, <1>3, <1>4, <1>5 DEF StampsAreUnique
  <1>6. CASE clock' = clock + 1 /\ Stamps(r)' \subseteq Stamps(r) \cup {clock}
    <2>1. \A q \in Requests : \A c \in Stamps(q)' : c \in Nat /\ c < clock'
      BY <1>1, <1>2, <1>3, <1>6
    <2>2. \A q \in Requests : clock \notin Stamps(q)
      BY <1>1, <1>3
    <2>3. ASSUME NEW q \in Requests, NEW p \in Requests \ {q}
          PROVE  Stamps(q)' \cap Stamps(p)' = {}
      BY <1>2, <1>4, <1>6, <2>2
    <2>. QED
      BY <2>1, <2>3 DEF StampsAreUnique
  <1>. QED
    BY <1>5, <1>6 DEF Frame

(* The listings of the others go on as before.                             *)
LEMMA PagesKeep ==
    ASSUME NEW r \in Requests, Frame(r), IsFiniteSet(traces'),
           NEW q \in Requests \ {r}, PagesWell(q)
    PROVE  PagesWell(q)'
  <1>1. stage'[q] = stage[q] /\ work'[q] = work[q] /\ answer'[q] = answer[q]
        /\ command' = command /\ traces \subseteq traces'
    BY DEF Frame
  <1>2. Rows(q) \subseteq Rows(q)'
    BY <1>1 DEF Rows, InScope
  <1>3. Rows(q)' \in SUBSET traces'
    BY DEF Rows
  <1>4. IsFiniteSet(Rows(q)')
    BY <1>3, FS_Subset
  <1>5. ASSUME NEW t
        PROVE  /\ Rank(t, Rows(q)) \in Nat /\ Rank(t, Rows(q)') \in Nat
               /\ Rank(t, Rows(q)) <= Rank(t, Rows(q)')
    BY <1>2, <1>4, RanksGrow
  <1> DEFINE rank(t) == Rank(t, Rows(q))
             rankNext(t) == Rank(t, Rows(q)')
  <1>6. \A t : rank(t) \in Nat /\ rankNext(t) \in Nat /\ rank(t) <= rankNext(t)
    BY <1>5
  <1>7. IsKind(q, "list") /\ stage[q] = "paging" =>
            \A t \in work[q].expected : t \in work[q].seen \/ rankNext(t) >= work[q].offset
    <2> SUFFICES ASSUME IsKind(q, "list"), stage[q] = "paging", NEW t \in work[q].expected,
                        t \notin work[q].seen
                 PROVE  rankNext(t) >= work[q].offset
      OBVIOUS
    <2>1. rank(t) >= work[q].offset /\ work[q].offset \in Nat
      BY DEF PagesWell
    <2> HIDE DEF rank, rankNext
    <2>. QED
      BY <1>6, <2>1
  <1>8. \A t : Rank(t, Rows(q))' = rankNext(t)
    BY DEF Rank, Newer
  <1> HIDE DEF rank, rankNext
  <1>. QED
    BY <1>1, <1>2, <1>7, <1>8 DEF PagesWell, IsKind

(* A step that takes no time from the clock and flushes no trace.          *)
LEMMA PlainFrame ==
    ASSUME RequestsInv, NEW r \in Requests, NEW s, s # "absent", NEW w, Continue(r, s, w),
           \A q \in Requests \ {r} : writes'[q] = writes[q],
           writes'[r].traces \subseteq writes[r].traces,
           command' = command, answer' = answer, traces' = traces, clock' = clock
    PROVE  Frame(r)
  <1>1. /\ stage'[r] = s
        /\ \A q \in Requests \ {r} : stage'[q] = stage[q] /\ work'[q] = work[q]
    BY DEF Continue, RequestsInv, TypeOK, Shapes
  <1>2. Stamps(r)' \subseteq Stamps(r)
    BY <1>1 DEF Stamps, IsAt
  <1>. QED
    BY <1>1, <1>2 DEF Frame

LEMMA RaisesFrame ==
    ASSUME RequestsInv, NEW r \in Requests, NEW outcome, Raises(r, outcome),
           command' = command, answer' = answer, traces' = traces, clock' = clock
    PROVE  Frame(r)
  BY PlainFrame DEF Raises

LEMMA ReturnsFrame ==
    ASSUME RequestsInv, NEW r \in Requests, Returns(r),
           command' = command, answer' = answer, traces' = traces, clock' = clock
    PROVE  Frame(r)
  BY PlainFrame DEF Returns

(* An insert into another table than traces.                               *)
LEMMA InsertFrame ==
    ASSUME RequestsInv, NEW r \in Requests, NEW table \in {"artifacts", "inserted"},
           NEW committed, NEW row, NEW next \in {"recorded", "handled"},
           Insert(r, table, committed, row, next),
           command' = command, answer' = answer, traces' = traces, clock' = clock
    PROVE  Frame(r)
  <1>1. CASE \E t \in committed : t.key = row.key
    BY <1>1, RaisesFrame DEF Insert
  <1>2. CASE ~\E t \in committed : t.key = row.key
    <2>1. Continue(r, next, [work[r] EXCEPT !.outcome = "ok"])
      BY <1>2 DEF Insert
    <2>2. writes' = [writes EXCEPT ![r][table] = @ \cup {row}]
      BY <1>2 DEF Insert
    <2>3. /\ \A q \in Requests \ {r} : writes'[q] = writes[q]
          /\ writes'[r].traces = writes[r].traces
      BY <2>2 DEF RequestsInv, Shapes, WriteTables
    <2>. QED
      BY <2>1, <2>3, PlainFrame
  <1>. QED
    BY <1>1, <1>2

LEMMA HandleFrames ==
    ASSUME RequestsInv, NEW r \in Requests, Handle(r)
    PROVE  Frame(r) /\ traces' = traces
  <1>1. command' = command /\ answer' = answer /\ traces' = traces
    BY DEF Handle, tables
  <1>2. /\ DOMAIN stage = Requests /\ DOMAIN work = Requests /\ DOMAIN writes = Requests
        /\ DOMAIN work[r] = WorkFields /\ DOMAIN writes[r] = WriteTables
    BY DEF RequestsInv, TypeOK, Shapes
  <1>3. CASE Refuse(r)
    BY <1>1, <1>3, RaisesFrame DEF Refuse
  <1>4. CASE LookUp(r)
    <2>1. CASE Existing(command[r]) # {}
      BY <1>1, <1>4, <2>1, RaisesFrame DEF LookUp
    <2>2. CASE Existing(command[r]) = {}
      <3> DEFINE w == [work[r] EXCEPT !.created = clock]
      <3>1. Continue(r, "absent", w) /\ clock' = clock + 1 /\ writes' = writes
        BY <1>4, <2>2 DEF LookUp
      <3>2. w.created = clock
        BY <1>2 DEF WorkFields
      <3> HIDE DEF w
      <3>3. /\ work'[r] = w
            /\ \A q \in Requests \ {r} : stage'[q] = stage[q] /\ work'[q] = work[q]
        BY <1>2, <3>1 DEF Continue
      <3>4. Stamps(r)' \subseteq Stamps(r) \cup {clock}
        BY <1>1, <3>1, <3>2, <3>3 DEF Stamps
      <3>. QED
        BY <1>1, <3>1, <3>3, <3>4 DEF Frame
    <2>. QED
      BY <2>1, <2>2
  <1>5. CASE AddTrace(r)
    <2> DEFINE row == [key |-> Key(command[r]), tenant |-> command[r].tenant,
                       by |-> r, created |-> work[r].created]
    <2>1. /\ IsAt(r, "create", "absent") /\ clock' = clock
          /\ Insert(r, "traces", traces, row, "handled")
      BY <1>5 DEF AddTrace
    <2>2. row.created = work[r].created
      OBVIOUS
    <2> HIDE DEF row
    <2>3. CASE \E t \in traces : t.key = row.key
      BY <1>1, <2>1, <2>3, RaisesFrame DEF Insert
    <2>4. CASE ~\E t \in traces : t.key = row.key
      <3>1. Continue(r, "handled", [work[r] EXCEPT !.outcome = "ok"])
        BY <2>1, <2>4 DEF Insert
      <3>2. writes' = [writes EXCEPT ![r]["traces"] = @ \cup {row}]
        BY <2>1, <2>4 DEF Insert
      <3>3. /\ \A q \in Requests \ {r} : writes'[q] = writes[q]
            /\ writes'[r].traces = writes[r].traces \cup {row}
        BY <1>2, <3>2 DEF WriteTables
      <3>4. /\ stage'[r] = "handled"
            /\ \A q \in Requests \ {r} : stage'[q] = stage[q] /\ work'[q] = work[q]
        BY <1>2, <3>1 DEF Continue
      <3>5. row.created \in Stamps(r)
        BY <2>1, <2>2 DEF Stamps
      <3>6. Stamps(r)' \subseteq Stamps(r)
        BY <1>1, <3>3, <3>4, <3>5 DEF Stamps, IsAt
      <3>. QED
        BY <1>1, <2>1, <3>3, <3>4, <3>6 DEF Frame
    <2>. QED
      BY <2>3, <2>4
  <1>6. CASE GetTrace(r)
    BY <1>1, <1>6, RaisesFrame, ReturnsFrame DEF GetTrace
  <1>7. CASE ListPage(r)
    <2>1. \/ Returns(r) \/ Raises(r, "invalid")
          \/ \E w : Continue(r, "paging", w) /\ writes' = writes
      BY <1>7, Zenon DEF ListPage
    <2>2. clock' = clock
      BY <1>7 DEF ListPage
    <2>. QED
      BY <1>1, <2>1, <2>2, RaisesFrame, ReturnsFrame, PlainFrame
  <1>8. CASE Inspect(r)
    BY <1>1, <1>8, RaisesFrame, PlainFrame DEF Inspect
  <1>9. CASE CopyContent(r)
    BY <1>1, <1>9, RaisesFrame, PlainFrame DEF CopyContent
  <1>10. CASE PlaceObject(r)
    BY <1>1, <1>10, PlainFrame DEF PlaceObject
  <1>11. CASE AddArtifact(r)
    BY <1>1, <1>11, InsertFrame DEF AddArtifact
  <1>12. CASE AddMessage(r)
    <2>1. Continue(r, "handled", work[r]) /\ clock' = clock
      BY <1>12 DEF AddMessage
    <2>2. /\ \A q \in Requests \ {r} : writes'[q] = writes[q]
          /\ writes'[r].traces = writes[r].traces
      BY <1>2, <1>12 DEF AddMessage, WriteTables
    <2>. QED
      BY <1>1, <2>1, <2>2, PlainFrame
  <1>13. CASE LoadAndParse(r)
    BY <1>1, <1>13, RaisesFrame, PlainFrame DEF LoadAndParse
  <1>14. CASE SelectSnapshot(r)
    BY <1>1, <1>14, PlainFrame DEF SelectSnapshot
  <1>15. CASE SaveSnapshot(r)
    <2>1. clock' = clock
      BY <1>15 DEF SaveSnapshot
    <2>2. CASE work[r].row = {}
      BY <1>1, <1>15, <2>1, <2>2, InsertFrame DEF SaveSnapshot
    <2>3. CASE work[r].row # {}
      <3>1. PICK old \in work[r].row :
               IF Assigned(r, old) = {}
               THEN Returns(r)
               ELSE /\ Continue(r, "handled", [work[r] EXCEPT !.outcome = "ok"])
                    /\ writes' = [writes EXCEPT ![r].updated =
                                     {[key |-> Key(command[r]), columns |-> Assigned(r, old)]}]
        BY <1>15, <2>3 DEF SaveSnapshot
      <3>2. CASE Assigned(r, old) = {}
        BY <1>1, <2>1, <3>1, <3>2, ReturnsFrame
      <3>3. CASE Assigned(r, old) # {}
        <4>1. Continue(r, "handled", [work[r] EXCEPT !.outcome = "ok"])
          BY <3>1, <3>3
        <4>2. /\ \A q \in Requests \ {r} : writes'[q] = writes[q]
              /\ writes'[r].traces = writes[r].traces
          BY <1>2, <3>1, <3>3 DEF WriteTables
        <4>. QED
          BY <1>1, <2>1, <4>1, <4>2, PlainFrame
      <3>. QED
        BY <3>2, <3>3
    <2>. QED
      BY <2>2, <2>3
  <1>. QED
    BY <1>1, <1>3, <1>4, <1>5, <1>6, <1>7, <1>8, <1>9, <1>10, <1>11, <1>12, <1>13, <1>14, <1>15
    DEF Handle

LEMMA EndsFrame ==
    ASSUME RequestsInv, TracesAreListed, NEW r \in Requests, NEW s \in {"answered", "committed", "done"},
           NEW outcome, Ends(r, s, outcome),
           traces' = traces \/ Apply(r),
           writes' = writes \/ writes' = [writes EXCEPT ![r] = NoWrites]
    PROVE  /\ Frame(r) /\ TracesAreListed'
           /\ stage'[r] = s /\ answer'[r] = outcome
           /\ work'[r].seen = work[r].seen /\ work'[r].expected = work[r].expected
  <1>1. /\ stage'[r] = s /\ answer'[r] = outcome
        /\ \A q \in Requests \ {r} :
              stage'[q] = stage[q] /\ work'[q] = work[q] /\ answer'[q] = answer[q]
        /\ command' = command /\ clock' = clock
    BY EndsStep
  <1>2. work'[r].seen = work[r].seen /\ work'[r].expected = work[r].expected
    <2> DEFINE w == [work[r] EXCEPT !.row = {}, !.copy = NoContent, !.created = 0, !.offset = 0]
    <2>1. work' = [work EXCEPT ![r] = w]
      BY DEF Ends, RequestsInv, Shapes, WorkFields
    <2>2. w.seen = work[r].seen /\ w.expected = work[r].expected
      BY DEF RequestsInv, Shapes, WorkFields
    <2> HIDE DEF w
    <2>. QED
      BY <2>1, <2>2 DEF RequestsInv, Shapes
  <1>3. /\ \A q \in Requests \ {r} : writes'[q] = writes[q]
        /\ writes'[r].traces \subseteq writes[r].traces
    BY DEF RequestsInv, Shapes, NoWrites
  <1>4. /\ \A x \in writes[r].traces : x.key = Key(command[r]) /\ x.by = r
        /\ \A x, y \in writes[r].traces : x = y
    BY DEF RequestsInv, Local, FlushesItsOwn
  <1>5. traces' = traces \/ traces' = traces \cup writes[r].traces
    BY DEF Apply
  <1>6. Stamps(r)' \subseteq Stamps(r)
    BY <1>1, <1>3, <1>5 DEF Stamps, IsAt
  <1>7. Frame(r)
    BY <1>1, <1>3, <1>4, <1>5, <1>6 DEF Frame
  <1>8. IsFiniteSet(traces')
    <2>1. CASE traces' = traces \/ writes[r].traces = {}
      BY <1>5, <2>1 DEF TracesAreListed
    <2>2. CASE traces' = traces \cup writes[r].traces /\ writes[r].traces # {}
      <3>1. PICK x : writes[r].traces = {x}
        BY <1>4, <2>2
      <3>. QED
        BY <2>2, <3>1, FS_AddElement DEF TracesAreListed
    <2>. QED
      BY <1>5, <2>1, <2>2
  <1>9. \A t \in traces' : t.key = Key(command[t.by])
    BY <1>4, <1>5 DEF TracesAreListed
  <1>10. TracesAreListed'
    BY <1>1, <1>7, <1>8, <1>9, StampsKeep DEF TracesAreListed, Key
  <1>. QED
    BY <1>1, <1>2, <1>7, <1>10

(* A page: its rows are given to the client, and the offset stays in front *)
(* of what is still to come; an empty one ends the listing.                *)
LEMMA ListPagePages ==
    ASSUME RequestsInv, TracesAreListed, NEW r \in Requests, ListPage(r), PagesWell(r),
           command' = command, traces' = traces
    PROVE  PagesWell(r)'
  <1> DEFINE rows == Rows(r)
             limit == command[r].limit
             offset == work[r].offset
             page == Page(rows, offset, limit)
  <1>1. IsKind(r, "list") /\ stage[r] \in {"waiting", "paging"}
    BY DEF ListPage, Starts, IsAt, IsKind
  <1>2. /\ DOMAIN stage = Requests /\ DOMAIN work = Requests /\ DOMAIN work[r] = WorkFields
        /\ MaxLimit \in Nat
    BY RequestsAssumption DEF RequestsInv, TypeOK, Shapes
  <1>3. IsListing(rows)
    BY RowsAreListing
  <1>4. Rows(r)' = rows
    BY DEF Rows, InScope
  <1>5. \A t : Rank(t, rows) \in Nat
    BY <1>3, RankIsNat DEF IsListing
  <1>6. /\ offset \in Nat
        /\ work[r].expected \subseteq rows
        /\ \A t \in work[r].expected : t \in work[r].seen \/ Rank(t, rows) >= offset
    BY <1>1 DEF PagesWell
  <1>7. CASE limit \notin 1 .. MaxLimit
    <2>1. Raises(r, "invalid")
      BY <1>7 DEF ListPage
    <2>2. stage'[r] = "raised"
      BY <1>2, <2>1 DEF Raises, Continue
    <2>. QED
      BY <2>2 DEF PagesWell
  <1>8. CASE limit \in 1 .. MaxLimit /\ page = {}
    <2> DEFINE w == [work[r] EXCEPT !.outcome = "ok"]
    <2>1. Continue(r, "handled", w)
      BY <1>8 DEF ListPage, Returns
    <2>2. w.seen = work[r].seen /\ w.expected = work[r].expected
      BY <1>2 DEF WorkFields
    <2> HIDE DEF w
    <2>3. stage'[r] = "handled" /\ work'[r] = w
      BY <1>2, <2>1 DEF Continue
    <2>4. \A t \in rows : Rank(t, rows) < offset
      BY <1>2, <1>3, <1>6, <1>8, EmptyPageIsTheEnd
    <2>5. work[r].expected \subseteq work[r].seen
      BY <1>5, <1>6, <2>4
    <2>. QED
      BY <2>2, <2>3, <2>5 DEF PagesWell
  <1>9. CASE limit \in 1 .. MaxLimit /\ page # {}
    <2> DEFINE expected == IF stage[r] = "paging" THEN work[r].expected ELSE rows
               w == [work[r] EXCEPT !.offset = @ + Cardinality(page),
                                    !.seen = @ \cup page,
                                    !.expected = expected]
    <2>1. Continue(r, "paging", w)
      <3>1. Continue(r, "paging", [work[r] EXCEPT
                 !.offset = @ + Cardinality(page),
                 !.seen = @ \cup page,
                 !.expected = IF stage[r] = "paging" THEN @ ELSE rows])
        BY <1>9 DEF ListPage
      <3>. QED
        BY <1>2, <3>1 DEF WorkFields
    <2>2. /\ w.offset = offset + Cardinality(page)
          /\ w.seen = work[r].seen \cup page
          /\ w.expected = expected
      BY <1>2 DEF WorkFields
    <2> HIDE DEF w
    <2>3. stage'[r] = "paging" /\ work'[r] = w
      BY <1>2, <2>1 DEF Continue
    <2>4. limit \in Nat /\ limit # 0
      BY <1>2, <1>9
    <2>5. Cardinality(page) \in Nat /\ Cardinality(page) <= limit
      BY <1>3, <1>6, <2>4, PageIsBounded
    <2>6. expected \subseteq rows
      BY <1>6
    <2>7. ASSUME NEW t \in expected
          PROVE  t \in w.seen \/ Rank(t, rows) >= w.offset
      <3>1. t \in work[r].seen \/ Rank(t, rows) >= offset
        BY <1>1, <1>5, <1>6 DEF PagesWell
      <3>2. CASE Rank(t, rows) \in offset .. offset + limit - 1
        BY <2>2, <2>6, <3>2 DEF Page, Rank
      <3>3. CASE Rank(t, rows) >= offset /\ Rank(t, rows) \notin offset .. offset + limit - 1
        <4>1. Rank(t, rows) >= offset + limit
          BY <1>5, <1>6, <2>4, <3>3
        <4> HIDE DEF page, rows, offset, limit
        <4>. QED
          BY <1>5, <1>6, <2>2, <2>4, <2>5, <4>1
      <3>. QED
        BY <2>2, <3>1, <3>2, <3>3
    <2>8. \A t : Rank(t, Rows(r))' = Rank(t, rows)
      BY <1>4 DEF Rank, Newer
    <2>9. w.offset \in Nat
      BY <1>6, <2>2, <2>5
    <2>. QED
      BY <1>4, <2>2, <2>3, <2>6, <2>7, <2>8, <2>9 DEF PagesWell
  <1>. QED
    BY <1>7, <1>8, <1>9

LEMMA HandlePages ==
    ASSUME RequestsInv, ListingInv, NEW r \in Requests, Handle(r)
    PROVE  ListingInv'
  <1>1. Frame(r) /\ traces' = traces /\ command' = command
    BY HandleFrames DEF Frame
  <1>2. TracesAreListed'
    BY <1>1, StampsKeep DEF ListingInv, TracesAreListed, Key
  <1>3. PagesWell(r)'
    <2>1. CASE ~IsKind(r, "list")
      BY <1>1, <2>1 DEF PagesWell, IsKind
    <2>2. CASE IsKind(r, "list") /\ Refuse(r)
      BY <2>2 DEF Refuse, Raises, Continue, PagesWell, RequestsInv, TypeOK
    <2>3. CASE IsKind(r, "list") /\ ListPage(r)
      BY <1>1, <2>3, ListPagePages DEF ListingInv
    <2>. QED
      BY <2>1, <2>2, <2>3
      DEF Handle, IsKind, LookUp, AddTrace, GetTrace, Inspect, CopyContent, PlaceObject,
          AddArtifact, AddMessage, LoadAndParse, SelectSnapshot, SaveSnapshot, Starts, IsAt
  <1>4. \A q \in Requests \ {r} : PagesWell(q)'
    BY <1>1, <1>2, PagesKeep DEF ListingInv, TracesAreListed
  <1>. QED
    BY <1>2, <1>3, <1>4 DEF ListingInv

(* The end of a session, after which nothing changes in what the client    *)
(* has.                                                                    *)
LEMMA EndsPages ==
    ASSUME RequestsInv, ListingInv, NEW r \in Requests,
           NEW s \in {"answered", "committed", "done"}, NEW outcome, Ends(r, s, outcome),
           traces' = traces \/ Apply(r),
           writes' = writes \/ writes' = [writes EXCEPT ![r] = NoWrites],
           \/ stage[r] \in {"handled", "answered", "committed"}
           \/ outcome \notin {"ok"} /\ s \in {"done"}
    PROVE  ListingInv'
  <1>1. /\ Frame(r) /\ TracesAreListed'
        /\ stage'[r] = s /\ answer'[r] = outcome
        /\ work'[r].seen = work[r].seen /\ work'[r].expected = work[r].expected
    BY EndsFrame DEF ListingInv
  <1>2. PagesWell(r)'
    BY <1>1 DEF ListingInv, PagesWell, IsKind, Frame
  <1>3. \A q \in Requests \ {r} : PagesWell(q)'
    BY <1>1, PagesKeep DEF ListingInv, TracesAreListed
  <1>. QED
    BY <1>1, <1>2, <1>3 DEF ListingInv

LEMMA ProceedPages ==
    ASSUME RequestsInv, ListingInv, NEW r \in Requests, Proceed(r) \/ CommitFails(r) \/ Fails(r)
    PROVE  ListingInv'
  <1>1. CASE Handle(r)
    BY <1>1, HandlePages
  <1>2. CASE Commit(r)
    <2> DEFINE s == IF commitsFirst THEN "committed" ELSE "done"
    <2>1. /\ Ends(r, s, answer[r]) /\ Apply(r)
          /\ writes' = [writes EXCEPT ![r] = NoWrites]
          /\ stage[r] \in {"handled", "answered", "committed"}
          /\ s \in {"answered", "committed", "done"}
      BY <1>2 DEF Commit, IsReadyToCommit
    <2> HIDE DEF s
    <2>. QED
      BY <2>1, EndsPages
  <1>3. CASE CommitFails(r)
    <2>1. traces' = traces \/ Apply(r)
      BY <1>3 DEF CommitFails, tables
    <2>. QED
      BY <1>3, <2>1, EndsPages DEF CommitFails, IsReadyToCommit
  <1>4. CASE Respond(r)
    <2> DEFINE s == IF commitsFirst THEN "done" ELSE "answered"
    <2>1. /\ Ends(r, s, "ok") /\ traces' = traces /\ writes' = writes
          /\ stage[r] \in {"handled", "answered", "committed"}
          /\ s \in {"answered", "committed", "done"}
      BY <1>4 DEF Respond, tables
    <2> HIDE DEF s
    <2>. QED
      BY <2>1, EndsPages
  <1>5. CASE Rollback(r)
    <2>1. work[r].outcome # "ok"
      BY <1>5 DEF Rollback, RequestsInv, Local, AnswerIsTrue, Refusals
    <2>. QED
      BY <1>5, <2>1, EndsPages DEF Rollback, tables
  <1>6. CASE Fails(r)
    <2>1. Raises(r, "failed") /\ traces' = traces /\ command' = command
          /\ clock' = clock /\ answer' = answer
      BY <1>6 DEF Fails, tables
    <2>2. Frame(r)
      BY <2>1, RaisesFrame
    <2>3. TracesAreListed'
      BY <2>1, <2>2, StampsKeep DEF ListingInv, TracesAreListed, Key
    <2>4. PagesWell(r)'
      BY <2>1 DEF Raises, Continue, PagesWell, RequestsInv, TypeOK
    <2>5. \A q \in Requests \ {r} : PagesWell(q)'
      BY <2>2, <2>3, PagesKeep DEF ListingInv, TracesAreListed
    <2>. QED
      BY <2>3, <2>4, <2>5 DEF ListingInv
  <1>. QED
    BY <1>1, <1>2, <1>3, <1>4, <1>5, <1>6 DEF Proceed

LEMMA ListingInitInv == Init => ListingInv
  <1> SUFFICES ASSUME Init
               PROVE  ListingInv
    OBVIOUS
  <1>1. TracesAreListed
    <2>1. \A r \in Requests : Stamps(r) = {}
      BY DEF Init, Stamps, IsAt, NoWrites
    <2>. QED
      BY <2>1, FS_EmptySet DEF Init, TracesAreListed, StampsAreUnique
  <1>2. ASSUME NEW r \in Requests
        PROVE  PagesWell(r)
    BY DEF Init, PagesWell, NoWork
  <1>. QED
    BY <1>1, <1>2 DEF ListingInv

LEMMA ListingStepInv == RequestsInv /\ ListingInv /\ [Next]_vars => ListingInv'
  <1> SUFFICES ASSUME RequestsInv, ListingInv, [Next]_vars
               PROVE  ListingInv'
    OBVIOUS
  <1>1. ASSUME UNCHANGED <<command, traces, stage, work, writes, answer, clock>>
        PROVE  ListingInv'
    <2>1. TracesAreListed'
      BY <1>1 DEF ListingInv, TracesAreListed, StampsAreUnique, Stamps, IsAt, Key
    <2>2. ASSUME NEW r \in Requests
          PROVE  PagesWell(r)'
      <3>1. Rows(r)' = Rows(r)
        BY <1>1 DEF Rows, InScope
      <3>2. \A t : Rank(t, Rows(r))' = Rank(t, Rows(r))
        BY <3>1 DEF Rank, Newer
      <3>. QED
        BY <1>1, <3>1, <3>2 DEF ListingInv, PagesWell, IsKind
    <2>. QED
      BY <2>1, <2>2 DEF ListingInv
  <1>2. CASE Crash
    <2>1. UNCHANGED <<command, traces, work, answer, clock>>
      BY <1>2 DEF Crash, tables
    <2>2. \A r \in Requests :
             /\ stage'[r] = IF stage[r] \in Open THEN "done" ELSE stage[r]
             /\ writes'[r] = NoWrites
      BY <1>2 DEF Crash
    <2>3. \A r \in Requests : Stamps(r)' \subseteq Stamps(r)
      BY <2>1, <2>2 DEF Stamps, IsAt, NoWrites, Open
    <2>4. TracesAreListed'
      BY <2>1, <2>3 DEF ListingInv, TracesAreListed, StampsAreUnique, Key
    <2>5. ASSUME NEW r \in Requests
          PROVE  PagesWell(r)'
      <3>1. stage'[r] \in {"waiting", "done"} /\ (stage'[r] = "waiting" => stage[r] = "waiting")
        BY <2>2 DEF RequestsInv, TypeOK, Open
      <3>2. answer[r] = "ok" => stage[r] \in {"answered", "done"}
        BY DEF RequestsInv, TypeOK
      <3>. QED
        BY <2>1, <3>1, <3>2 DEF ListingInv, PagesWell, IsKind
    <2>. QED
      BY <2>4, <2>5 DEF ListingInv
  <1>3. CASE ReplaceFile
    BY <1>1, <1>3 DEF ReplaceFile, tables
  <1>4. CASE UNCHANGED vars
    BY <1>1, <1>4 DEF vars, tables
  <1>. QED
    BY <1>2, <1>3, <1>4, ProceedPages DEF Next

(* A client that pages through the traces gets every trace that was        *)
(* committed when it began: a row only ever moves back, and the offset     *)
(* stays in front of the rows that were not given.                         *)
THEOREM PagingAlwaysMissesNothing == Spec => []PagingMissesNothing
  <1>1. RequestsInv /\ ListingInv => PagingMissesNothing
    <2> SUFFICES ASSUME RequestsInv, ListingInv, NEW r \in Requests,
                        command[r].kind = "list", answer[r] = "ok"
                 PROVE  work[r].expected \subseteq work[r].seen
      BY DEF PagingMissesNothing
    <2>1. stage[r] \in {"answered", "done"}
      BY DEF RequestsInv, TypeOK
    <2>. QED
      BY <2>1 DEF ListingInv, PagesWell, IsKind
  <1>. QED
    BY <1>1, RequestsInvariant, RequestsInitInv, ListingInitInv, ListingStepInv, PTL DEF Spec
=============================================================================
