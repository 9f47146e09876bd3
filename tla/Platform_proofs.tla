-------------------------- MODULE Platform_proofs --------------------------
(***************************************************************************)
(* Proofs about Platform, for any number of messages, workers, batches and *)
(* restarts.                                                               *)
(*                                                                         *)
(* The argument: every step of the application is a step of each of the    *)
(* three components, or leaves it alone.  So each component keeps its own  *)
(* invariant, and what remains to be shown is what ties them together: an  *)
(* event carries a committed message, a message is announced as published  *)
(* only after the runtime accepted its event, and every copy is one more   *)
(* delivery of the outbox, except the one a handler returned.              *)
(***************************************************************************)
EXTENDS Platform, Outbox_proofs, Runtime_proofs

(* The events in order of acceptance, and what the running handler made.   *)
Carried ==
    /\ carries \in Seq(Messages)
    /\ Len(carries) = accepted
    /\ produced \in {0} \cup Messages

(* The follow-up that is about to be returned is committed.                *)
ProducedIsCommitted == produced # 0 => row[produced] # NoRow

(* The table, or the draft of an open batch, says that m is published.     *)
Announced(m) == row[m].status = "published" \/ InFlight(m)

(* What is announced was accepted by the runtime.                          *)
AnnouncedIsAccepted == \A m \in Messages : Announced(m) => Copies(m) # {}

(* The copies of a message are its deliveries, and the one that a handler  *)
(* returned: none as long as that handler has it.                          *)
CopiesCounted ==
    \A m \in Messages :
        /\ Cardinality(Copies(m)) <= delivered[m] + 1
        /\ produced = m => Cardinality(Copies(m)) <= delivered[m]

(* What ties the components together.                                      *)
TiesInv ==
    /\ Carried
    /\ NoPhantomEvent
    /\ ProducedIsCommitted
    /\ AnnouncedIsAccepted
    /\ CopiesCounted

(* The inductive invariant.                                                *)
PlatformInv == OutboxInv /\ RuntimeInv /\ AppInv /\ TiesInv

-----------------------------------------------------------------------------
(* Every step of the application is a step of each component.              *)

(* The outbox.                                                             *)
LEMMA OutboxSteps == [Next]_vars => [OutboxNext]_outboxVars
  <1> SUFFICES ASSUME [Next]_vars PROVE [OutboxNext]_outboxVars
    OBVIOUS
  <1> USE DEF OutboxNext, PublishNext, OutboxUnchanged
  <1>1. CASE ClockTicks
    BY <1>1 DEF ClockTicks
  <1>2. ASSUME NEW m \in Messages, UseCaseCommits(m) PROVE OutboxNext
    BY <1>2 DEF UseCaseCommits
  <1>3. CASE Lifecycle
    BY <1>3 DEF Lifecycle
  <1>4. ASSUME NEW w \in Pollers, PollerStep(w) PROVE [OutboxNext]_outboxVars
    <2>0. w \in Workers
      BY PlatformAssumption
    <2>1. CASE PollerStarts(w) \/ PollerResumes(w)
      BY <2>1 DEF PollerStarts, PollerResumes
    <2>2. CASE BatchBegins(w)
      BY <2>0, <2>2 DEF BatchBegins
    <2>3. CASE BatchIsEmpty(w)
      BY <2>0, <2>3 DEF BatchIsEmpty
    <2>4. ASSUME NEW m \in Messages, BatchPublishes(w, m) \/ BatchIsRefused(w, m)
          PROVE  OutboxNext
      BY <2>0, <2>4 DEF BatchPublishes, BatchIsRefused
    <2>5. CASE BatchCommits(w)
      BY <2>0, <2>5 DEF BatchCommits
    <2>6. CASE BatchErrs(w)
      BY <2>0, <2>6 DEF BatchErrs
    <2>7. CASE PollerIsCancelled(w)
      BY <2>0, <2>7 DEF PollerIsCancelled
    <2>. QED
      BY <1>4, <2>1, <2>2, <2>3, <2>4, <2>5, <2>6, <2>7 DEF PollerStep
  <1>5. CASE AdapterStep
    BY <1>5 DEF AdapterStep, AdapterStarts, AdapterStops, AdapterReturns, AdapterIsCancelled
  <1>6. CASE LoopStep
    <2>1. ASSUME NEW m \in Messages, HandlerCommits(m) PROVE OutboxNext
      BY <2>1 DEF HandlerCommits
    <2>. QED
      BY <1>6, <2>1 DEF LoopStep, LoopTakes, HandlerEnds, HandlerReturns, HandlerFails
  <1>7. CASE UNCHANGED vars
    BY <1>7 DEF vars
  <1>. QED
    BY <1>1, <1>2, <1>3, <1>4, <1>5, <1>6, <1>7 DEF Next

(* The event runtime.                                                      *)
LEMMA RuntimeSteps == [Next]_vars => [RuntimeNext]_runtimeVars
  <1> SUFFICES ASSUME [Next]_vars PROVE [RuntimeNext]_runtimeVars
    OBVIOUS
  <1> USE DEF RuntimeNext, Consume, RuntimeUnchanged
  <1>1. CASE ClockTicks
    BY <1>1 DEF ClockTicks
  <1>2. ASSUME NEW m \in Messages, UseCaseCommits(m) PROVE UNCHANGED runtimeVars
    BY <1>2 DEF UseCaseCommits
  <1>3. CASE Lifecycle
    BY <1>3 DEF Lifecycle
  <1>4. ASSUME NEW w \in Pollers, PollerStep(w) PROVE [RuntimeNext]_runtimeVars
    <2>1. ASSUME NEW m \in Messages, BatchPublishes(w, m) \/ BatchIsRefused(w, m)
          PROVE  [RuntimeNext]_runtimeVars
      BY <2>1 DEF BatchPublishes, BatchIsRefused
    <2>. QED
      BY <1>4, <2>1
      DEF PollerStep, PollerStarts, PollerResumes, BatchBegins, BatchIsEmpty, BatchCommits,
          BatchErrs, PollerIsCancelled
  <1>5. CASE AdapterStep
    BY <1>5 DEF AdapterStep, AdapterStarts, AdapterStops, AdapterReturns,
                AdapterIsCancelled, StopsLoop
  <1>6. CASE LoopStep
    <2>0. 0 \in 0 .. MaxFollowUps /\ 1 \in 0 .. MaxFollowUps
      BY PlatformAssumption
    <2>1. ASSUME NEW m \in Messages, HandlerCommits(m) PROVE UNCHANGED runtimeVars
      BY <2>1 DEF HandlerCommits
    <2>2. CASE LoopTakes
      BY <2>2 DEF LoopTakes
    <2>3. CASE HandlerEnds
      BY <2>0, <2>3 DEF HandlerEnds, HandlerReturns, HandlerFails
    <2>. QED
      BY <1>6, <2>1, <2>2, <2>3 DEF LoopStep
  <1>7. CASE UNCHANGED vars
    BY <1>7 DEF vars
  <1>. QED
    BY <1>1, <1>2, <1>3, <1>4, <1>5, <1>6, <1>7 DEF Next

(* The lifecycle.                                                          *)
LEMMA AppSteps == [Next]_vars => [AppNext]_appVars
  <1> SUFFICES ASSUME [Next]_vars PROVE [AppNext]_appVars
    OBVIOUS
  <1> USE DEF AppNext, WorkerStep, AppUnchanged
  <1>1. CASE ClockTicks
    BY <1>1 DEF ClockTicks
  <1>2. ASSUME NEW m \in Messages, UseCaseCommits(m) PROVE UNCHANGED appVars
    BY <1>2 DEF UseCaseCommits
  <1>3. CASE Lifecycle
    BY <1>3 DEF Lifecycle
  <1>4. ASSUME NEW w \in Pollers, PollerStep(w) PROVE [AppNext]_appVars
    <2>0. w \in ManagedWorkers
      BY DEF ManagedWorkers
    <2>1. ASSUME NEW m \in Messages, BatchPublishes(w, m) \/ BatchIsRefused(w, m)
          PROVE  UNCHANGED appVars
      BY <2>1 DEF BatchPublishes, BatchIsRefused
    <2>. QED
      BY <1>4, <2>0, <2>1
      DEF PollerStep, PollerStarts, PollerResumes, BatchBegins, BatchIsEmpty, BatchCommits,
          BatchErrs, PollerIsCancelled
  <1>5. CASE AdapterStep
    <2>1. Adapter \in ManagedWorkers
      BY PlatformAssumption DEF ManagedWorkers
    <2>. QED
      BY <1>5, <2>1 DEF AdapterStep, AdapterStarts, AdapterStops, AdapterReturns,
                        AdapterIsCancelled
  <1>6. CASE LoopStep
    <2>1. ASSUME NEW m \in Messages, HandlerCommits(m) PROVE UNCHANGED appVars
      BY <2>1 DEF HandlerCommits
    <2>. QED
      BY <1>6, <2>1 DEF LoopStep, LoopTakes, HandlerEnds, HandlerReturns, HandlerFails
  <1>7. CASE UNCHANGED vars
    BY <1>7 DEF vars
  <1>. QED
    BY <1>1, <1>2, <1>3, <1>4, <1>5, <1>6, <1>7 DEF Next

(* In the running application the table is used by the rules of Outbox:    *)
(* whatever is proved of the outbox holds there.                           *)
THEOREM PlatformRunsTheOutbox == Spec => OutboxSpec
  <1>1. Init => OutboxInit
    BY DEF Init
  <1>. QED
    BY <1>1, OutboxSteps, PTL DEF Spec, OutboxSpec

(* In the running application the queue and its loop are used by the rules *)
(* of EventRuntime: nobody starts, stops or feeds it in another way.       *)
THEOREM PlatformRunsTheRuntime == Spec => RuntimeSpec
  <1>1. Init => RuntimeInit
    BY DEF Init
  <1>. QED
    BY <1>1, RuntimeSteps, PTL DEF Spec, RuntimeSpec

(* In the running application the managed workers live by the rules of     *)
(* ApplicationRuntime, although their batches and waits now depend on the  *)
(* outbox and on the event loop.                                           *)
THEOREM PlatformRunsTheLifecycle == Spec => AppSpec
  <1>1. Init => AppInit
    BY DEF Init
  <1>. QED
    BY <1>1, AppSteps, PTL DEF Spec, AppSpec

-----------------------------------------------------------------------------
(* What the components promise each other.                                 *)

(* The outbox never removes a row.                                         *)
LEMMA RowsStay ==
    ASSUME OutboxInv, [OutboxNext]_outboxVars, NEW m \in Messages, row[m] # NoRow
    PROVE  row'[m] # NoRow
  <1>1. ASSUME NEW k \in Messages, Enqueue(k) PROVE row'[m] # NoRow
    <2>1. k # m /\ row'[m] = row[m]
      BY <1>1 DEF Enqueue, OutboxInv, OutboxTypeOK
    <2>. QED
      BY <2>1
  <1>2. ASSUME NEW w \in Workers, Commit(w) PROVE row'[m] # NoRow
    BY <1>2 DEF Commit, Processed
  <1>. QED
    BY <1>1, <1>2 DEF OutboxNext, Tick, BeginBatch, IdlePoll, PublishNext, PublishSucceeds,
                      PublishFails, Rollback, outboxVars

(* No message becomes announced without a delivery.                        *)
LEMMA AnnouncedByDelivery ==
    ASSUME OutboxInv, [OutboxNext]_outboxVars, delivered' = delivered,
           NEW m \in Messages, Announced(m)'
    PROVE  Announced(m)
  <1> USE DEF Announced, InFlight
  <1>0. /\ row \in [Messages -> Row \cup {NoRow}]
        /\ draft \in [Workers -> [Messages -> Row \cup {NoRow}]]
        /\ claimed \in [Workers -> SUBSET Messages]
        /\ delivered \in [Messages -> Nat]
    BY DEF OutboxInv, OutboxTypeOK
  <1>1. CASE UNCHANGED <<row, draft>>
    BY <1>1
  <1>2. ASSUME NEW k \in Messages, Enqueue(k) PROVE Announced(m)
    <2>1. row'[m].status = "published" => row[m].status = "published"
      BY <1>0, <1>2 DEF Enqueue, Create
    <2>. QED
      BY <1>2, <2>1 DEF Enqueue
  <1>3. ASSUME NEW w \in Workers, NEW k \in Messages, PublishSucceeds(w, k) PROVE FALSE
    <2>1. delivered'[k] = delivered[k] + 1 /\ delivered[k] \in Nat
      BY <1>0, <1>3 DEF PublishSucceeds
    <2>. QED
      BY <2>1
  <1>4. ASSUME NEW w \in Workers, NEW k \in Messages, PublishFails(w, k) PROVE Announced(m)
    <2>1. row[k] \in Row /\ row[k].attempt_count < MaxAttempts /\ now \in Nat
      BY <1>4, NextMessage DEF PublishFails, OutboxInv, OutboxTypeOK
    <2>2. AfterFailure(row[k]).status \in {"failed", "pending"}
      BY <2>1, AfterFailureRow
    <2>3. ASSUME NEW v \in Workers, draft'[v][m].status = "published"
          PROVE  draft[v][m].status = "published"
      <3>1. CASE v = w /\ m = k
        BY <1>0, <1>4, <2>2, <2>3, <3>1 DEF PublishFails
      <3>2. CASE v # w \/ m # k
        BY <1>0, <1>4, <2>3, <3>2 DEF PublishFails
      <3>. QED
        BY <3>1, <3>2
    <2>. QED
      BY <1>4, <2>3 DEF PublishFails
  <1>5. ASSUME NEW w \in Workers, Commit(w) \/ Rollback(w) PROVE Announced(m)
    <2>1. \A v \in Workers : draft'[v][m].status = "published" => draft[v][m].status = "published"
      <3> SUFFICES ASSUME NEW v \in Workers, draft'[v][m].status = "published"
                   PROVE  draft[v][m].status = "published"
        OBVIOUS
      <3>1. draft' = [draft EXCEPT ![w] = [n \in Messages |-> NoRow]]
        BY <1>5 DEF Commit, Rollback, CloseSession
      <3>2. CASE v = w
        BY <1>0, <3>1, <3>2 DEF NoRow
      <3>3. CASE v # w
        BY <1>0, <3>1, <3>3
      <3>. QED
        BY <3>2, <3>3
    <2>2. row'[m] = row[m] \/ row'[m] = draft[w][m]
      BY <1>5 DEF Commit, Rollback
    <2>. QED
      BY <2>1, <2>2
  <1>. QED
    BY <1>1, <1>2, <1>3, <1>4, <1>5
    DEF OutboxNext, Tick, BeginBatch, IdlePoll, PublishNext, outboxVars

(* A row that is being processed is in the table.                          *)
LEMMA BatchIsCommitted ==
    ASSUME OutboxInv, NEW w \in Workers, NEW m \in Messages, IsNext(w, m)
    PROVE  row[m] # NoRow
  BY NextMessage DEF NoRow

(* A message is never both published in the table and in an open batch.    *)
LEMMA AnnouncedOnce ==
    ASSUME OutboxInv, NEW m \in Messages
    PROVE  ~(row[m].status = "published" /\ InFlight(m))
  BY DEF OutboxInv, LocksProtect, InFlight, NoRow

-----------------------------------------------------------------------------
(* The copies of a message.                                                *)

(* There are finitely many, and none is beyond the last accepted event.    *)
LEMMA CopiesAreFinite ==
    ASSUME accepted \in Nat, NEW m
    PROVE  /\ IsFiniteSet(Copies(m))
           /\ Cardinality(Copies(m)) \in Nat
           /\ accepted + 1 \notin Copies(m)
  <1>1. IsFiniteSet(1 .. accepted)
    BY FS_Interval
  <1>2. IsFiniteSet(Copies(m))
    BY <1>1, FS_Subset DEF Copies
  <1>. QED
    BY <1>2, FS_CardinalityType DEF Copies

(* Nothing is accepted: the copies are the same.                           *)
LEMMA SameCopies ==
    ASSUME UNCHANGED <<carries, accepted>>
    PROVE  \A m : Copies(m)' = Copies(m)
  BY DEF Copies

(* The runtime accepts an event that carries k: one more copy of k.        *)
LEMMA OneMoreCopy ==
    ASSUME Carried, accepted \in Nat, NEW k \in Messages,
           carries' = Append(carries, k), accepted' = accepted + 1
    PROVE  /\ carries' \in Seq(Messages)
           /\ Len(carries') = accepted'
           /\ carries'[accepted'] = k
           /\ \A e \in 1 .. accepted : carries'[e] = carries[e]
           /\ Copies(k)' = Copies(k) \cup {accepted + 1}
           /\ Cardinality(Copies(k)') = Cardinality(Copies(k)) + 1
           /\ \A m : m # k => Copies(m)' = Copies(m)
  <1>1. /\ carries' \in Seq(Messages)
        /\ Len(carries') = accepted'
        /\ carries'[accepted'] = k
        /\ \A e \in 1 .. accepted : carries'[e] = carries[e]
    BY DEF Carried
  <1>2. 1 .. accepted' = (1 .. accepted) \cup {accepted + 1}
    OBVIOUS
  <1>3. \A m : Copies(m)' = {e \in 1 .. accepted' : carries'[e] = m}
    BY DEF Copies
  <1>4. Copies(k)' = Copies(k) \cup {accepted + 1}
    BY <1>1, <1>2, <1>3 DEF Copies
  <1>5. \A m : m # k => Copies(m)' = Copies(m)
    BY <1>1, <1>2, <1>3 DEF Copies
  <1>6. Cardinality(Copies(k) \cup {accepted + 1}) = Cardinality(Copies(k)) + 1
    BY CopiesAreFinite, FS_AddElement
  <1>. QED
    BY <1>1, <1>4, <1>5, <1>6

-----------------------------------------------------------------------------
(* The ties hold.                                                          *)

(* Before anything is committed there is nothing to tie.                   *)
LEMMA InitTies == Init => TiesInv
  <1> SUFFICES ASSUME Init PROVE TiesInv
    OBVIOUS
  <1> USE DEF Init, OutboxInit, RuntimeInit
  <1>1. Carried /\ NoPhantomEvent /\ ProducedIsCommitted
    BY DEF Carried, NoPhantomEvent, ProducedIsCommitted
  <1>2. AnnouncedIsAccepted
    BY DEF AnnouncedIsAccepted, Announced, InFlight, NoRow
  <1>3. \A m : Copies(m) = {}
    BY DEF Copies
  <1>4. CopiesCounted
    <2>1. \A m : Cardinality(Copies(m)) = 0
      BY <1>3, FS_EmptySet
    <2>2. \A m \in Messages : delivered[m] = 0 /\ produced # m
      BY PlatformAssumption
    <2>. QED
      BY <2>1, <2>2 DEF CopiesCounted
  <1>. QED
    BY <1>1, <1>2, <1>4 DEF TiesInv

(* The types the steps below rely on.                                      *)
LEMMA TieTypes ==
    ASSUME PlatformInv
    PROVE  /\ accepted \in Nat
           /\ delivered \in [Messages -> Nat]
           /\ \A m \in Messages : delivered[m] \in Nat
           /\ \A m : Cardinality(Copies(m)) \in Nat
           /\ 0 \notin Messages
           /\ \A e \in 1 .. accepted : carries[e] \in Messages
  <1>1. accepted \in Nat
    BY RuntimeAssumption DEF PlatformInv, RuntimeInv, RuntimeTypeOK
  <1>2. delivered \in [Messages -> Nat]
    BY DEF PlatformInv, OutboxInv, OutboxTypeOK
  <1>3. 0 \notin Messages
    BY PlatformAssumption
  <1>4. \A e \in 1 .. accepted : carries[e] \in Messages
    BY <1>1 DEF PlatformInv, TiesInv, Carried
  <1>. QED
    BY <1>1, <1>2, <1>3, <1>4, CopiesAreFinite

(* A step that accepts no event, delivers nothing and commits no follow-up *)
(* leaves the ties as they are.                                            *)
LEMMA QuietStep ==
    ASSUME PlatformInv, [OutboxNext]_outboxVars,
           UNCHANGED <<carries, accepted, delivered>>, produced' \in {0, produced}
    PROVE  TiesInv'
  <1> USE DEF PlatformInv, TiesInv
  <1>1. \A m : Copies(m)' = Copies(m)
    BY SameCopies
  <1>2. Carried'
    BY DEF Carried
  <1>3. NoPhantomEvent'
    <2> SUFFICES ASSUME NEW e \in 1 .. accepted PROVE row'[carries[e]] # NoRow
      BY DEF NoPhantomEvent
    <2>1. carries[e] \in Messages /\ row[carries[e]] # NoRow
      BY TieTypes DEF NoPhantomEvent
    <2>. QED
      BY <2>1, RowsStay
  <1>4. ProducedIsCommitted'
    BY RowsStay DEF ProducedIsCommitted, Carried
  <1>5. AnnouncedIsAccepted'
    <2> SUFFICES ASSUME NEW m \in Messages, Announced(m)' PROVE Copies(m)' # {}
      BY DEF AnnouncedIsAccepted
    <2>. QED
      BY <1>1, AnnouncedByDelivery DEF AnnouncedIsAccepted
  <1>6. CopiesCounted'
    BY <1>1, TieTypes DEF CopiesCounted
  <1>. QED
    BY <1>2, <1>3, <1>4, <1>5, <1>6

(* The outbox worker publishes: one delivery and one copy more.            *)
LEMMA BatchPublishesTies ==
    ASSUME PlatformInv, NEW w \in Pollers, NEW k \in Messages, BatchPublishes(w, k)
    PROVE  TiesInv'
  <1> USE DEF PlatformInv, TiesInv
  <1>0. w \in Workers
    BY PlatformAssumption
  <1>1. /\ carries' = Append(carries, k)
        /\ accepted' = accepted + 1
        /\ produced' = produced
        /\ row' = row
        /\ delivered' = [delivered EXCEPT ![k] = @ + 1]
        /\ draft' = [draft EXCEPT ![w][k] = MarkPublished(MarkAttempted(row[k]))]
        /\ IsNext(w, k)
    BY DEF BatchPublishes, PublishSucceeds, Publish
  <1>2. row[k] # NoRow
    BY <1>0, <1>1, BatchIsCommitted
  <1>3. /\ carries' \in Seq(Messages)
        /\ Len(carries') = accepted'
        /\ carries'[accepted'] = k
        /\ \A e \in 1 .. accepted : carries'[e] = carries[e]
        /\ Copies(k)' = Copies(k) \cup {accepted + 1}
        /\ Cardinality(Copies(k)') = Cardinality(Copies(k)) + 1
        /\ \A m : m # k => Copies(m)' = Copies(m)
    BY <1>1, OneMoreCopy, TieTypes
  <1>4. Carried'
    BY <1>1, <1>3 DEF Carried
  <1>5. NoPhantomEvent'
    <2> SUFFICES ASSUME NEW e \in 1 .. accepted' PROVE row[carries'[e]] # NoRow
      BY <1>1 DEF NoPhantomEvent
    <2>1. e = accepted' \/ e \in 1 .. accepted
      BY <1>1, TieTypes
    <2>. QED
      BY <1>2, <1>3, <2>1 DEF NoPhantomEvent
  <1>6. ProducedIsCommitted'
    BY <1>1 DEF ProducedIsCommitted
  <1>7. AnnouncedIsAccepted'
    <2> SUFFICES ASSUME NEW m \in Messages, Announced(m)' PROVE Copies(m)' # {}
      BY DEF AnnouncedIsAccepted
    <2>1. CASE m = k
      BY <1>3, <2>1
    <2>2. CASE m # k
      <3>1. \A v \in Workers : draft'[v][m] = draft[v][m]
        BY <1>1, <2>2 DEF OutboxInv, OutboxTypeOK
      <3>2. Announced(m)
        BY <1>1, <3>1 DEF Announced, InFlight
      <3>. QED
        BY <1>3, <2>2, <3>2 DEF AnnouncedIsAccepted
    <2>. QED
      BY <2>1, <2>2
  <1>8. CopiesCounted'
    <2> SUFFICES ASSUME NEW m \in Messages
                 PROVE  /\ Cardinality(Copies(m)') <= delivered'[m] + 1
                        /\ produced = m => Cardinality(Copies(m)') <= delivered'[m]
      BY <1>1 DEF CopiesCounted
    <2>1. CASE m = k
      <3>1. delivered'[m] = delivered[m] + 1
        BY <1>1, <2>1, TieTypes
      <3>2. /\ Cardinality(Copies(k)) <= delivered[k] + 1
            /\ produced = k => Cardinality(Copies(k)) <= delivered[k]
        BY DEF CopiesCounted
      <3>3. Cardinality(Copies(k)) \in Nat /\ delivered[k] \in Nat
        BY TieTypes
      <3>4. Cardinality(Copies(k)') = Cardinality(Copies(k)) + 1
        BY <1>3
      <3>. QED
        BY <2>1, <3>1, <3>2, <3>3, <3>4
    <2>2. CASE m # k
      <3>1. delivered'[m] = delivered[m]
        BY <1>1, <2>2, TieTypes
      <3>. QED
        BY <1>3, <2>2, <3>1 DEF CopiesCounted
    <2>. QED
      BY <2>1, <2>2
  <1>. QED
    BY <1>4, <1>5, <1>6, <1>7, <1>8

(* The handler commits its follow-up: a fresh message without a copy.      *)
LEMMA HandlerCommitsTies ==
    ASSUME PlatformInv, [OutboxNext]_outboxVars, NEW k \in Messages, HandlerCommits(k)
    PROVE  TiesInv'
  <1> USE DEF PlatformInv, TiesInv
  <1>1. /\ UNCHANGED <<carries, accepted, delivered>>
        /\ produced' = k
        /\ row[k] = NoRow
        /\ row'[k] # NoRow
    BY DEF HandlerCommits, Enqueue, Create, NoRow, runtimeVars, OutboxInv, OutboxTypeOK
  <1>2. \A m : Copies(m)' = Copies(m)
    BY <1>1, SameCopies
  <1>3. Carried'
    BY <1>1 DEF Carried
  <1>4. NoPhantomEvent'
    <2> SUFFICES ASSUME NEW e \in 1 .. accepted PROVE row'[carries[e]] # NoRow
      BY <1>1 DEF NoPhantomEvent
    <2>1. carries[e] \in Messages /\ row[carries[e]] # NoRow
      BY TieTypes DEF NoPhantomEvent
    <2>. QED
      BY <2>1, RowsStay
  <1>5. ProducedIsCommitted'
    BY <1>1 DEF ProducedIsCommitted
  <1>6. AnnouncedIsAccepted'
    <2> SUFFICES ASSUME NEW m \in Messages, Announced(m)' PROVE Copies(m)' # {}
      BY DEF AnnouncedIsAccepted
    <2>. QED
      BY <1>1, <1>2, AnnouncedByDelivery DEF AnnouncedIsAccepted
  <1>7. CopiesCounted'
    <2>1. Copies(k) = {}
      BY <1>1 DEF Copies, NoPhantomEvent
    <2>2. Cardinality(Copies(k)) <= delivered[k]
      BY <2>1, FS_EmptySet, TieTypes
    <2>. QED
      BY <1>1, <1>2, <2>2 DEF CopiesCounted
  <1>. QED
    BY <1>3, <1>4, <1>5, <1>6, <1>7

(* The handler returns its follow-up: the one copy without a delivery.     *)
LEMMA HandlerReturnsTies ==
    ASSUME PlatformInv, HandlerReturns, NEW k \in Messages, produced = k
    PROVE  TiesInv'
  <1> USE DEF PlatformInv, TiesInv
  <1>1. k # 0 /\ row[k] # NoRow
    BY TieTypes DEF ProducedIsCommitted
  <1>2. /\ carries' = Append(carries, k)
        /\ accepted' = accepted + 1
        /\ produced' = 0
        /\ UNCHANGED <<row, draft, delivered>>
    BY <1>1 DEF HandlerReturns, DispatchCompletes, OutboxUnchanged, outboxVars
  <1>3. /\ carries' \in Seq(Messages)
        /\ Len(carries') = accepted'
        /\ carries'[accepted'] = k
        /\ \A e \in 1 .. accepted : carries'[e] = carries[e]
        /\ Copies(k)' = Copies(k) \cup {accepted + 1}
        /\ Cardinality(Copies(k)') = Cardinality(Copies(k)) + 1
        /\ \A m : m # k => Copies(m)' = Copies(m)
    BY <1>1, <1>2, OneMoreCopy, TieTypes
  <1>4. Carried'
    BY <1>2, <1>3 DEF Carried
  <1>5. NoPhantomEvent'
    <2> SUFFICES ASSUME NEW e \in 1 .. accepted' PROVE row[carries'[e]] # NoRow
      BY <1>2 DEF NoPhantomEvent
    <2>1. e = accepted' \/ e \in 1 .. accepted
      BY <1>2, TieTypes
    <2>. QED
      BY <1>1, <1>3, <2>1 DEF NoPhantomEvent
  <1>6. ProducedIsCommitted'
    BY <1>2 DEF ProducedIsCommitted
  <1>7. AnnouncedIsAccepted'
    <2> SUFFICES ASSUME NEW m \in Messages, Announced(m)' PROVE Copies(m)' # {}
      BY DEF AnnouncedIsAccepted
    <2>1. Announced(m)
      BY <1>2 DEF Announced, InFlight
    <2>2. Copies(m) # {}
      BY <2>1 DEF AnnouncedIsAccepted
    <2>. QED
      BY <1>3, <2>2
  <1>8. CopiesCounted'
    <2> SUFFICES ASSUME NEW m \in Messages
                 PROVE  /\ Cardinality(Copies(m)') <= delivered[m] + 1
                        /\ produced' # m
      BY <1>2 DEF CopiesCounted
    <2>1. produced' # m
      BY <1>2, TieTypes
    <2>2. CASE m = k
      <3>1. Cardinality(Copies(k)) <= delivered[k]
        BY DEF CopiesCounted
      <3>2. Cardinality(Copies(k)) \in Nat /\ delivered[k] \in Nat
        BY <1>1, TieTypes
      <3>3. Cardinality(Copies(k)') = Cardinality(Copies(k)) + 1
        BY <1>3
      <3>. QED
        BY <2>1, <2>2, <3>1, <3>2, <3>3
    <2>3. CASE m # k
      BY <1>3, <2>1, <2>3 DEF CopiesCounted
    <2>. QED
      BY <2>2, <2>3
  <1>. QED
    BY <1>4, <1>5, <1>6, <1>7, <1>8

(* All other steps are quiet.                                              *)
LEMMA OtherStepsAreQuiet ==
    ASSUME PlatformInv, [Next]_vars,
           \A w \in Pollers, m \in Messages : ~BatchPublishes(w, m),
           \A m \in Messages : ~HandlerCommits(m),
           ~(HandlerReturns /\ produced # 0)
    PROVE  UNCHANGED <<carries, accepted, delivered>> /\ produced' \in {0, produced}
  <1> USE DEF OutboxUnchanged, RuntimeUnchanged, outboxVars, runtimeVars
  <1>1. CASE ClockTicks
    BY <1>1 DEF ClockTicks, Tick
  <1>2. ASSUME NEW m \in Messages, UseCaseCommits(m)
        PROVE  UNCHANGED <<carries, accepted, delivered>> /\ produced' \in {0, produced}
    BY <1>2 DEF UseCaseCommits, Enqueue
  <1>3. CASE Lifecycle
    BY <1>3 DEF Lifecycle
  <1>4. ASSUME NEW w \in Pollers, PollerStep(w)
        PROVE  UNCHANGED <<carries, accepted, delivered>> /\ produced' \in {0, produced}
    BY <1>4
    DEF PollerStep, PollerStarts, PollerResumes, BatchBegins, BeginBatch, BatchIsEmpty,
        IdlePoll, BatchIsRefused, PublishFails, BatchCommits, Commit, BatchErrs, Rollback,
        PollerIsCancelled
  <1>5. CASE AdapterStep
    BY <1>5 DEF AdapterStep, AdapterStarts, AdapterStops, AdapterReturns, AdapterIsCancelled,
                StopsLoop, Start, StopRequest, FinalizeCompletedTask, StopReturn, StopCancelled
  <1>6. CASE LoopTakes \/ HandlerFails
    BY <1>6 DEF LoopTakes, TakeEvent, TakeStop, HandlerFails, DispatchFails
  <1>7. CASE HandlerReturns
    <2>1. accepted + 0 = accepted
      BY TieTypes
    <2>. QED
      BY <1>7, <2>1 DEF HandlerReturns, DispatchCompletes
  <1>8. CASE UNCHANGED vars
    BY <1>8 DEF vars
  <1>. QED
    BY <1>1, <1>2, <1>3, <1>4, <1>5, <1>6, <1>7, <1>8 DEF Next, LoopStep, HandlerEnds

(* Every step of the application keeps the invariant.                      *)
LEMMA PlatformStepInv == PlatformInv /\ [Next]_vars => PlatformInv'
  <1> SUFFICES ASSUME PlatformInv, [Next]_vars PROVE PlatformInv'
    OBVIOUS
  <1>1. [OutboxNext]_outboxVars /\ [RuntimeNext]_runtimeVars /\ [AppNext]_appVars
    BY OutboxSteps, RuntimeSteps, AppSteps
  <1>2. OutboxInv' /\ RuntimeInv' /\ AppInv'
    BY <1>1, OutboxStepInv, RuntimeStep, AppStepInv DEF PlatformInv
  <1>3. TiesInv'
    <2>1. ASSUME NEW w \in Pollers, NEW m \in Messages, BatchPublishes(w, m) PROVE TiesInv'
      BY <2>1, BatchPublishesTies
    <2>2. ASSUME NEW m \in Messages, HandlerCommits(m) PROVE TiesInv'
      BY <1>1, <2>2, HandlerCommitsTies
    <2>3. CASE HandlerReturns /\ produced # 0
      <3>1. PICK k \in Messages : produced = k
        BY <2>3 DEF PlatformInv, TiesInv, Carried
      <3>. QED
        BY <2>3, <3>1, HandlerReturnsTies
    <2>. QED
      BY <1>1, <2>1, <2>2, <2>3, OtherStepsAreQuiet, QuietStep
  <1>. QED
    BY <1>2, <1>3 DEF PlatformInv

LEMMA PlatformInvariant == Spec => []PlatformInv
  <1>1. Init => PlatformInv
    BY InitTies, OutboxInitInv, InitRuntime, AppInitInv DEF Init, PlatformInv
  <1>. QED
    BY <1>1, PlatformStepInv, PTL DEF Spec

-----------------------------------------------------------------------------
(* The theorems.                                                           *)

(* Type correctness of the composed application.                           *)
THEOREM PlatformTypeCorrect == Spec => []TypeOK
  <1>1. PlatformInv => TypeOK
    BY DEF PlatformInv, OutboxInv, RuntimeInv, AppInv, TiesInv, Carried, TypeOK
  <1>. QED
    BY <1>1, PlatformInvariant, PTL

(* Shutdown (ApplicationRuntime.stop, EventRuntime.publish): however the   *)
(* stop of the runtime and a batch of the outbox worker interleave, the    *)
(* event of a row that says "published" is in the queue or was taken.      *)
THEOREM PublishedIsAlwaysHeld == Spec => []PublishedIsHeld
  <1>1. PlatformInv => PublishedIsHeld
    <2> SUFFICES ASSUME PlatformInv, NEW m \in Messages, row[m].status = "published"
                 PROVE  \E e \in Copies(m) :
                            e <= taken \/ \E i \in 1 .. Len(queue) : queue[i] = e
      BY DEF PublishedIsHeld
    <2>1. PICK e \in Copies(m) : TRUE
      BY DEF PlatformInv, TiesInv, AnnouncedIsAccepted, Announced
    <2>2. e \in 1 .. accepted /\ accepted \in Nat /\ taken \in Nat
      BY TieTypes DEF Copies, PlatformInv, RuntimeInv, RuntimeTypeOK
    <2>3. e <= taken \/ e \in taken + 1 .. accepted
      BY <2>2
    <2>4. \A a \in taken + 1 .. accepted : \E i \in 1 .. Len(queue) : queue[i] = a
      BY DEF PlatformInv, RuntimeInv, QueueKeepsOrder
    <2>. QED
      BY <2>3, <2>4
  <1>. QED
    BY <1>1, PlatformInvariant, PTL

(* The session-scoped handler commits before its event is queued, and the  *)
(* outbox publishes committed rows: no handler sees an event whose         *)
(* transaction may still be rolled back.                                   *)
THEOREM NoEventIsPhantom == Spec => []NoPhantomEvent
  <1>1. PlatformInv => NoPhantomEvent
    BY DEF PlatformInv, TiesInv
  <1>. QED
    BY <1>1, PlatformInvariant, PTL

(* Duplicates (publish and return of the same follow-up, rolled back       *)
(* batches): two copies of an event, and one for each rolled back batch    *)
(* that had published it, for any number of workers and restarts.          *)
THEOREM CopiesAreBounded == Spec => []CopiesBounded
  <1>1. PlatformInv => CopiesBounded
    <2> SUFFICES ASSUME PlatformInv, NEW m \in Messages
                 PROVE  Cardinality(Copies(m)) <= 2 + undone[m]
      BY DEF CopiesBounded
    <2>1. Cardinality(Copies(m)) <= delivered[m] + 1
      BY DEF PlatformInv, TiesInv, CopiesCounted
    <2>2. delivered[m] = undone[m] + BoolToNat(row[m].status = "published")
                                   + BoolToNat(InFlight(m))
      BY DEF PlatformInv, OutboxInv, DeliveriesAccounted
    <2>3. BoolToNat(row[m].status = "published") + BoolToNat(InFlight(m)) <= 1
      BY AnnouncedOnce DEF PlatformInv, BoolToNat
    <2>4. /\ undone[m] \in Nat
          /\ delivered[m] \in Nat
          /\ Cardinality(Copies(m)) \in Nat
          /\ BoolToNat(row[m].status = "published") \in Nat
          /\ BoolToNat(InFlight(m)) \in Nat
      BY TieTypes DEF PlatformInv, OutboxInv, OutboxTypeOK, BoolToNat
    <2>. QED
      BY <2>1, <2>2, <2>3, <2>4
  <1>. QED
    BY <1>1, PlatformInvariant, PTL
=============================================================================
