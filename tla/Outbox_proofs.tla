--------------------------- MODULE Outbox_proofs ---------------------------
(***************************************************************************)
(* Proofs about Outbox, for every number of messages, workers, attempts    *)
(* and rollbacks, and every batch size and delay.                          *)
(*                                                                         *)
(* The argument: a row in a batch stays pending until the batch ends,      *)
(* because the batch holds its lock, and no other batch holds it           *)
(* (NoSharedClaim).  So an uncommitted update of a row (a draft) is the    *)
(* only one there is, and it was computed from the row as it still is.     *)
(* What a commit writes is then the successor of what was there.           *)
(*                                                                         *)
(* The schedule adds up because a retry is due 2^n delays after an attempt *)
(* that was itself not made before (2^n - 1) delays had passed.            *)
(***************************************************************************)
EXTENDS Outbox, FiniteSetTheorems, TLAPS

(* The uncommitted updates of a batch concern rows it has locked, and the  *)
(* locked rows are still pending in the committed table.                   *)
LocksProtect ==
    /\ \A w \in Workers, m \in Messages : draft[w][m] # NoRow => m \in claimed[w]
    /\ \A w \in Workers : \A m \in claimed[w] : row[m].status = "pending"

(* A draft is a legal successor of the row it will replace.                *)
DraftsFollowRows ==
    \A w \in Workers, m \in Messages : draft[w][m] # NoRow =>
        /\ draft[w][m].attempt_count <= MaxAttempts
        /\ draft[w][m].status = "pending" => draft[w][m].attempt_count < MaxAttempts
        /\ draft[w][m].status = "failed" => draft[w][m].attempt_count = MaxAttempts

(* The inductive invariant.                                                *)
OutboxInv ==
    /\ OutboxTypeOK
    /\ NoSharedClaim
    /\ LocksProtect
    /\ DraftsFollowRows
    /\ AttemptsDecideStatus
    /\ DeliveriesAccounted

-----------------------------------------------------------------------------
(* The entity's lifecycle methods.                                         *)

(* The back-off delay of a recorded attempt is an integer.                 *)
LEMMA RetryDelayInt ==
    ASSUME NEW n \in Nat
    PROVE  RetryDelay(n + 1) \in Int
  <1>1. n + 1 - 1 = n
    OBVIOUS
  <1>2. 2 ^ n \in Int
    OBVIOUS
  <1>3. RetryDelay(n + 1) = InitialDelay * 2 ^ n
    BY <1>1 DEF RetryDelay
  <1>4. InitialDelay \in Int
    BY OutboxAssumption
  <1>. QED
    BY <1>2, <1>3, <1>4

(* Each lifecycle method maps rows to rows and changes what it names only. *)
LEMMA MarkAttemptedRow ==
    ASSUME NEW r \in Row
    PROVE  /\ MarkAttempted(r) \in Row
           /\ MarkAttempted(r).attempt_count = r.attempt_count + 1
  BY DEF MarkAttempted, Row

(* A new status changes nothing else.                                      *)
LEMMA WithStatusRow ==
    ASSUME NEW r \in Row, NEW s \in Statuses
    PROVE  /\ WithStatus(r, s) \in Row
           /\ WithStatus(r, s).status = s
           /\ WithStatus(r, s).attempt_count = r.attempt_count
  BY DEF WithStatus, Row

(* A successful attempt publishes the row and counts.                      *)
LEMMA PublishedRow ==
    ASSUME NEW r \in Row
    PROVE  /\ MarkPublished(MarkAttempted(r)) \in Row
           /\ MarkPublished(MarkAttempted(r)).status = "published"
           /\ MarkPublished(MarkAttempted(r)).attempt_count = r.attempt_count + 1
  <1>1. "published" \in Statuses
    BY DEF Statuses
  <1>. QED
    BY <1>1, MarkAttemptedRow, WithStatusRow DEF MarkPublished

(* A failed attempt counts, and is the last one exactly when it is number  *)
(* MaxAttempts.                                                            *)
LEMMA AfterFailureRow ==
    ASSUME NEW r \in Row, now \in Nat, r.attempt_count < MaxAttempts
    PROVE  /\ AfterFailure(r) \in Row
           /\ AfterFailure(r).attempt_count = r.attempt_count + 1
           /\ \/ /\ AfterFailure(r).status = "pending"
                 /\ r.attempt_count + 1 < MaxAttempts
              \/ /\ AfterFailure(r).status = "failed"
                 /\ r.attempt_count + 1 = MaxAttempts
  <1> DEFINE a == MarkAttempted(r)
             t == now + RetryDelay(r.attempt_count + 1)
             p == WithStatus(a, "pending")
  <1>1. a \in Row /\ a.attempt_count = r.attempt_count + 1 /\ r.attempt_count \in Nat
    BY MarkAttemptedRow DEF Row
  <1>2. CASE r.attempt_count + 1 >= MaxAttempts
    <2>1. AfterFailure(r) = WithStatus(a, "failed")
      BY <1>2 DEF AfterFailure, MarkFailed
    <2>2. "failed" \in Statuses
      BY DEF Statuses
    <2>. QED
      BY <1>1, <1>2, <2>1, <2>2, WithStatusRow, OutboxAssumption
  <1>3. CASE ~(r.attempt_count + 1 >= MaxAttempts)
    <2>1. t \in Int
      BY <1>1, RetryDelayInt
    <2>2. AfterFailure(r) = [p EXCEPT !.available_at = t]
      BY <1>3 DEF AfterFailure, MarkRetry
    <2>3. "pending" \in Statuses
      BY DEF Statuses
    <2>4. p \in Row /\ p.status = "pending" /\ p.attempt_count = r.attempt_count + 1
      BY <1>1, <2>3, WithStatusRow
    <2> HIDE DEF p, t
    <2>5. /\ AfterFailure(r) \in Row
          /\ AfterFailure(r).status = p.status
          /\ AfterFailure(r).attempt_count = p.attempt_count
      BY <2>1, <2>2, <2>4 DEF Row
    <2>. QED
      BY <1>1, <1>3, <2>4, <2>5, OutboxAssumption
  <1>. QED
    BY <1>2, <1>3

(* A record of Row is not the absent row.                                  *)
LEMMA RowIsNotNoRow ==
    ASSUME NEW r \in Row
    PROVE  r # NoRow /\ r.status \in Statuses /\ r.status # "none"
  BY DEF Row, NoRow, Statuses

(* At the start there are no rows and no batches.                          *)
LEMMA OutboxInitInv == OutboxInit => OutboxInv
  <1> SUFFICES ASSUME OutboxInit PROVE OutboxInv
    OBVIOUS
  <1>1. OutboxTypeOK
    BY DEF OutboxInit, OutboxTypeOK
  <1>2. NoSharedClaim /\ LocksProtect /\ DraftsFollowRows /\ AttemptsDecideStatus
    BY DEF OutboxInit, NoSharedClaim, LocksProtect, DraftsFollowRows, AttemptsDecideStatus
  <1>3. DeliveriesAccounted
    BY DEF OutboxInit, DeliveriesAccounted, BoolToNat, InFlight, NoRow
  <1>. QED
    BY <1>1, <1>2, <1>3 DEF OutboxInv

-----------------------------------------------------------------------------
(* One lemma per action: it preserves the inductive invariant.             *)

(* Steps that touch neither rows nor batches.                              *)
LEMMA FrameInv ==
    ASSUME OutboxInv, now' \in Nat,
           UNCHANGED <<row, claimed, draft, delivered, undone, rollbacks>>
    PROVE  OutboxInv'
  <1>1. OutboxTypeOK'
    BY DEF OutboxInv, OutboxTypeOK
  <1>2. NoSharedClaim'
    BY DEF OutboxInv, NoSharedClaim
  <1>3. LocksProtect'
    BY DEF OutboxInv, LocksProtect
  <1>4. DraftsFollowRows'
    BY DEF OutboxInv, DraftsFollowRows
  <1>5. AttemptsDecideStatus'
    BY DEF OutboxInv, AttemptsDecideStatus
  <1>6. DeliveriesAccounted'
    BY DEF OutboxInv, DeliveriesAccounted, InFlight
  <1>. QED
    BY <1>1, <1>2, <1>3, <1>4, <1>5, <1>6 DEF OutboxInv

(* A new row is pending, has no attempt yet and belongs to no batch.       *)
LEMMA EnqueueInv ==
    ASSUME OutboxInv, NEW m \in Messages, Enqueue(m)
    PROVE  OutboxInv'
  <1>1. /\ Create \in Row
        /\ Create.status = "pending"
        /\ Create.attempt_count = 0
    BY DEF OutboxInv, Create, Row, Statuses, OutboxTypeOK
  <1>2. /\ row[m] = NoRow
        /\ row' = [row EXCEPT ![m] = Create]
        /\ UNCHANGED <<now, claimed, draft, delivered, undone, rollbacks>>
    BY DEF Enqueue
  <1>3. \A n \in Messages : row'[n] = IF n = m THEN Create ELSE row[n]
    BY <1>2 DEF OutboxInv, OutboxTypeOK
  <1>4. OutboxTypeOK'
    BY <1>1, <1>2 DEF OutboxInv, OutboxTypeOK
  <1>5. NoSharedClaim' /\ DraftsFollowRows'
    BY <1>2 DEF OutboxInv, NoSharedClaim, DraftsFollowRows
  <1>6. LocksProtect'
    BY <1>1, <1>2, <1>3 DEF OutboxInv, LocksProtect, OutboxTypeOK
  <1>7. AttemptsDecideStatus'
    BY <1>1, <1>2, <1>3, OutboxAssumption DEF OutboxInv, AttemptsDecideStatus
  <1>8. DeliveriesAccounted'
    <2> SUFFICES ASSUME NEW n \in Messages
                 PROVE  delivered'[n] = undone'[n] + BoolToNat(row'[n].status = "published")
                                                   + BoolToNat(InFlight(n)')
      BY DEF DeliveriesAccounted, InFlight
    <2>1. (row'[n].status = "published") <=> (row[n].status = "published")
      BY <1>1, <1>2, <1>3 DEF NoRow
    <2>2. InFlight(n)' <=> InFlight(n)
      BY <1>2 DEF InFlight
    <2>. QED
      BY <1>2, <2>1, <2>2 DEF OutboxInv, DeliveriesAccounted, BoolToNat
  <1>. QED
    BY <1>4, <1>5, <1>6, <1>7, <1>8 DEF OutboxInv

(* A batch locks pending rows that no other batch has locked.              *)
LEMMA BeginBatchInv ==
    ASSUME OutboxInv, NEW w \in Workers, BeginBatch(w)
    PROVE  OutboxInv'
  <1>1. /\ claimed[w] = {}
        /\ claimed' = [claimed EXCEPT ![w] = Selected]
        /\ UNCHANGED <<now, row, draft, delivered, undone, rollbacks>>
    BY DEF BeginBatch
  <1>2. /\ Selected \subseteq Messages
        /\ \A m \in Selected : row[m].status = "pending"
        /\ \A m \in Selected, v \in Workers : m \notin claimed[v]
    BY DEF Selected, Available, IsAvailable, Locked
  <1>3. \A v \in Workers : claimed'[v] = IF v = w THEN Selected ELSE claimed[v]
    BY <1>1 DEF OutboxInv, OutboxTypeOK
  <1>4. OutboxTypeOK'
    BY <1>1, <1>2 DEF OutboxInv, OutboxTypeOK
  <1>5. NoSharedClaim'
    BY <1>2, <1>3 DEF OutboxInv, NoSharedClaim
  <1>6. LocksProtect'
    BY <1>1, <1>2, <1>3 DEF OutboxInv, LocksProtect
  <1>7. DraftsFollowRows' /\ AttemptsDecideStatus' /\ DeliveriesAccounted'
    BY <1>1 DEF OutboxInv, DraftsFollowRows, AttemptsDecideStatus,
                DeliveriesAccounted, InFlight
  <1>. QED
    BY <1>4, <1>5, <1>6, <1>7 DEF OutboxInv

(* The row a batch is about to publish is pending, has an attempt left, and *)
(* no batch has a draft for it.                                            *)
LEMMA NextMessage ==
    ASSUME OutboxInv, NEW w \in Workers, NEW m \in Messages, IsNext(w, m)
    PROVE  /\ m \in claimed[w]
           /\ row[m] \in Row
           /\ row[m].status = "pending"
           /\ row[m].attempt_count < MaxAttempts
           /\ \A v \in Workers : draft[v][m] = NoRow
           /\ ~InFlight(m)
  <1>1. m \in claimed[w] /\ draft[w][m] = NoRow
    BY DEF IsNext, Processed
  <1>2. row[m].status = "pending"
    BY <1>1 DEF OutboxInv, LocksProtect
  <1>3. row[m] # NoRow
    BY <1>2 DEF NoRow
  <1>4. row[m] \in Row
    BY <1>3 DEF OutboxInv, OutboxTypeOK
  <1>5. row[m].attempt_count < MaxAttempts
    BY <1>2, <1>3 DEF OutboxInv, AttemptsDecideStatus
  <1>6. \A v \in Workers : draft[v][m] = NoRow
    BY <1>1 DEF OutboxInv, LocksProtect, NoSharedClaim
  <1>7. ~InFlight(m)
    BY <1>6 DEF InFlight, NoRow
  <1>. QED
    BY <1>1, <1>2, <1>4, <1>5, <1>6, <1>7

(* Drafting a legal successor of the next message keeps everything but the *)
(* account of deliveries, which the two callers settle.                    *)
LEMMA DraftInv ==
    ASSUME OutboxInv, NEW w \in Workers, NEW m \in Messages, IsNext(w, m),
           NEW r \in Row,
           r.attempt_count <= MaxAttempts,
           r.status = "pending" => r.attempt_count < MaxAttempts,
           r.status = "failed" => r.attempt_count = MaxAttempts,
           draft' = [draft EXCEPT ![w][m] = r],
           delivered' \in [Messages -> Nat],
           UNCHANGED <<now, row, claimed, undone, rollbacks>>
    PROVE  /\ OutboxTypeOK' /\ NoSharedClaim' /\ LocksProtect' /\ DraftsFollowRows'
           /\ AttemptsDecideStatus'
           /\ \A n \in Messages :
                 InFlight(n)' <=> IF n = m THEN r.status = "published" ELSE InFlight(n)
  <1>1. \A v \in Workers, n \in Messages :
           draft'[v][n] = IF v = w /\ n = m THEN r ELSE draft[v][n]
    BY DEF OutboxInv, OutboxTypeOK
  <1>2. m \in claimed[w] /\ \A v \in Workers : draft[v][m] = NoRow
    BY NextMessage
  <1>3. OutboxTypeOK'
    BY <1>1 DEF OutboxInv, OutboxTypeOK
  <1>4. NoSharedClaim' /\ AttemptsDecideStatus'
    BY DEF OutboxInv, NoSharedClaim, AttemptsDecideStatus
  <1>5. LocksProtect'
    BY <1>1, <1>2 DEF OutboxInv, LocksProtect
  <1>6. DraftsFollowRows'
    BY <1>1 DEF OutboxInv, DraftsFollowRows
  <1>7. ASSUME NEW n \in Messages
        PROVE  InFlight(n)' <=> IF n = m THEN r.status = "published" ELSE InFlight(n)
    <2>1. CASE n = m
      <3>1. \A v \in Workers : v # w => draft'[v][n].status = "none"
        BY <1>1, <1>2, <2>1 DEF NoRow
      <3>2. draft'[w][n] = r
        BY <1>1, <2>1
      <3>. QED
        BY <2>1, <3>1, <3>2 DEF InFlight
    <2>2. CASE n # m
      BY <1>1, <2>2 DEF InFlight
    <2>. QED
      BY <2>1, <2>2
  <1>. QED
    BY <1>3, <1>4, <1>5, <1>6, <1>7

(* A published event: the draft of its row accounts for the delivery.      *)
LEMMA PublishSucceedsInv ==
    ASSUME OutboxInv, NEW w \in Workers, NEW m \in Messages, PublishSucceeds(w, m)
    PROVE  OutboxInv'
  <1> DEFINE r == MarkPublished(MarkAttempted(row[m]))
  <1>1. /\ IsNext(w, m)
        /\ delivered' = [delivered EXCEPT ![m] = @ + 1]
        /\ draft' = [draft EXCEPT ![w][m] = r]
        /\ UNCHANGED <<now, row, claimed, undone, rollbacks>>
    BY DEF PublishSucceeds
  <1>2. /\ row[m] \in Row
        /\ row[m].status = "pending"
        /\ row[m].attempt_count < MaxAttempts
        /\ ~InFlight(m)
    BY <1>1, NextMessage
  <1>3. /\ r \in Row
        /\ r.status = "published"
        /\ r.attempt_count = row[m].attempt_count + 1
        /\ row[m].attempt_count \in Nat
    BY <1>2, PublishedRow DEF Row
  <1>4. delivered' \in [Messages -> Nat]
    BY <1>1 DEF OutboxInv, OutboxTypeOK
  <1> HIDE DEF r
  <1>5. r.attempt_count <= MaxAttempts
    BY <1>2, <1>3, OutboxAssumption
  <1>6. /\ OutboxTypeOK' /\ NoSharedClaim' /\ LocksProtect' /\ DraftsFollowRows'
        /\ AttemptsDecideStatus'
        /\ \A n \in Messages :
              InFlight(n)' <=> IF n = m THEN r.status = "published" ELSE InFlight(n)
    BY <1>1, <1>3, <1>4, <1>5, DraftInv
  <1>7. DeliveriesAccounted'
    <2> SUFFICES ASSUME NEW n \in Messages
                 PROVE  delivered'[n] = undone'[n] + BoolToNat(row'[n].status = "published")
                                                   + BoolToNat(InFlight(n)')
      BY DEF DeliveriesAccounted, InFlight
    <2>1. delivered[n] = undone[n] + BoolToNat(row[n].status = "published")
                                   + BoolToNat(InFlight(n))
      BY DEF OutboxInv, DeliveriesAccounted
    <2>2. delivered[n] \in Nat /\ undone[n] \in Nat
      BY DEF OutboxInv, OutboxTypeOK
    <2>3. CASE n = m
      <3>1. InFlight(n)' /\ ~InFlight(n)
        BY <1>2, <1>3, <1>6, <2>3
      <3>2. delivered'[n] = delivered[n] + 1 /\ row' = row /\ undone' = undone
        BY <1>1, <2>3 DEF OutboxInv, OutboxTypeOK
      <3>. QED
        BY <2>1, <2>2, <3>1, <3>2 DEF BoolToNat
    <2>4. CASE n # m
      <3>1. InFlight(n)' <=> InFlight(n)
        BY <1>6, <2>4
      <3>2. delivered'[n] = delivered[n] /\ row' = row /\ undone' = undone
        BY <1>1, <2>4 DEF OutboxInv, OutboxTypeOK
      <3>. QED
        BY <2>1, <3>1, <3>2 DEF BoolToNat
    <2>. QED
      BY <2>3, <2>4
  <1>. QED
    BY <1>6, <1>7 DEF OutboxInv

(* A failed attempt: the draft of its row is a legal successor.            *)
LEMMA PublishFailsInv ==
    ASSUME OutboxInv, NEW w \in Workers, NEW m \in Messages, PublishFails(w, m)
    PROVE  OutboxInv'
  <1> DEFINE r == AfterFailure(row[m])
  <1>1. /\ IsNext(w, m)
        /\ draft' = [draft EXCEPT ![w][m] = r]
        /\ UNCHANGED <<now, row, claimed, delivered, undone, rollbacks>>
    BY DEF PublishFails
  <1>2. /\ row[m] \in Row
        /\ row[m].attempt_count < MaxAttempts
        /\ ~InFlight(m)
        /\ now \in Nat
    BY <1>1, NextMessage DEF OutboxInv, OutboxTypeOK
  <1>3. /\ r \in Row
        /\ r.status # "published"
        /\ r.attempt_count <= MaxAttempts
        /\ r.status = "pending" => r.attempt_count < MaxAttempts
        /\ r.status = "failed" => r.attempt_count = MaxAttempts
    <2>1. /\ r \in Row
          /\ \/ r.status = "pending" /\ r.attempt_count < MaxAttempts
             \/ r.status = "failed" /\ r.attempt_count = MaxAttempts
      BY <1>2, AfterFailureRow
    <2> HIDE DEF r
    <2>2. r.attempt_count \in Nat
      BY <2>1 DEF Row
    <2>. QED
      BY <2>1, <2>2, OutboxAssumption
  <1>4. delivered' \in [Messages -> Nat]
    BY <1>1 DEF OutboxInv, OutboxTypeOK
  <1> HIDE DEF r
  <1>5. /\ OutboxTypeOK' /\ NoSharedClaim' /\ LocksProtect' /\ DraftsFollowRows'
        /\ AttemptsDecideStatus'
        /\ \A n \in Messages :
              InFlight(n)' <=> IF n = m THEN r.status = "published" ELSE InFlight(n)
    BY <1>1, <1>3, <1>4, DraftInv
  <1>6. DeliveriesAccounted'
    <2>1. \A n \in Messages : InFlight(n)' <=> InFlight(n)
      BY <1>2, <1>3, <1>5
    <2>. QED
      BY <1>1, <2>1 DEF OutboxInv, DeliveriesAccounted, BoolToNat
  <1>. QED
    BY <1>5, <1>6 DEF OutboxInv

(* Closing a session leaves the other batches as they are and none of this *)
(* worker's.                                                               *)
LEMMA CloseSessionEffect ==
    ASSUME OutboxTypeOK, NoSharedClaim, LocksProtect, NEW w \in Workers, CloseSession(w)
    PROVE  /\ claimed' \in [Workers -> SUBSET Messages]
           /\ draft' \in [Workers -> [Messages -> Row \cup {NoRow}]]
           /\ \A v \in Workers : claimed'[v] = IF v = w THEN {} ELSE claimed[v]
           /\ \A v \in Workers, m \in Messages :
                 draft'[v][m] = IF v = w THEN NoRow ELSE draft[v][m]
           /\ \A m \in Messages :
                 InFlight(m)' <=> InFlight(m) /\ draft[w][m].status # "published"
  <1>1. \A v \in Workers : claimed'[v] = IF v = w THEN {} ELSE claimed[v]
    BY DEF CloseSession, OutboxTypeOK
  <1>2. \A v \in Workers, m \in Messages :
           draft'[v][m] = IF v = w THEN NoRow ELSE draft[v][m]
    BY DEF CloseSession, OutboxTypeOK
  <1>3. claimed' \in [Workers -> SUBSET Messages]
    BY DEF CloseSession, OutboxTypeOK
  <1>4. draft' \in [Workers -> [Messages -> Row \cup {NoRow}]]
    BY DEF CloseSession, OutboxTypeOK
  <1>5. ASSUME NEW m \in Messages
        PROVE  InFlight(m)' <=> InFlight(m) /\ draft[w][m].status # "published"
    <2>1. ASSUME NEW v \in Workers, v # w, draft[v][m].status = "published"
          PROVE  draft[w][m].status # "published"
      <3>1. m \in claimed[v]
        BY <2>1 DEF LocksProtect, NoRow
      <3>2. m \notin claimed[w]
        BY <2>1, <3>1 DEF NoSharedClaim
      <3>. QED
        BY <3>2 DEF LocksProtect, NoRow
    <2>2. NoRow.status # "published"
      BY DEF NoRow
    <2>. QED
      BY <1>2, <2>1, <2>2 DEF InFlight
  <1>. QED
    BY <1>1, <1>2, <1>3, <1>4, <1>5

(* A commit replaces each row of the batch by its draft.                   *)
LEMMA CommitInv ==
    ASSUME OutboxInv, NEW w \in Workers, Commit(w)
    PROVE  OutboxInv'
  <1>1. /\ Processed(w) = claimed[w]
        /\ row' = [m \in Messages |-> IF m \in claimed[w] THEN draft[w][m] ELSE row[m]]
        /\ CloseSession(w)
        /\ UNCHANGED <<now, delivered, undone, rollbacks>>
    BY DEF Commit
  <1>2. \A m \in claimed[w] : draft[w][m] # NoRow
    BY <1>1 DEF Processed
  <1>3. \A m \in Messages : row'[m] = IF m \in claimed[w] THEN draft[w][m] ELSE row[m]
    BY <1>1
  <1>4. /\ claimed' \in [Workers -> SUBSET Messages]
        /\ draft' \in [Workers -> [Messages -> Row \cup {NoRow}]]
        /\ \A v \in Workers : claimed'[v] = IF v = w THEN {} ELSE claimed[v]
        /\ \A v \in Workers, m \in Messages :
              draft'[v][m] = IF v = w THEN NoRow ELSE draft[v][m]
        /\ \A m \in Messages :
              InFlight(m)' <=> InFlight(m) /\ draft[w][m].status # "published"
    BY <1>1, CloseSessionEffect DEF OutboxInv
  <1>5. OutboxTypeOK'
    BY <1>1, <1>4 DEF OutboxInv, OutboxTypeOK
  <1>6. NoSharedClaim'
    BY <1>4 DEF OutboxInv, NoSharedClaim
  <1>7. LocksProtect'
    <2>1. ASSUME NEW v \in Workers, NEW m \in claimed'[v]
          PROVE  row'[m].status = "pending"
      <3>1. v # w /\ m \in claimed[v] /\ m \in Messages
        BY <1>4 DEF OutboxInv, OutboxTypeOK
      <3>2. m \notin claimed[w]
        BY <3>1 DEF OutboxInv, NoSharedClaim
      <3>. QED
        BY <1>3, <3>1, <3>2 DEF OutboxInv, LocksProtect
    <2>. QED
      BY <1>4, <2>1 DEF OutboxInv, LocksProtect
  <1>8. DraftsFollowRows'
    BY <1>4 DEF OutboxInv, DraftsFollowRows
  <1>9. AttemptsDecideStatus'
    BY <1>2, <1>3 DEF OutboxInv, AttemptsDecideStatus, DraftsFollowRows
  <1>10. DeliveriesAccounted'
    <2> SUFFICES ASSUME NEW m \in Messages
                 PROVE  delivered'[m] = undone'[m] + BoolToNat(row'[m].status = "published")
                                                   + BoolToNat(InFlight(m)')
      BY DEF DeliveriesAccounted, InFlight
    <2>1. /\ delivered[m] = undone[m] + BoolToNat(row[m].status = "published")
                                      + BoolToNat(InFlight(m))
          /\ delivered' = delivered /\ undone' = undone
          /\ undone[m] \in Nat
      BY <1>1 DEF OutboxInv, DeliveriesAccounted, OutboxTypeOK
    <2>2. CASE m \in claimed[w] /\ draft[w][m].status = "published"
      <3>1. row'[m].status = "published" /\ row[m].status # "published"
        BY <1>3, <2>2 DEF OutboxInv, LocksProtect
      <3>2. InFlight(m) /\ ~InFlight(m)'
        BY <1>4, <2>2 DEF InFlight
      <3>. QED
        BY <2>1, <3>1, <3>2 DEF BoolToNat
    <2>3. CASE m \in claimed[w] /\ draft[w][m].status # "published"
      <3>1. row'[m].status # "published" /\ row[m].status # "published"
        BY <1>3, <2>3 DEF OutboxInv, LocksProtect
      <3>2. InFlight(m)' <=> InFlight(m)
        BY <1>4, <2>3
      <3>. QED
        BY <2>1, <3>1, <3>2 DEF BoolToNat
    <2>4. CASE m \notin claimed[w]
      <3>1. row'[m] = row[m]
        BY <1>3, <2>4
      <3>2. draft[w][m] = NoRow
        BY <2>4 DEF OutboxInv, LocksProtect
      <3>3. InFlight(m)' <=> InFlight(m)
        BY <1>4, <3>2 DEF NoRow
      <3>. QED
        BY <2>1, <3>1, <3>3 DEF BoolToNat
    <2>. QED
      BY <2>2, <2>3, <2>4
  <1>. QED
    BY <1>5, <1>6, <1>7, <1>8, <1>9, <1>10 DEF OutboxInv

(* A rollback discards the drafts; what they would have published becomes  *)
(* an undone delivery.                                                     *)
LEMMA RollbackInv ==
    ASSUME OutboxInv, NEW w \in Workers, Rollback(w)
    PROVE  OutboxInv'
  <1>1. /\ undone' = [m \in Messages |->
                        IF draft[w][m].status = "published" THEN undone[m] + 1 ELSE undone[m]]
        /\ rollbacks' = rollbacks + 1
        /\ CloseSession(w)
        /\ UNCHANGED <<now, row, delivered>>
    BY DEF Rollback
  <1>2. /\ claimed' \in [Workers -> SUBSET Messages]
        /\ draft' \in [Workers -> [Messages -> Row \cup {NoRow}]]
        /\ \A v \in Workers : claimed'[v] = IF v = w THEN {} ELSE claimed[v]
        /\ \A v \in Workers, m \in Messages :
              draft'[v][m] = IF v = w THEN NoRow ELSE draft[v][m]
        /\ \A m \in Messages :
              InFlight(m)' <=> InFlight(m) /\ draft[w][m].status # "published"
    BY <1>1, CloseSessionEffect DEF OutboxInv
  <1>3. OutboxTypeOK'
    BY <1>1, <1>2 DEF OutboxInv, OutboxTypeOK
  <1>4. NoSharedClaim' /\ LocksProtect' /\ DraftsFollowRows' /\ AttemptsDecideStatus'
    <2>1. NoSharedClaim'
      BY <1>2 DEF OutboxInv, NoSharedClaim
    <2>2. LocksProtect'
      BY <1>1, <1>2 DEF OutboxInv, LocksProtect
    <2>3. DraftsFollowRows'
      BY <1>2 DEF OutboxInv, DraftsFollowRows
    <2>4. AttemptsDecideStatus'
      BY <1>1 DEF OutboxInv, AttemptsDecideStatus
    <2>. QED
      BY <2>1, <2>2, <2>3, <2>4
  <1>5. DeliveriesAccounted'
    <2> SUFFICES ASSUME NEW m \in Messages
                 PROVE  delivered'[m] = undone'[m] + BoolToNat(row'[m].status = "published")
                                                   + BoolToNat(InFlight(m)')
      BY DEF DeliveriesAccounted, InFlight
    <2>1. /\ delivered[m] = undone[m] + BoolToNat(row[m].status = "published")
                                      + BoolToNat(InFlight(m))
          /\ delivered' = delivered /\ row' = row
          /\ undone[m] \in Nat
      BY <1>1 DEF OutboxInv, DeliveriesAccounted, OutboxTypeOK
    <2>2. CASE draft[w][m].status = "published"
      <3>1. undone'[m] = undone[m] + 1
        BY <1>1, <2>2
      <3>2. InFlight(m) /\ ~InFlight(m)'
        BY <1>2, <2>2 DEF InFlight
      <3>. QED
        BY <2>1, <3>1, <3>2 DEF BoolToNat
    <2>3. CASE draft[w][m].status # "published"
      <3>1. undone'[m] = undone[m]
        BY <1>1, <2>3
      <3>2. InFlight(m)' <=> InFlight(m)
        BY <1>2, <2>3
      <3>. QED
        BY <2>1, <3>1, <3>2 DEF BoolToNat
    <2>. QED
      BY <2>2, <2>3
  <1>. QED
    BY <1>3, <1>4, <1>5 DEF OutboxInv

(* Every step preserves the inductive invariant.                           *)
LEMMA OutboxStepInv == OutboxInv /\ [OutboxNext]_outboxVars => OutboxInv'
  <1> SUFFICES ASSUME OutboxInv, [OutboxNext]_outboxVars
               PROVE  OutboxInv'
    OBVIOUS
  <1>1. CASE Tick
    BY <1>1, FrameInv DEF Tick, OutboxInv, OutboxTypeOK
  <1>2. ASSUME NEW m \in Messages, Enqueue(m)
        PROVE  OutboxInv'
    BY <1>2, EnqueueInv
  <1>3. ASSUME NEW w \in Workers, BeginBatch(w)
        PROVE  OutboxInv'
    BY <1>3, BeginBatchInv
  <1>4. ASSUME NEW w \in Workers, PublishNext(w)
        PROVE  OutboxInv'
    BY <1>4, PublishSucceedsInv, PublishFailsInv DEF PublishNext
  <1>5. ASSUME NEW w \in Workers, Commit(w)
        PROVE  OutboxInv'
    BY <1>5, CommitInv
  <1>6. ASSUME NEW w \in Workers, Rollback(w)
        PROVE  OutboxInv'
    BY <1>6, RollbackInv
  <1>7. CASE UNCHANGED outboxVars
    BY <1>7, FrameInv DEF outboxVars, OutboxInv, OutboxTypeOK
  <1>8. ASSUME NEW w \in Workers, IdlePoll(w)
        PROVE  OutboxInv'
    BY <1>7, <1>8 DEF IdlePoll
  <1>. QED
    BY <1>1, <1>2, <1>3, <1>4, <1>5, <1>6, <1>7, <1>8 DEF OutboxNext

(* The invariant holds in every reachable state.                           *)
LEMMA OutboxInvariant == OutboxSpec => []OutboxInv
  BY OutboxInitInv, OutboxStepInv, PTL DEF OutboxSpec

-----------------------------------------------------------------------------
(* Theorems.                                                               *)

(* Every reachable state is well typed.                                    *)
THEOREM TypeCorrect == OutboxSpec => []OutboxTypeOK
  <1>1. OutboxInv => OutboxTypeOK
    BY DEF OutboxInv
  <1>. QED
    BY <1>1, OutboxInvariant, PTL

(* Row locks (list_available): no two workers ever hold the same row.      *)
THEOREM ClaimsAreDisjoint == OutboxSpec => []NoSharedClaim
  <1>1. OutboxInv => NoSharedClaim
    BY DEF OutboxInv
  <1>. QED
    BY <1>1, OutboxInvariant, PTL

(* Publication (execute, commit, rollback): the number of deliveries of an *)
(* event is one for its published row, plus one per rolled-back batch that *)
(* had published it.                                                       *)
THEOREM DeliveriesAreAccounted == OutboxSpec => []DeliveriesAccounted
  <1>1. OutboxInv => DeliveriesAccounted
    BY DEF OutboxInv
  <1>. QED
    BY <1>1, OutboxInvariant, PTL

(* Retries (_mark_failed): a row is given up exactly after MaxAttempts     *)
(* recorded attempts.                                                      *)
THEOREM AttemptsAreBounded == OutboxSpec => []AttemptsDecideStatus
  <1>1. OutboxInv => AttemptsDecideStatus
    BY DEF OutboxInv
  <1>. QED
    BY <1>1, OutboxInvariant, PTL

(* A published or failed row is never written again.                       *)
LEMMA StepKeepsSettled ==
    ASSUME OutboxInv, OutboxNext, NEW m \in Messages, row[m].status \in {"published", "failed"}
    PROVE  row'[m] = row[m]
  <1>1. CASE Tick
    BY <1>1 DEF Tick
  <1>2. ASSUME NEW n \in Messages, Enqueue(n)
        PROVE  row'[m] = row[m]
    <2>1. n # m
      BY <1>2 DEF Enqueue, NoRow
    <2>. QED
      BY <1>2, <2>1 DEF Enqueue, OutboxInv, OutboxTypeOK
  <1>3. ASSUME NEW w \in Workers, BeginBatch(w) \/ IdlePoll(w) \/ PublishNext(w) \/ Rollback(w)
        PROVE  row'[m] = row[m]
    BY <1>3 DEF BeginBatch, IdlePoll, outboxVars, PublishNext, PublishSucceeds, PublishFails, Rollback
  <1>4. ASSUME NEW w \in Workers, Commit(w)
        PROVE  row'[m] = row[m]
    <2>1. m \notin claimed[w]
      BY DEF OutboxInv, LocksProtect
    <2>. QED
      BY <1>4, <2>1 DEF Commit
  <1>. QED
    BY <1>1, <1>2, <1>3, <1>4 DEF OutboxNext

(* Published and failed rows never change: no worker selects them again,  *)
(* and no batch that is still open writes to them.                         *)
THEOREM SettledRowsAreFinal == OutboxSpec => SettledIsFinal
  <1>1. OutboxInv /\ [OutboxNext]_outboxVars =>
          [\A m \in Messages :
              row[m].status \in {"published", "failed"} => row'[m] = row[m]]_outboxVars
    BY StepKeepsSettled
  <1>. QED
    BY <1>1, OutboxInvariant, PTL DEF OutboxSpec, SettledIsFinal

-----------------------------------------------------------------------------
(* Refinement.                                                             *)

(* Every step of the outbox is a step of at-least-once delivery or leaves  *)
(* the abstract state as it is.                                            *)
LEMMA StepRefines ==
    OutboxInv /\ [OutboxNext]_outboxVars => [Delivery!DeliveryNext]_(Delivery!deliveryVars)
  <1> SUFFICES ASSUME OutboxInv, [OutboxNext]_outboxVars
               PROVE  Delivery!DeliveryNext \/ UNCHANGED Delivery!deliveryVars
    OBVIOUS
  <1> USE DEF Delivery!deliveryVars
  <1>1. CASE UNCHANGED outboxVars \/ Tick
    BY <1>1 DEF outboxVars, Tick
  <1>2. ASSUME NEW m \in Messages, Enqueue(m)
        PROVE  Delivery!Accept(m)
    <2>1. \A n \in Messages : row'[n] = IF n = m THEN Create ELSE row[n]
      BY <1>2 DEF Enqueue, OutboxInv, OutboxTypeOK
    <2>2. row[m].status = "none" /\ Create.status = "pending" /\ delivered' = delivered
      BY <1>2 DEF Enqueue, NoRow, Create
    <2>. QED
      BY <2>1, <2>2 DEF Delivery!Accept
  <1>3. ASSUME NEW w \in Workers, BeginBatch(w) \/ IdlePoll(w) \/ Rollback(w)
        PROVE  UNCHANGED Delivery!deliveryVars
    BY <1>3 DEF BeginBatch, IdlePoll, Rollback, outboxVars
  <1>4. ASSUME NEW w \in Workers, NEW m \in Messages, PublishSucceeds(w, m)
        PROVE  Delivery!Deliver(m)
    <2>1. row[m].status = "pending"
      BY <1>4, NextMessage DEF PublishSucceeds
    <2>. QED
      BY <1>4, <2>1 DEF PublishSucceeds, Delivery!Deliver
  <1>5. ASSUME NEW w \in Workers, NEW m \in Messages, PublishFails(w, m)
        PROVE  UNCHANGED Delivery!deliveryVars
    BY <1>5 DEF PublishFails
  <1>6. ASSUME NEW w \in Workers, Commit(w)
        PROVE  Delivery!DeliveryNext \/ UNCHANGED Delivery!deliveryVars
    <2> DEFINE P == {m \in claimed[w] : draft[w][m].status = "published"}
               F == {m \in claimed[w] : draft[w][m].status = "failed"}
    <2>1. /\ claimed[w] \in SUBSET Messages
          /\ P \in SUBSET Messages /\ F \in SUBSET Messages
      BY DEF OutboxInv, OutboxTypeOK
    <2>2. \A m \in P \cup F : row[m].status = "pending"
      BY DEF OutboxInv, LocksProtect
    <2>3. ASSUME NEW m \in P
          PROVE  delivered[m] > 0
      <3>1. m \in Messages /\ InFlight(m)
        BY <2>1 DEF InFlight
      <3>2. delivered[m] = undone[m] + BoolToNat(row[m].status = "published") + 1
        BY <3>1 DEF OutboxInv, DeliveriesAccounted, BoolToNat
      <3>3. undone[m] \in Nat
        BY <3>1 DEF OutboxInv, OutboxTypeOK
      <3>. QED
        BY <3>2, <3>3 DEF BoolToNat
    <2>4. ASSUME NEW m \in Messages
          PROVE  row'[m].status = IF m \in P THEN "published"
                                  ELSE IF m \in F THEN "failed"
                                  ELSE row[m].status
      <3>1. CASE m \in claimed[w]
        <4>1. row'[m] = draft[w][m] /\ draft[w][m] # NoRow
          BY <1>6, <3>1 DEF Commit, Processed
        <4>2. draft[w][m].status \in Statuses
          BY <4>1, RowIsNotNoRow DEF OutboxInv, OutboxTypeOK
        <4>3. row[m].status = "pending"
          BY <3>1 DEF OutboxInv, LocksProtect
        <4>. QED
          BY <3>1, <4>1, <4>2, <4>3 DEF Statuses
      <3>2. CASE m \notin claimed[w]
        BY <1>6, <3>2 DEF Commit
      <3>. QED
        BY <3>1, <3>2
    <2>5. delivered' = delivered
      BY <1>6 DEF Commit
    <2> HIDE DEF P, F
    <2>6. \E S, T \in SUBSET Messages : Delivery!Settle(S, T)
      BY <2>1, <2>2, <2>3, <2>4, <2>5 DEF Delivery!Settle
    <2>. QED
      BY <2>6 DEF Delivery!DeliveryNext
  <1>. QED
    BY <1>1, <1>2, <1>3, <1>4, <1>5, <1>6 DEF OutboxNext, PublishNext, Delivery!DeliveryNext

(* The outbox implements at-least-once delivery.                           *)
THEOREM OutboxImplementsDelivery == OutboxSpec => ImplementsDelivery
  <1>1. OutboxInit => Delivery!DeliveryInit
    BY DEF OutboxInit, NoRow, Delivery!DeliveryInit
  <1>. QED
    BY <1>1, StepRefines, OutboxInvariant, PTL
    DEF OutboxSpec, ImplementsDelivery, Delivery!DeliverySpec

-----------------------------------------------------------------------------
(* The back-off.                                                           *)

(* When the next attempt of row r may be made at the earliest.             *)
Earliest(r) == r.created_at + InitialDelay * (2 ^ r.attempt_count - 1)

BacksOff(r) == r.status = "pending" => r.available_at >= Earliest(r)

(* The rows that a batch has behind it come before those in front of it.   *)
KeepsOrder(w) ==
    \A m \in Processed(w) : {n \in claimed[w] : Precedes(n, m)} \subseteq Processed(w)

(* The inductive invariant of the schedule.                                *)
ScheduleInv ==
    /\ \A m \in Messages : row[m] # NoRow => BacksOff(row[m])
    /\ \A w \in Workers, m \in Messages : draft[w][m] # NoRow => BacksOff(draft[w][m])
    /\ \A w \in Workers : \A m \in claimed[w] : row[m].available_at <= now
    /\ \A w \in Workers : KeepsOrder(w)

(* A power of two counts the subsets of a finite set, of which half hold   *)
(* its last element.                                                       *)
LEMMA PowersOfTwo ==
    /\ 2 ^ 0 = 1
    /\ \A n \in Nat : 2 ^ n \in Nat \ {0} /\ 2 ^ (n + 1) = 2 * 2 ^ n
  <1>1. 2 ^ 0 = 1
    OBVIOUS
  <1>2. ASSUME NEW n \in Nat
        PROVE  2 ^ n \in Nat \ {0} /\ 2 ^ (n + 1) = 2 * 2 ^ n
    <2> DEFINE S == 1 .. n
               x == n + 1
               A == SUBSET S
               B == {T \cup {x} : T \in A}
               f == [T \in A |-> T \cup {x}]
    <2>1. /\ IsFiniteSet(S) /\ Cardinality(S) = n
          /\ IsFiniteSet(1 .. n + 1) /\ Cardinality(1 .. n + 1) = n + 1
      BY FS_Interval
    <2>2. IsFiniteSet(A) /\ Cardinality(A) = 2 ^ n
      BY <2>1, FS_SUBSET
    <2>3. IsFiniteSet(SUBSET (1 .. n + 1)) /\ Cardinality(SUBSET (1 .. n + 1)) = 2 ^ (n + 1)
      BY <2>1, FS_SUBSET
    <2>4. x \notin S /\ 1 .. n + 1 = S \cup {x}
      OBVIOUS
    <2> HIDE DEF S, x
    <2>5. SUBSET (S \cup {x}) = A \cup B /\ A \cap B = {}
      <3>1. ASSUME NEW T \in SUBSET (S \cup {x}), x \in T
            PROVE  T \in B
        <4>1. T \ {x} \in A /\ T = (T \ {x}) \cup {x}
          BY <3>1
        <4>. QED
          BY <4>1
      <3>2. ASSUME NEW T \in SUBSET (S \cup {x}), x \notin T
            PROVE  T \in A
        BY <3>2
      <3>. QED
        BY <2>4, <3>1, <3>2
    <2>6. f \in Bijection(A, B)
      <3>1. f \in [A -> B]
        OBVIOUS
      <3>2. ASSUME NEW T \in A, NEW U \in A, T \cup {x} = U \cup {x}
            PROVE  T = U
        BY <2>4, <3>2
      <3>3. \A T \in B : \E U \in A : f[U] = T
        OBVIOUS
      <3>4. \A T, U \in A : f[T] = f[U] => T = U
        BY <3>2
      <3>. QED
        BY <3>1, <3>3, <3>4 DEF Bijection, Injection, Surjection, IsInjective
    <2>7. IsFiniteSet(B) /\ Cardinality(B) = Cardinality(A)
      BY <2>2, <2>6, FS_Bijection DEF ExistsBijection
    <2>8. {} \in A /\ Cardinality(A) \in Nat
      BY <2>2, FS_CardinalityType
    <2> HIDE DEF A, B, f
    <2>9. Cardinality(A \cap B) = 0
      BY <2>5, FS_EmptySet
    <2>10. Cardinality(A \cup B) = Cardinality(A) + Cardinality(B) - Cardinality(A \cap B)
      BY <2>2, <2>7, FS_Union
    <2>11. Cardinality(A) # 0
      BY <2>2, <2>8, FS_EmptySet
    <2>12. 2 ^ n = Cardinality(A) /\ 2 ^ (n + 1) = Cardinality(A \cup B)
      BY <2>2, <2>3, <2>4, <2>5
    <2>13. Cardinality(A \cup B) = 2 * Cardinality(A)
      BY <2>7, <2>8, <2>9, <2>10
    <2>. QED
      BY <2>8, <2>11, <2>12, <2>13
  <1>. QED
    BY <1>1, <1>2

(* The delays add up: what has passed before attempt n, and the delay      *)
(* after it, have passed before attempt n + 1.                             *)
LEMMA DelaysAddUp ==
    ASSUME NEW n \in Nat
    PROVE  /\ InitialDelay * (2 ^ n - 1) \in Nat
           /\ RetryDelay(n + 1) \in Nat
           /\ InitialDelay * (2 ^ (n + 1) - 1) = InitialDelay * (2 ^ n - 1) + RetryDelay(n + 1)
  <1>1. PICK p \in Nat : p = 2 ^ n /\ p # 0 /\ 2 ^ (n + 1) = 2 * p
    BY PowersOfTwo
  <1>2. PICK d \in Nat : d = InitialDelay
    BY OutboxAssumption
  <1>3. RetryDelay(n + 1) = d * p
    <2>1. n + 1 - 1 = n
      OBVIOUS
    <2>. QED
      BY <1>1, <1>2, <2>1 DEF RetryDelay
  <1>4. p - 1 \in Nat /\ d * (p - 1) \in Nat /\ d * p \in Nat
    BY <1>1
  <1>5. d * (2 * p - 1) = d * (p - 1) + d * p
    OBVIOUS
  <1>. QED
    BY <1>1, <1>2, <1>3, <1>4, <1>5

(* A new row may be attempted at once.                                     *)
LEMMA CreateBacksOff ==
    ASSUME now \in Nat
    PROVE  BacksOff(Create)
  <1>1. Create.created_at = now /\ Create.available_at = now /\ Create.attempt_count = 0
    BY DEF Create
  <1>2. InitialDelay * (2 ^ 0 - 1) = 0
    BY PowersOfTwo, OutboxAssumption
  <1> HIDE DEF Create
  <1>. QED
    BY <1>1, <1>2 DEF BacksOff, Earliest

(* A row that fails when it is due is due again when its delay has passed. *)
LEMMA FailureBacksOff ==
    ASSUME now \in Nat, NEW r \in Row, r.status = "pending", r.attempt_count < MaxAttempts,
           BacksOff(r), r.available_at <= now
    PROVE  BacksOff(AfterFailure(r))
  <1> DEFINE n == r.attempt_count
             t == now + RetryDelay(n + 1)
             u == WithStatus(MarkAttempted(r), "pending")
  <1>1. n \in Nat /\ r.created_at \in Nat /\ r.available_at \in Int
    BY DEF Row
  <1>2. CASE n + 1 >= MaxAttempts
    BY <1>2, AfterFailureRow, OutboxAssumption, <1>1 DEF BacksOff
  <1>3. CASE ~(n + 1 >= MaxAttempts)
    <2>1. AfterFailure(r) = [u EXCEPT !.available_at = t]
      BY <1>3 DEF AfterFailure, MarkRetry
    <2>2. u.attempt_count = n + 1 /\ u.created_at = r.created_at /\ DOMAIN u = DOMAIN r
      BY DEF WithStatus, MarkAttempted, Row
    <2>3. DOMAIN u = {"status", "attempt_count", "created_at", "available_at"}
      BY <2>2 DEF Row
    <2> HIDE DEF u, t, n
    <2>4. /\ AfterFailure(r).available_at = t
          /\ AfterFailure(r).attempt_count = n + 1
          /\ AfterFailure(r).created_at = r.created_at
      BY <2>1, <2>2, <2>3
    <2>5. now >= r.created_at + InitialDelay * (2 ^ n - 1)
      BY <1>1, DelaysAddUp DEF n, BacksOff, Earliest
    <2>6. t >= r.created_at + InitialDelay * (2 ^ (n + 1) - 1)
      <3>1. PICK a, b \in Nat :
               /\ a = InitialDelay * (2 ^ n - 1) /\ b = RetryDelay(n + 1)
               /\ InitialDelay * (2 ^ (n + 1) - 1) = a + b
        BY <1>1, DelaysAddUp
      <3>2. now >= r.created_at + a
        BY <2>5, <3>1
      <3>3. t = now + b
        BY <3>1 DEF t
      <3>4. now + b >= r.created_at + (a + b)
        BY <1>1, <3>1, <3>2
      <3>. QED
        BY <3>1, <3>3, <3>4
    <2>. QED
      BY <2>4, <2>6 DEF BacksOff, Earliest
  <1>. QED
    BY <1>2, <1>3

-----------------------------------------------------------------------------
(* The schedule.                                                           *)

(* The order within a batch rests on its rows alone.                       *)
LEMMA OrderKeeps ==
    ASSUME NEW w, claimed'[w] = claimed[w],
           \A m \in claimed[w] : row'[m] = row[m] /\ draft'[w][m] = draft[w][m],
           KeepsOrder(w)
    PROVE  KeepsOrder(w)'
  <1>1. Processed(w)' = Processed(w)
    BY DEF Processed
  <1>2. \A m, n \in claimed[w] : Precedes(m, n)' <=> Precedes(m, n)
    BY DEF Precedes
  <1>3. Processed(w) \subseteq claimed[w]
    BY DEF Processed
  <1>. QED
    BY <1>1, <1>2, <1>3 DEF KeepsOrder

(* Steps that touch neither rows nor batches.                              *)
LEMMA FrameSchedule ==
    ASSUME OutboxInv, ScheduleInv, now' \in Nat, now <= now', UNCHANGED <<row, claimed, draft>>
    PROVE  ScheduleInv'
  <1>1. \A w \in Workers : KeepsOrder(w)'
    BY OrderKeeps DEF ScheduleInv
  <1>2. \A w \in Workers : \A m \in claimed[w] : row[m].available_at <= now'
    <2> SUFFICES ASSUME NEW w \in Workers, NEW m \in claimed[w]
                 PROVE  row[m].available_at <= now'
      OBVIOUS
    <2>1. m \in Messages /\ row[m].status = "pending" /\ row[m] \in Row \cup {NoRow}
      BY DEF OutboxInv, OutboxTypeOK, LocksProtect
    <2>2. row[m].available_at \in Int
      BY <2>1 DEF Row, NoRow
    <2>3. row[m].available_at <= now /\ now \in Nat
      BY DEF OutboxInv, OutboxTypeOK, ScheduleInv
    <2>. QED
      BY <2>2, <2>3
  <1>. QED
    BY <1>1, <1>2 DEF ScheduleInv, BacksOff, Earliest

LEMMA EnqueueSchedule ==
    ASSUME OutboxInv, ScheduleInv, NEW m \in Messages, Enqueue(m)
    PROVE  ScheduleInv'
  <1>1. /\ row[m] = NoRow /\ UNCHANGED <<now, claimed, draft>>
        /\ \A n \in Messages : row'[n] = IF n = m THEN Create ELSE row[n]
    BY DEF Enqueue, OutboxInv, OutboxTypeOK
  <1>2. BacksOff(Create)
    BY CreateBacksOff DEF OutboxInv, OutboxTypeOK
  <1>3. \A w \in Workers : m \notin claimed[w] /\ claimed[w] \subseteq Messages
    BY <1>1 DEF OutboxInv, OutboxTypeOK, LocksProtect, NoRow
  <1>4. \A w \in Workers : \A n \in claimed[w] : row'[n] = row[n]
    BY <1>1, <1>3
  <1>5. \A w \in Workers : KeepsOrder(w)'
    BY <1>1, <1>4, OrderKeeps DEF ScheduleInv
  <1>6. \A n \in Messages : row'[n] # NoRow => BacksOff(row'[n])
    BY <1>1, <1>2 DEF ScheduleInv
  <1>. QED
    BY <1>1, <1>4, <1>5, <1>6 DEF ScheduleInv, BacksOff, Earliest

(* A batch locks rows that are due, and has none behind it.                *)
LEMMA BeginBatchSchedule ==
    ASSUME OutboxInv, ScheduleInv, NEW w \in Workers, BeginBatch(w)
    PROVE  ScheduleInv'
  <1>1. claimed[w] = {} /\ UNCHANGED <<now, row, draft>>
    BY DEF BeginBatch
  <1>2. \A v \in Workers : claimed'[v] = IF v = w THEN Selected ELSE claimed[v]
    BY DEF BeginBatch, OutboxInv, OutboxTypeOK
  <1>3. Selected \subseteq Messages /\ \A m \in Selected : row[m].available_at <= now
    BY DEF Selected, Available, IsAvailable
  <1>4. \A v \in Workers : \A m \in claimed'[v] : row'[m].available_at <= now'
    BY <1>1, <1>2, <1>3 DEF ScheduleInv
  <1>5. Processed(w)' = {}
    BY <1>1, <1>2, <1>3 DEF Processed, OutboxInv, LocksProtect
  <1>6. KeepsOrder(w)'
    BY <1>5 DEF KeepsOrder
  <1>7. \A v \in Workers \ {w} : KeepsOrder(v)'
    BY <1>1, <1>2, OrderKeeps DEF ScheduleInv
  <1>. QED
    BY <1>1, <1>4, <1>6, <1>7 DEF ScheduleInv, BacksOff, Earliest

(* No row precedes one that precedes it.                                   *)
LEMMA PrecedesIsAsymmetric ==
    ASSUME NEW m \in Messages, NEW n \in Messages, row[m] \in Row, row[n] \in Row,
           Precedes(m, n)
    PROVE  ~Precedes(n, m)
  <1>1. /\ row[m].available_at \in Int /\ row[n].available_at \in Int
        /\ row[m].created_at \in Nat /\ row[n].created_at \in Nat
    BY DEF Row
  <1>2. m \in Nat /\ n \in Nat
    BY OutboxAssumption
  <1>. QED
    BY <1>1, <1>2 DEF Precedes

(* An attempt at the next message.                                         *)
LEMMA DraftSchedule ==
    ASSUME OutboxInv, ScheduleInv, NEW w \in Workers, NEW m \in Messages, IsNext(w, m),
           NEW r \in Row, BacksOff(r), draft' = [draft EXCEPT ![w][m] = r],
           UNCHANGED <<now, row, claimed>>
    PROVE  ScheduleInv'
  <1>1. \A v \in Workers, n \in Messages :
           draft'[v][n] = IF v = w /\ n = m THEN r ELSE draft[v][n]
    BY DEF OutboxInv, OutboxTypeOK
  <1>2. claimed[w] \subseteq Messages /\ m \in claimed[w] /\ r # NoRow
    BY RowIsNotNoRow DEF OutboxInv, OutboxTypeOK, IsNext
  <1>3. Processed(w)' = Processed(w) \cup {m}
    BY <1>1, <1>2 DEF Processed
  <1>4. ASSUME NEW n \in claimed[w], Precedes(n, m)
        PROVE  n \in Processed(w)
    <2>1. row[n] \in Row /\ row[m] \in Row /\ n \in Messages
      BY <1>2 DEF OutboxInv, OutboxTypeOK, LocksProtect, NoRow
    <2>2. ~Precedes(m, n)
      BY <1>4, <2>1, PrecedesIsAsymmetric
    <2>3. n # m
      BY <1>4, <2>2
    <2>. QED
      BY <2>2, <2>3 DEF IsNext
  <1>5. KeepsOrder(w)'
    <2>1. \A x, y : Precedes(x, y)' <=> Precedes(x, y)
      BY DEF Precedes
    <2>. QED
      BY <1>3, <1>4, <2>1 DEF KeepsOrder, ScheduleInv
  <1>6. ASSUME NEW v \in Workers \ {w}
        PROVE  KeepsOrder(v)'
    <2>1. \A n \in claimed[v] : draft'[v][n] = draft[v][n]
      BY <1>1 DEF OutboxInv, OutboxTypeOK
    <2>. QED
      BY <2>1, OrderKeeps DEF ScheduleInv
  <1>7. \A v \in Workers, n \in Messages : draft'[v][n] # NoRow => BacksOff(draft'[v][n])
    BY <1>1 DEF ScheduleInv
  <1>. QED
    BY <1>5, <1>6, <1>7 DEF ScheduleInv, BacksOff, Earliest

LEMMA PublishSchedule ==
    ASSUME OutboxInv, ScheduleInv, NEW w \in Workers, NEW m \in Messages,
           PublishSucceeds(w, m) \/ PublishFails(w, m)
    PROVE  ScheduleInv'
  <1>1. IsNext(w, m)
    BY DEF PublishSucceeds, PublishFails
  <1>2. /\ row[m] \in Row /\ row[m].status = "pending" /\ m \in claimed[w]
        /\ row[m].attempt_count < MaxAttempts /\ now \in Nat
    BY <1>1, NextMessage DEF OutboxInv, OutboxTypeOK
  <1>3. CASE PublishSucceeds(w, m)
    <2> DEFINE r == MarkPublished(MarkAttempted(row[m]))
    <2>1. r \in Row /\ r.status = "published"
      BY <1>2, PublishedRow
    <2>2. draft' = [draft EXCEPT ![w][m] = r] /\ UNCHANGED <<now, row, claimed>>
      BY <1>3 DEF PublishSucceeds
    <2> HIDE DEF r
    <2>3. BacksOff(r)
      BY <2>1 DEF BacksOff
    <2>. QED
      BY <1>1, <2>1, <2>2, <2>3, DraftSchedule
  <1>4. CASE PublishFails(w, m)
    <2> DEFINE r == AfterFailure(row[m])
    <2>1. draft' = [draft EXCEPT ![w][m] = r] /\ UNCHANGED <<now, row, claimed>>
      BY <1>4 DEF PublishFails
    <2>2. r \in Row
      BY <1>2, AfterFailureRow
    <2>3. BacksOff(row[m]) /\ row[m].available_at <= now
      BY <1>2, RowIsNotNoRow DEF ScheduleInv
    <2>4. BacksOff(r)
      BY <1>2, <2>3, FailureBacksOff
    <2> HIDE DEF r
    <2>. QED
      BY <1>1, <2>1, <2>2, <2>4, DraftSchedule
  <1>. QED
    BY <1>3, <1>4

(* The end of a batch, in a commit or a rollback.                          *)
LEMMA CloseSchedule ==
    ASSUME OutboxInv, ScheduleInv, NEW w \in Workers, CloseSession(w), now' = now,
           \A m \in Messages : \/ row'[m] = row[m]
                               \/ m \in claimed[w] /\ row'[m] = draft[w][m]
    PROVE  ScheduleInv'
  <1>1. /\ \A v \in Workers : claimed'[v] = IF v = w THEN {} ELSE claimed[v]
        /\ \A v \in Workers, m \in Messages :
              draft'[v][m] = IF v = w THEN NoRow ELSE draft[v][m]
    BY CloseSessionEffect DEF OutboxInv
  <1>2. ASSUME NEW v \in Workers \ {w}, NEW m \in claimed[v]
        PROVE  m \in Messages /\ row'[m] = row[m]
    BY DEF OutboxInv, OutboxTypeOK, NoSharedClaim
  <1>3. ASSUME NEW v \in Workers \ {w}
        PROVE  KeepsOrder(v)'
    BY <1>1, <1>2, OrderKeeps DEF ScheduleInv
  <1>4. KeepsOrder(w)'
    BY <1>1 DEF KeepsOrder, Processed
  <1>5. \A v \in Workers : \A m \in claimed'[v] : row'[m].available_at <= now'
    BY <1>1, <1>2 DEF ScheduleInv
  <1>6. \A m \in Messages : row'[m] # NoRow => BacksOff(row'[m])
    BY DEF ScheduleInv
  <1>7. \A v \in Workers, m \in Messages : draft'[v][m] # NoRow => BacksOff(draft'[v][m])
    BY <1>1 DEF ScheduleInv
  <1>. QED
    BY <1>3, <1>4, <1>5, <1>6, <1>7 DEF ScheduleInv, BacksOff, Earliest

LEMMA ScheduleStepInv == OutboxInv /\ ScheduleInv /\ [OutboxNext]_outboxVars => ScheduleInv'
  <1> SUFFICES ASSUME OutboxInv, ScheduleInv, [OutboxNext]_outboxVars
               PROVE  ScheduleInv'
    OBVIOUS
  <1>1. now \in Nat
    BY DEF OutboxInv, OutboxTypeOK
  <1>2. CASE Tick
    BY <1>1, <1>2, FrameSchedule DEF Tick
  <1>3. CASE UNCHANGED outboxVars
    BY <1>1, <1>3, FrameSchedule DEF outboxVars
  <1>4. ASSUME NEW w \in Workers, IdlePoll(w)
        PROVE  ScheduleInv'
    BY <1>3, <1>4 DEF IdlePoll
  <1>5. ASSUME NEW w \in Workers, Commit(w) \/ Rollback(w)
        PROVE  ScheduleInv'
    BY <1>5, CloseSchedule DEF Commit, Rollback
  <1>. QED
    BY <1>2, <1>3, <1>4, <1>5, EnqueueSchedule, BeginBatchSchedule, PublishSchedule
    DEF OutboxNext, PublishNext

(* Publication (list_available, execute, _mark_failed): whatever the other *)
(* workers do, no attempt is made before the delays behind it have passed, *)
(* and no message of a batch before one that was due earlier.              *)
THEOREM BatchesAreAlwaysDueInOrder == OutboxSpec => []BatchesAreDueInOrder
  <1>1. OutboxInit => ScheduleInv
    BY DEF OutboxInit, ScheduleInv, KeepsOrder, Processed
  <1>2. OutboxInv /\ ScheduleInv => BatchesAreDueInOrder
    <2> SUFFICES ASSUME OutboxInv, ScheduleInv, NEW w \in Workers, NEW m \in claimed[w]
                 PROVE  /\ now >= row[m].created_at + InitialDelay * (2 ^ row[m].attempt_count - 1)
                        /\ m \in Processed(w) =>
                              {n \in claimed[w] : Precedes(n, m)} \subseteq Processed(w)
      BY DEF BatchesAreDueInOrder
    <2>1. m \in Messages /\ row[m].status = "pending" /\ row[m] # NoRow /\ row[m] \in Row
      BY DEF OutboxInv, OutboxTypeOK, LocksProtect, NoRow
    <2>2. row[m].available_at <= now /\ row[m].available_at >= Earliest(row[m]) /\ now \in Nat
      BY <2>1 DEF ScheduleInv, BacksOff, OutboxInv, OutboxTypeOK
    <2>3. /\ row[m].available_at \in Int /\ row[m].created_at \in Nat
          /\ row[m].attempt_count \in Nat
      BY <2>1 DEF Row
    <2>4. Earliest(row[m]) \in Int
      BY <2>3, DelaysAddUp DEF Earliest
    <2>5. now >= Earliest(row[m])
      BY <2>2, <2>3, <2>4
    <2>. QED
      BY <2>5 DEF Earliest, ScheduleInv, KeepsOrder
  <1>. QED
    BY <1>1, <1>2, OutboxInitInv, OutboxInvariant, ScheduleStepInv, PTL DEF OutboxSpec
=============================================================================
