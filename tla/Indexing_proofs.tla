-------------------------- MODULE Indexing_proofs --------------------------
(***************************************************************************)
(* Proofs about Indexing, for any traces, searches, batch size, models and *)
(* any number of failures, cancelled calls and deployments.                *)
(*                                                                         *)
(* The argument for the lock: its queue holds every caller in a call once, *)
(* only the first of them encodes, and a thread without a call costs one   *)
(* cancellation.  For the index: the rows cannot change while the          *)
(* embedding handler works, so its draft is the records of the first rows, *)
(* whatever else uses the provider; all of them are saved at once, and the *)
(* chunker deletes them with their rows.                                   *)
(***************************************************************************)
EXTENDS Indexing, TraceChunker_proofs

CallState == {"none", "waiting", "encoding", "returned", "raised", "answered"}

(* The threads whose call was cancelled.                                   *)
Abandoned == {c \in threads : call[c] # "encoding"}

(* The lock: its first caller holds it and only that one encodes, the      *)
(* others wait in line; a thread without a call was left by a cancelled    *)
(* one.                                                                    *)
LockInv ==
    /\ call \in [Callers -> CallState]
    /\ lock \in Seq(Callers)
    /\ \A i, j \in 1 .. Len(lock) : lock[i] = lock[j] => i = j
    /\ \A c \in Callers :
          (\E i \in 1 .. Len(lock) : lock[i] = c) <=> call[c] \in {"waiting", "encoding"}
    /\ \A i \in 2 .. Len(lock) : call[lock[i]] # "encoding"
    /\ threads \subseteq Callers
    /\ IsFiniteSet(threads)
    /\ cancels \in Nat
    /\ Cardinality(Abandoned) <= cancels
    /\ step # "call" => call[Worker] = "none"
    /\ call[Worker] # "answered"

(* What is known of the data, whatever the elements are: chunks and rows   *)
(* are sequences, every caller has its vectors and every search its answer.*)
ShapesInv ==
    /\ chunks \in Seq(ToSet(chunks))
    /\ rows \in Seq(ToSet(rows))
    /\ vectors = [c \in Callers |-> vectors[c]]
    /\ matches = [s \in Searches |-> matches[s]]

(* The record that the embedding of a row is, by the model in use.         *)
RecordOf(row) == Record(row, Encode(Model, row.chunk.text))

(* The embedding handler has the rows as they are, and the records of the  *)
(* first of them.                                                          *)
HandlerInv ==
    /\ step \in {"embed", "call"} =>
          /\ chunk_list = rows
          /\ rows # <<>>
          /\ \E n \in 0 .. Len(rows) : draft = [i \in 1 .. n |-> RecordOf(rows[i])]
    /\ step = "call" /\ call[Worker] = "returned" =>
          vectors[Worker] = [i \in DOMAIN Batch |-> Encode(Model, Batch[i].chunk.text)]

(* The inductive invariant.                                                *)
IndexingInv == ChunkInv /\ LockInv /\ ShapesInv /\ HandlerInv /\ IndexIsSound

-----------------------------------------------------------------------------
(* Sequences.                                                              *)

(* Two sequences joined.                                                   *)
LEMMA Joined ==
    ASSUME NEW S, NEW a \in Seq(S), NEW b \in Seq(S)
    PROVE  /\ a \o b \in Seq(S)
           /\ Len(a \o b) = Len(a) + Len(b)
           /\ \A i \in 1 .. Len(a) : (a \o b)[i] = a[i]
           /\ \A i \in 1 .. Len(b) : (a \o b)[Len(a) + i] = b[i]
  OBVIOUS

(* What is left of a queue when the caller at position i leaves it.        *)
LEMMA RemovedFromQueue ==
    ASSUME NEW S, NEW q \in Seq(S), NEW i \in 1 .. Len(q)
    PROVE  /\ RemoveAt(q, i) \in Seq(S)
           /\ Len(RemoveAt(q, i)) = Len(q) - 1
           /\ \A j \in 1 .. Len(q) - 1 :
                 RemoveAt(q, i)[j] = IF j < i THEN q[j] ELSE q[j + 1]
  <1> DEFINE a == SubSeq(q, 1, i - 1)
             b == SubSeq(q, i + 1, Len(q))
  <1>1. /\ a \in Seq(S)
        /\ Len(a) = i - 1
        /\ \A j \in 1 .. i - 1 : a[j] = q[j]
    OBVIOUS
  <1>2. /\ b \in Seq(S)
        /\ Len(b) = Len(q) - i
        /\ \A j \in 1 .. Len(q) - i : b[j] = q[i + j]
    OBVIOUS
  <1>3. RemoveAt(q, i) = a \o b
    BY DEF RemoveAt
  <1>0. Len(q) \in Nat
    OBVIOUS
  <1> HIDE DEF a, b
  <1>4. a \o b \in Seq(S) /\ Len(a \o b) = Len(q) - 1
    <2>1. a \o b \in Seq(S) /\ Len(a \o b) = Len(a) + Len(b)
      BY <1>1, <1>2, Joined
    <2>. QED
      BY <1>0, <1>1, <1>2, <2>1
  <1>5. ASSUME NEW j \in 1 .. Len(q) - 1
        PROVE  (a \o b)[j] = IF j < i THEN q[j] ELSE q[j + 1]
    <2>1. CASE j < i
      <3>1. (a \o b)[j] = a[j]
        BY <1>0, <1>1, <1>2, <2>1
      <3>. QED
        BY <1>1, <2>1, <3>1
    <2>2. CASE ~(j < i)
      <3>1. (a \o b)[j] = b[j - (i - 1)]
        BY <1>1, <1>2, <2>2
      <3>2. j - (i - 1) \in 1 .. Len(q) - i /\ i + (j - (i - 1)) = j + 1
        BY <2>2
      <3>3. b[j - (i - 1)] = q[j + 1]
        BY <1>2, <3>2
      <3>. QED
        BY <2>2, <3>1, <3>3
    <2>. QED
      BY <2>1, <2>2
  <1>. QED
    BY <1>3, <1>4, <1>5

(* A function on 1 .. n is a sequence of its own elements.                 *)
LEMMA FunctionIsSequence ==
    ASSUME NEW n \in Nat, NEW s, s = [i \in 1 .. n |-> s[i]]
    PROVE  s \in Seq(ToSet(s)) /\ Len(s) = n
  <1>1. \A i \in 1 .. n : s[i] \in ToSet(s)
    BY DEF ToSet
  <1>2. s \in [1 .. n -> ToSet(s)]
    BY <1>1
  <1>. QED
    BY <1>2

(* The smaller of two numbers.                                             *)
LEMMA SmallerOfTwo ==
    ASSUME NEW a \in Nat, NEW b \in Nat
    PROVE  Min({a, b}) = IF a <= b THEN a ELSE b
  <1> DEFINE c == IF a <= b THEN a ELSE b
  <1>1. c \in {a, b} /\ \A y \in {a, b} : c <= y
    OBVIOUS
  <1>2. \A x \in {a, b} : (\A y \in {a, b} : x <= y) => x = c
    OBVIOUS
  <1>. QED
    BY <1>1, <1>2 DEF Min

-----------------------------------------------------------------------------
(* The lock and the threads.                                               *)

(* The one that encodes holds the lock.                                    *)
LEMMA EncoderIsFirst ==
    ASSUME LockInv, NEW c \in Callers, call[c] = "encoding"
    PROVE  /\ lock # <<>>
           /\ lock[1] = c
           /\ Len(lock) \in Nat \ {0}
  <1>1. PICK i \in 1 .. Len(lock) : lock[i] = c
    BY DEF LockInv
  <1>2. Len(lock) \in Nat
    BY DEF LockInv
  <1>3. i = 1
    BY <1>1, <1>2 DEF LockInv
  <1>. QED
    BY <1>1, <1>2, <1>3

(* The abandoned threads are finitely many.                                *)
LEMMA AbandonedAreFinite ==
    ASSUME LockInv
    PROVE  IsFiniteSet(Abandoned) /\ Cardinality(Abandoned) \in Nat
  BY FS_Subset, FS_CardinalityType DEF LockInv, Abandoned

(* Fewer threads are abandoned: the bound still holds.                     *)
LEMMA FewerAbandoned ==
    ASSUME LockInv, NEW A, A \subseteq Abandoned
    PROVE  IsFiniteSet(A) /\ Cardinality(A) <= cancels
  <1>1. IsFiniteSet(A) /\ Cardinality(A) <= Cardinality(Abandoned) /\ Cardinality(A) \in Nat
    BY AbandonedAreFinite, FS_Subset, FS_CardinalityType
  <1>. QED
    BY <1>1, AbandonedAreFinite DEF LockInv

(* The steps that leave lock, calls and threads alone.                     *)
LEMMA QuietLock ==
    ASSUME LockInv, UNCHANGED <<call, lock, threads, cancels>>,
           step' # "call" => call[Worker] = "none"
    PROVE  LockInv'
  BY DEF LockInv, Abandoned

(* A caller comes: it queues up for the lock.                              *)
LEMMA CallJoins ==
    ASSUME LockInv, NEW c \in Callers, call[c] = "none", Call(c), cancels' = cancels,
           step' # "call" => c # Worker /\ call[Worker] = "none"
    PROVE  LockInv'
  <1> DEFINE n == Len(lock)
  <1>1. n \in Nat /\ lock \in Seq(Callers)
    BY DEF LockInv
  <1>2. /\ lock' \in Seq(Callers)
        /\ Len(lock') = n + 1
        /\ \A i \in 1 .. n : lock'[i] = lock[i]
        /\ lock'[n + 1] = c
    BY <1>1 DEF Call
  <1>3. /\ call' = [call EXCEPT ![c] = "waiting"]
        /\ threads' = threads
        /\ call \in [Callers -> CallState]
    BY DEF Call, LockInv
  <1>4. \A i \in 1 .. n : lock[i] # c /\ lock[i] \in Callers
    BY <1>1 DEF LockInv
  <1>5. Abandoned' = Abandoned
    BY <1>3 DEF Abandoned, LockInv
  <1> HIDE DEF n
  <1>6. call' \in [Callers -> CallState]
    BY <1>3 DEF CallState
  <1>7. \A i, j \in 1 .. Len(lock') : lock'[i] = lock'[j] => i = j
    <2>1. \A i, j \in 1 .. n : lock[i] = lock[j] => i = j
      BY DEF LockInv, n
    <2>. QED
      BY <1>1, <1>2, <1>4, <2>1
  <1>8. \A d \in Callers :
           (\E i \in 1 .. Len(lock') : lock'[i] = d) <=> call'[d] \in {"waiting", "encoding"}
    <2> SUFFICES ASSUME NEW d \in Callers
                 PROVE  (\E i \in 1 .. Len(lock') : lock'[i] = d)
                            <=> call'[d] \in {"waiting", "encoding"}
      OBVIOUS
    <2>1. CASE d = c
      <3>1. n + 1 \in 1 .. Len(lock')
        BY <1>1, <1>2
      <3>. QED
        BY <1>2, <1>3, <2>1, <3>1
    <2>2. CASE d # c
      <3>1. (\E i \in 1 .. Len(lock') : lock'[i] = d) <=> \E i \in 1 .. n : lock[i] = d
        BY <1>1, <1>2, <2>2
      <3>2. call'[d] = call[d]
        BY <1>3, <2>2
      <3>. QED
        BY <3>1, <3>2 DEF LockInv, n
    <2>. QED
      BY <2>1, <2>2
  <1>9. \A i \in 2 .. Len(lock') : call'[lock'[i]] # "encoding"
    <2>1. \A i \in 2 .. n : call[lock[i]] # "encoding"
      BY DEF LockInv, n
    <2>. QED
      BY <1>1, <1>2, <1>3, <1>4, <2>1
  <1>10. call'[Worker] # "answered" /\ (step' # "call" => call'[Worker] = "none")
    BY <1>3 DEF LockInv, Callers
  <1>. QED
    BY <1>2, <1>3, <1>5, <1>6, <1>7, <1>8, <1>9, <1>10 DEF LockInv

(* The caller at position i leaves the queue, with its vectors or without. *)
LEMMA CallLeaves ==
    ASSUME LockInv, NEW i \in 1 .. Len(lock), NEW c \in Callers, c = lock[i],
           NEW result \in {"returned", "raised"},
           lock' = RemoveAt(lock, i), call' = [call EXCEPT ![c] = result], step' = step,
           threads' \subseteq Callers, IsFiniteSet(threads'), cancels' \in Nat,
           Cardinality(Abandoned') <= cancels'
    PROVE  LockInv'
  <1> DEFINE n == Len(lock)
  <1>1. n \in Nat /\ lock \in Seq(Callers) /\ call \in [Callers -> CallState]
    BY DEF LockInv
  <1>2. /\ lock' \in Seq(Callers)
        /\ Len(lock') = n - 1
        /\ \A j \in 1 .. n - 1 : lock'[j] = IF j < i THEN lock[j] ELSE lock[j + 1]
    BY <1>1, RemovedFromQueue
  <1>3. /\ \A j, k \in 1 .. n : lock[j] = lock[k] => j = k
        /\ \A d \in Callers :
              (\E j \in 1 .. n : lock[j] = d) <=> call[d] \in {"waiting", "encoding"}
        /\ \A j \in 2 .. n : call[lock[j]] # "encoding"
        /\ \A j \in 1 .. n : lock[j] \in Callers
    BY <1>1 DEF LockInv
  <1> HIDE DEF n
  <1>4. i \in 1 .. n
    BY DEF n
  <1>5. call' \in [Callers -> CallState]
    BY <1>1 DEF CallState
  <1>6. \A j, k \in 1 .. Len(lock') : lock'[j] = lock'[k] => j = k
    <2> SUFFICES ASSUME NEW j \in 1 .. n - 1, NEW k \in 1 .. n - 1, lock'[j] = lock'[k]
                 PROVE  j = k
      BY <1>2
    <2>1. PICK a \in 1 .. n : lock'[j] = lock[a] /\ a = IF j < i THEN j ELSE j + 1
      <3>1. CASE j < i
        BY <1>1, <1>2, <1>4, <3>1
      <3>2. CASE ~(j < i)
        BY <1>1, <1>2, <1>4, <3>2
      <3>. QED
        BY <3>1, <3>2
    <2>2. PICK b \in 1 .. n : lock'[k] = lock[b] /\ b = IF k < i THEN k ELSE k + 1
      <3>1. CASE k < i
        BY <1>1, <1>2, <1>4, <3>1
      <3>2. CASE ~(k < i)
        BY <1>1, <1>2, <1>4, <3>2
      <3>. QED
        BY <3>1, <3>2
    <2>3. a = b
      <3>1. lock[a] = lock[b]
        BY <2>1, <2>2
      <3>. QED
        BY <1>3, <3>1
    <2>4. i \in Int /\ j \in Int /\ k \in Int
      BY <1>1, <1>4
    <2>. QED
      BY <2>1, <2>2, <2>3, <2>4
  <1>7. \A d \in Callers :
           (\E j \in 1 .. Len(lock') : lock'[j] = d) <=> call'[d] \in {"waiting", "encoding"}
    <2> SUFFICES ASSUME NEW d \in Callers
                 PROVE  (\E j \in 1 .. n - 1 : lock'[j] = d)
                            <=> call'[d] \in {"waiting", "encoding"}
      BY <1>2
    <2>1. CASE d = c
      <3>1. call'[d] = result
        BY <1>1, <2>1
      <3>2. ASSUME NEW j \in 1 .. n - 1, lock'[j] = d PROVE FALSE
        <4>1. CASE j < i
          BY <1>1, <1>2, <1>3, <1>4, <2>1, <3>2, <4>1
        <4>2. CASE ~(j < i)
          <5>1. j + 1 \in 1 .. n /\ j + 1 # i /\ lock[j + 1] = c
            BY <1>1, <1>2, <1>4, <2>1, <3>2, <4>2
          <5>. QED
            BY <1>3, <1>4, <5>1
        <4>. QED
          BY <4>1, <4>2
      <3>. QED
        BY <3>1, <3>2
    <2>2. CASE d # c
      <3>1. call'[d] = call[d]
        BY <1>1, <2>2
      <3>2. ASSUME NEW j \in 1 .. n - 1, lock'[j] = d PROVE \E k \in 1 .. n : lock[k] = d
        <4>1. j \in 1 .. n /\ j + 1 \in 1 .. n
          BY <1>1
        <4>2. lock[j] = d \/ lock[j + 1] = d
          BY <1>2, <3>2
        <4>. QED
          BY <4>1, <4>2
      <3>3. ASSUME NEW k \in 1 .. n, lock[k] = d PROVE \E j \in 1 .. n - 1 : lock'[j] = d
        <4>1. k # i
          BY <2>2, <3>3
        <4>2. CASE k < i
          <5>1. k \in 1 .. n - 1 /\ lock'[k] = d
            BY <1>1, <1>2, <1>4, <3>3, <4>2
          <5>. QED
            BY <5>1
        <4>3. CASE k > i
          <5>1. k - 1 \in 1 .. n - 1 /\ ~(k - 1 < i) /\ (k - 1) + 1 = k
            BY <1>1, <1>4, <4>3
          <5>2. lock'[k - 1] = d
            BY <1>2, <3>3, <5>1
          <5>. QED
            BY <5>1, <5>2
        <4>. QED
          BY <1>4, <4>1, <4>2, <4>3
      <3>. QED
        BY <1>3, <3>1, <3>2, <3>3
    <2>. QED
      BY <2>1, <2>2
  <1>8. \A j \in 2 .. Len(lock') : call'[lock'[j]] # "encoding"
    <2> SUFFICES ASSUME NEW j \in 2 .. n - 1 PROVE call'[lock'[j]] # "encoding"
      BY <1>2
    <2>1. PICK k \in 2 .. n : lock'[j] = lock[k]
      BY <1>1, <1>2, <1>4
    <2>2. lock[k] \in Callers /\ call[lock[k]] # "encoding"
      BY <1>3
    <2>3. call'[lock[k]] \in {call[lock[k]], result}
      BY <1>1, <2>2
    <2>. QED
      BY <2>1, <2>2, <2>3
  <1>9. call'[Worker] # "answered" /\ (step' # "call" => call'[Worker] = "none")
    <2>1. call[c] \in {"waiting", "encoding"}
      BY <1>3, <1>4
    <2>2. CASE Worker = c
      BY <1>1, <2>1, <2>2 DEF LockInv
    <2>3. CASE Worker # c
      BY <1>1, <2>3 DEF LockInv, Callers
    <2>. QED
      BY <2>2, <2>3
  <1>. QED
    BY <1>2, <1>5, <1>6, <1>7, <1>8, <1>9 DEF LockInv

(* The call that holds the lock returns or raises.                         *)
LEMMA HolderLeaves ==
    ASSUME LockInv, NEW c \in Callers, call[c] = "encoding",
           NEW result \in {"returned", "raised"},
           lock' = Tail(lock), call' = [call EXCEPT ![c] = result],
           threads' = threads \ {c}, UNCHANGED <<step, cancels>>
    PROVE  LockInv'
  <1>1. lock # <<>> /\ lock[1] = c /\ Len(lock) \in Nat \ {0} /\ lock \in Seq(Callers)
    BY EncoderIsFirst DEF LockInv
  <1>2. 1 \in 1 .. Len(lock)
    BY <1>1
  <1>3. Tail(lock) = RemoveAt(lock, 1)
    <2>1. /\ RemoveAt(lock, 1) \in Seq(Callers)
          /\ Len(RemoveAt(lock, 1)) = Len(lock) - 1
          /\ \A j \in 1 .. Len(lock) - 1 : RemoveAt(lock, 1)[j] = lock[j + 1]
      BY <1>1, <1>2, RemovedFromQueue
    <2>2. /\ Tail(lock) \in Seq(Callers)
          /\ Len(Tail(lock)) = Len(lock) - 1
          /\ \A j \in 1 .. Len(lock) - 1 : Tail(lock)[j] = lock[j + 1]
      BY <1>1
    <2>. QED
      BY <2>1, <2>2
  <1>4. threads' \subseteq Callers /\ IsFiniteSet(threads') /\ cancels' \in Nat
    BY FS_Subset DEF LockInv
  <1>5. Cardinality(Abandoned') <= cancels'
    <2>1. Abandoned' \subseteq Abandoned
      BY DEF Abandoned, LockInv
    <2>. QED
      BY <2>1, FewerAbandoned
  <1>. QED
    BY <1>1, <1>2, <1>3, <1>4, <1>5, CallLeaves

(* A call is cancelled: its thread, if it has one, is abandoned.           *)
LEMMA CancelLock == ASSUME LockInv, NEW c \in Callers, Cancel(c) PROVE LockInv'
  <1>1. PICK i \in 1 .. Len(lock) : lock[i] = c /\ lock' = RemoveAt(lock, i)
    <2>1. DOMAIN lock = 1 .. Len(lock)
      BY DEF LockInv
    <2>. QED
      BY <2>1 DEF Cancel
  <1>2. /\ call' = [call EXCEPT ![c] = "raised"]
        /\ UNCHANGED <<threads, step>>
        /\ cancels' = cancels + 1
    BY DEF Cancel, handler
  <1>3. Cardinality(Abandoned') <= cancels'
    <2>1. Abandoned' \subseteq Abandoned \cup {c}
      BY <1>2 DEF Abandoned, LockInv
    <2>2. /\ IsFiniteSet(Abandoned \cup {c})
          /\ Cardinality(Abandoned \cup {c}) <= Cardinality(Abandoned) + 1
      <3>1. /\ IsFiniteSet(Abandoned \cup {c})
            /\ Cardinality(Abandoned \cup {c}) \in {Cardinality(Abandoned), Cardinality(Abandoned) + 1}
        BY AbandonedAreFinite, FS_AddElement
      <3>. QED
        BY <3>1, AbandonedAreFinite
    <2>3. Cardinality(Abandoned') <= Cardinality(Abandoned \cup {c}) /\ Cardinality(Abandoned') \in Nat
      BY <2>1, <2>2, FS_Subset, FS_CardinalityType
    <2>4. Cardinality(Abandoned \cup {c}) \in Nat /\ Cardinality(Abandoned) \in Nat
      BY <2>2, AbandonedAreFinite, FS_CardinalityType
    <2>. QED
      BY <1>2, <2>2, <2>3, <2>4 DEF LockInv
  <1>4. threads' \subseteq Callers /\ IsFiniteSet(threads') /\ cancels' \in Nat
    BY <1>2 DEF LockInv
  <1>. QED
    BY <1>1, <1>2, <1>3, <1>4, CallLeaves

(* The first in line starts its thread.                                    *)
LEMMA StartEncodingLock == ASSUME LockInv, NEW c \in Callers, StartEncoding(c) PROVE LockInv'
  <1>1. /\ call[c] = "waiting" /\ Head(lock) = c
        /\ call' = [call EXCEPT ![c] = "encoding"]
        /\ threads' = threads \cup {c}
        /\ UNCHANGED <<lock, step, cancels>>
    BY DEF StartEncoding, handler, bounds
  <1>2. lock \in Seq(Callers) /\ Len(lock) \in Nat /\ call \in [Callers -> CallState]
    BY DEF LockInv
  <1>3. lock # <<>> /\ lock[1] = c
    <2>1. \E i \in 1 .. Len(lock) : lock[i] = c
      BY <1>1 DEF LockInv
    <2>. QED
      BY <1>1, <1>2, <2>1
  <1>4. threads' \subseteq Callers /\ IsFiniteSet(threads')
    BY <1>1, FS_AddElement DEF LockInv
  <1>5. Cardinality(Abandoned') <= cancels
    <2>1. Abandoned' \subseteq Abandoned
      BY <1>1, <1>2 DEF Abandoned, LockInv
    <2>. QED
      BY <2>1, FewerAbandoned
  <1>6. call' \in [Callers -> CallState]
    BY <1>1, <1>2 DEF CallState
  <1>7. \A d \in Callers :
           call'[d] \in {"waiting", "encoding"} <=> call[d] \in {"waiting", "encoding"}
    BY <1>1, <1>2
  <1>8. \A i \in 2 .. Len(lock) : call'[lock[i]] # "encoding"
    <2> SUFFICES ASSUME NEW i \in 2 .. Len(lock) PROVE call'[lock[i]] # "encoding"
      OBVIOUS
    <2>1. 1 \in 1 .. Len(lock) /\ i \in 1 .. Len(lock) /\ i # 1
      BY <1>2
    <2>2. lock[i] # c /\ lock[i] \in Callers
      BY <1>2, <1>3, <2>1 DEF LockInv
    <2>. QED
      BY <1>1, <1>2, <2>2 DEF LockInv
  <1>9. call'[Worker] # "answered" /\ (step' # "call" => call'[Worker] = "none")
    BY <1>1, <1>2 DEF LockInv, Callers
  <1>. QED
    BY <1>1, <1>4, <1>5, <1>6, <1>7, <1>8, <1>9 DEF LockInv

(* A thread ends that nobody waits for.                                    *)
LEMMA AbandonedEndsLock == ASSUME LockInv, NEW c \in Callers, AbandonedEnds(c) PROVE LockInv'
  <1>1. /\ threads' = threads \ {c}
        /\ UNCHANGED <<call, lock, step, cancels>>
    BY DEF AbandonedEnds, handler, bounds
  <1>2. threads' \subseteq Callers /\ IsFiniteSet(threads')
    BY <1>1, FS_Subset DEF LockInv
  <1>3. Cardinality(Abandoned') <= cancels
    <2>1. Abandoned' \subseteq Abandoned
      BY <1>1 DEF Abandoned
    <2>. QED
      BY <2>1, FewerAbandoned
  <1>. QED
    BY <1>1, <1>2, <1>3 DEF LockInv

(* A caller takes the result of its call, or leaves it behind.             *)
LEMMA CallIsOver ==
    ASSUME LockInv, NEW c \in Callers, call[c] \in {"returned", "raised"},
           NEW next \in {"none", "answered"},
           call' = [call EXCEPT ![c] = next], UNCHANGED <<lock, threads, cancels>>,
           IF c = Worker THEN next = "none" ELSE step' = step
    PROVE  LockInv'
  <1>1. call \in [Callers -> CallState]
    BY DEF LockInv
  <1>2. call' \in [Callers -> CallState]
    BY <1>1 DEF CallState
  <1>3. \A d \in Callers :
           /\ call'[d] \in {"waiting", "encoding"} <=> call[d] \in {"waiting", "encoding"}
           /\ call'[d] = "encoding" <=> call[d] = "encoding"
    BY <1>1
  <1>4. Abandoned' = Abandoned
    BY <1>3 DEF Abandoned, LockInv
  <1>5. \A i \in 2 .. Len(lock) : call'[lock[i]] # "encoding"
    <2>1. \A i \in 2 .. Len(lock) : lock[i] \in Callers /\ call[lock[i]] # "encoding"
      BY DEF LockInv
    <2>. QED
      BY <1>3, <2>1
  <1>6. call'[Worker] # "answered" /\ (step' # "call" => call'[Worker] = "none")
    BY <1>1 DEF LockInv, Callers
  <1>. QED
    BY <1>2, <1>3, <1>4, <1>5, <1>6 DEF LockInv

(* The new process has no calls and no threads.                            *)
LEMMA RedeployLock == ASSUME LockInv, Redeploy PROVE LockInv'
  <1>1. /\ call' = [c \in Callers |-> IF call[c] = "answered" THEN "answered" ELSE "none"]
        /\ lock' = <<>> /\ threads' = {} /\ step' = "idle" /\ cancels' = cancels
    BY DEF Redeploy, bounds
  <1>2. call' \in [Callers -> CallState] /\ call'[Worker] = "none"
    BY <1>1 DEF LockInv, CallState, Callers
  <1>3. \A c \in Callers : call'[c] \notin {"waiting", "encoding"}
    BY <1>1
  <1>4. Abandoned' = {}
    BY <1>1 DEF Abandoned
  <1>5. Cardinality(Abandoned') <= cancels
    BY <1>4, FS_EmptySet DEF LockInv
  <1>6. IsFiniteSet({})
    BY FS_EmptySet
  <1>. QED
    BY <1>1, <1>2, <1>3, <1>5, <1>6 DEF LockInv

(* Every step keeps the lock's invariant.                                  *)
LEMMA LockStepInv == LockInv /\ [Next]_vars => LockInv'
  <1> SUFFICES ASSUME LockInv, [Next]_vars PROVE LockInv'
    OBVIOUS
  <1> USE DEF provider, handler, bounds
  <1>0. Worker \in Callers /\ \A s \in Searches : s \in Callers /\ s # Worker
    BY WorkerIsNoSearch DEF Callers
  <1>1. CASE Chunking
    BY <1>1, QuietLock DEF LockInv, Chunking, ChunkStep, RefuseCommand, StoreChunks
  <1>2. CASE NormalizeAgain \/ BeginEmbedding \/ SaveRecords
    BY <1>2, QuietLock DEF LockInv, NormalizeAgain, BeginEmbedding, SaveRecords
  <1>3. CASE EmbedBatch
    BY <1>0, <1>3, CallJoins DEF LockInv, EmbedBatch
  <1>4. CASE WorkerEncodingEnds
    BY <1>0, <1>4, HolderLeaves DEF WorkerEncodingEnds, EncodingEnds
  <1>5. CASE AddRecords \/ EmbeddingRaises
    BY <1>0, <1>5, CallIsOver DEF AddRecords, EmbeddingRaises
  <1>6. ASSUME NEW s \in Searches, Ask(s) PROVE LockInv'
    BY <1>0, <1>6, CallJoins DEF LockInv, Ask
  <1>7. ASSUME NEW s \in Searches, QuestionEncoded(s) PROVE LockInv'
    BY <1>0, <1>7, HolderLeaves DEF QuestionEncoded, EncodingEnds
  <1>8. ASSUME NEW s \in Searches, Answer(s) PROVE LockInv'
    BY <1>0, <1>8, CallIsOver DEF Answer
  <1>9. ASSUME NEW c \in Callers, EncodingFails(c) PROVE LockInv'
    BY <1>9, HolderLeaves DEF EncodingFails
  <1>10. ASSUME NEW c \in Callers, StartEncoding(c) \/ Cancel(c) \/ AbandonedEnds(c)
         PROVE  LockInv'
    BY <1>10, StartEncodingLock, CancelLock, AbandonedEndsLock
  <1>11. CASE Redeploy
    BY <1>11, RedeployLock
  <1>12. CASE UNCHANGED vars
    BY <1>12, QuietLock DEF vars, LockInv
  <1>. QED
    BY <1>1, <1>2, <1>3, <1>4, <1>5, <1>6, <1>7, <1>8, <1>9, <1>10, <1>11, <1>12
    DEF Next, Embedding, Search

-----------------------------------------------------------------------------
(* The data.                                                               *)

(* Chunks and rows stay sequences.                                         *)
LEMMA ShapesStepInv == ShapesInv /\ [Next]_vars => ShapesInv'
  <1> SUFFICES ASSUME ShapesInv, [Next]_vars PROVE ShapesInv'
    OBVIOUS
  <1>1. (chunks \in Seq(ToSet(chunks)))'
    <2>1. <<>> \in Seq(ToSet(<<>>))
      OBVIOUS
    <2>2. CASE UNCHANGED chunks
      BY <2>2 DEF ShapesInv
    <2>3. CASE chunks' = <<>>
      BY <2>1, <2>3
    <2>4. ASSUME NEW x, chunks' = Append(chunks, x) PROVE (chunks \in Seq(ToSet(chunks)))'
      BY <2>4, AppendedSequence DEF ShapesInv
    <2>5. CASE ChunkStep
      <3>1. UNCHANGED chunks \/ \E x : chunks' = Append(chunks, x)
        BY <2>5 DEF ChunkStep, ChunkNext, ReturnNothing, Refuse, Order, Fill, Close, Return
      <3>. QED
        BY <2>2, <2>4, <3>1
    <2>6. CASE ~ChunkStep
      <3>1. UNCHANGED chunks \/ chunks' = <<>>
        BY <2>6
        DEF Next, Chunking, RefuseCommand, StoreChunks, NormalizeAgain, BeginEmbedding, Embedding,
            EmbedBatch, WorkerEncodingEnds, AddRecords, SaveRecords, EmbeddingRaises, Ask, Search,
            QuestionEncoded, Answer, StartEncoding, EncodingFails, Cancel, AbandonedEnds, Redeploy,
            vars, chunkVars
      <3>. QED
        BY <2>2, <2>3, <3>1
    <2>. QED
      BY <2>5, <2>6
  <1>2. (rows \in Seq(ToSet(rows)))'
    <2>1. CASE UNCHANGED rows
      BY <2>1 DEF ShapesInv
    <2>2. CASE StoreChunks
      <3>1. Len(chunks) \in Nat /\ DOMAIN chunks = 1 .. Len(chunks)
        BY DEF ShapesInv
      <3>2. rows' = [i \in 1 .. Len(chunks) |-> [id |-> nextId + i, chunk |-> chunks[i]]]
        BY <2>2, <3>1 DEF StoreChunks
      <3>3. rows' = [i \in 1 .. Len(chunks) |-> rows'[i]]
        BY <3>2
      <3>. QED
        BY <3>1, <3>3, FunctionIsSequence
    <2>3. CASE ~StoreChunks
      <3>1. UNCHANGED rows
        BY <2>3
        DEF Next, Chunking, ChunkStep, RefuseCommand, NormalizeAgain, BeginEmbedding, Embedding,
            EmbedBatch, WorkerEncodingEnds, AddRecords, SaveRecords, EmbeddingRaises, Ask, Search,
            QuestionEncoded, Answer, StartEncoding, EncodingFails, Cancel, AbandonedEnds, Redeploy,
            vars, tables
      <3>. QED
        BY <2>1, <3>1
    <2>. QED
      BY <2>2, <2>3
  <1>3. (vectors = [c \in Callers |-> vectors[c]])'
    <2>1. CASE UNCHANGED vectors
      BY <2>1 DEF ShapesInv
    <2>2. ASSUME NEW c, NEW x, vectors' = [vectors EXCEPT ![c] = x]
          PROVE  (vectors = [d \in Callers |-> vectors[d]])'
      BY <2>2 DEF ShapesInv
    <2>3. CASE vectors' = [c \in Callers |-> <<>>]
      BY <2>3
    <2>4. UNCHANGED vectors \/ vectors' = [c \in Callers |-> <<>>]
              \/ \E c, x : vectors' = [vectors EXCEPT ![c] = x]
      BY DEF Next, Chunking, ChunkStep, RefuseCommand, StoreChunks, NormalizeAgain, BeginEmbedding,
             Embedding, EmbedBatch, WorkerEncodingEnds, AddRecords, SaveRecords, EmbeddingRaises,
             Ask, Call, Search, QuestionEncoded, EncodingEnds, Answer, StartEncoding, EncodingFails,
             Cancel, AbandonedEnds, Redeploy, vars, provider
    <2>. QED
      BY <2>1, <2>2, <2>3, <2>4
  <1>4. (matches = [s \in Searches |-> matches[s]])'
    <2>1. CASE UNCHANGED matches
      BY <2>1 DEF ShapesInv
    <2>2. ASSUME NEW s, NEW x, matches' = [matches EXCEPT ![s] = x]
          PROVE  (matches = [t \in Searches |-> matches[t]])'
      BY <2>2 DEF ShapesInv
    <2>3. UNCHANGED matches \/ \E s, x : matches' = [matches EXCEPT ![s] = x]
      BY DEF Next, Chunking, ChunkStep, RefuseCommand, StoreChunks, NormalizeAgain, BeginEmbedding,
             Embedding, EmbedBatch, WorkerEncodingEnds, AddRecords, SaveRecords, EmbeddingRaises,
             Ask, Search, QuestionEncoded, Answer, StartEncoding, EncodingFails, Cancel,
             AbandonedEnds, Redeploy, vars
    <2>. QED
      BY <2>1, <2>2, <2>3
  <1>. QED
    BY <1>1, <1>2, <1>3, <1>4 DEF ShapesInv

(* The first n values of a function and the next k, joined.                *)
LEMMA Extended ==
    ASSUME NEW f, NEW n \in Nat, NEW k \in Nat
    PROVE  [i \in 1 .. n |-> f[i]] \o [i \in 1 .. k |-> f[n + i]] = [i \in 1 .. n + k |-> f[i]]
  <1> DEFINE S == {f[i] : i \in 1 .. n + k}
             a == [i \in 1 .. n |-> f[i]]
             b == [i \in 1 .. k |-> f[n + i]]
             c == [i \in 1 .. n + k |-> f[i]]
  <1>1. a \in Seq(S) /\ Len(a) = n /\ \A i \in 1 .. n : a[i] = f[i]
    OBVIOUS
  <1>2. b \in Seq(S) /\ Len(b) = k /\ \A i \in 1 .. k : b[i] = f[n + i]
    <2>1. \A i \in 1 .. k : n + i \in 1 .. n + k
      OBVIOUS
    <2>2. b \in [1 .. k -> S]
      BY <2>1
    <2>. QED
      BY <2>2
  <1>3. c \in Seq(S) /\ Len(c) = n + k /\ \A i \in 1 .. n + k : c[i] = f[i]
    OBVIOUS
  <1> HIDE DEF S, a, b, c
  <1>4. a \o b \in Seq(S) /\ Len(a \o b) = n + k
    BY <1>1, <1>2, Joined
  <1>5. ASSUME NEW i \in 1 .. n + k PROVE (a \o b)[i] = c[i]
    <2>1. CASE i <= n
      BY <1>1, <1>2, <1>3, <2>1, Joined
    <2>2. CASE ~(i <= n)
      <3>1. PICK j \in 1 .. k : i = n + j
        <4>1. i \in Int /\ n \in Int /\ k \in Int /\ n < i /\ i <= n + k
          BY <2>2
        <4>2. i - n \in 1 .. k /\ i = n + (i - n)
          BY <4>1
        <4>. QED
          BY <4>2
      <3>2. (a \o b)[n + j] = b[j]
        BY <1>1, <1>2, Joined
      <3>3. b[j] = f[n + j]
        BY <1>2
      <3>4. c[i] = f[i]
        BY <1>3
      <3>. QED
        BY <3>1, <3>2, <3>3, <3>4
    <2>. QED
      BY <2>1, <2>2
  <1>6. a \o b = c
    BY <1>3, <1>4, <1>5, SameElements
  <1>. QED
    BY <1>6 DEF a, b, c

(* The batch is made of the next rows, as many as there are and fit in.    *)
LEMMA NextBatch ==
    ASSUME ShapesInv, chunk_list = rows, NEW n \in 0 .. Len(rows), Len(draft) = n
    PROVE  \E k \in Nat : /\ n + k <= Len(rows)
                          /\ DOMAIN Batch = 1 .. k
                          /\ \A i \in 1 .. k : Batch[i] = rows[n + i]
  <1> DEFINE L == Len(rows)
             m == Min({n + BatchSize, L})
  <1>1. L \in Nat /\ BatchSize \in Nat \ {0}
    BY IndexingAssumption DEF ShapesInv
  <1>2. m \in n .. L
    BY <1>1, SmallerOfTwo
  <1>3. Batch = SubSeq(rows, n + 1, m)
    BY DEF Batch
  <1> HIDE DEF m
  <1>4. /\ DOMAIN SubSeq(rows, n + 1, m) = 1 .. m - n
        /\ \A i \in 1 .. m - n : SubSeq(rows, n + 1, m)[i] = rows[n + i]
    BY <1>1, <1>2 DEF ShapesInv
  <1>5. m - n \in Nat /\ n + (m - n) <= L
    BY <1>1, <1>2
  <1>. QED
    BY <1>3, <1>4, <1>5

(* The records of a batch follow those of the rows before it.              *)
LEMMA AddRecordsHandler == ASSUME ShapesInv, HandlerInv, AddRecords PROVE HandlerInv'
  <1>1. /\ step = "call" /\ call[Worker] = "returned"
        /\ draft' = draft \o [i \in DOMAIN Batch |-> Record(Batch[i], vectors[Worker][i])]
        /\ step' = "embed"
        /\ UNCHANGED <<chunk_list, rows, deployment>>
    BY DEF AddRecords, tables
  <1>2. /\ chunk_list = rows
        /\ rows # <<>>
        /\ vectors[Worker] = [i \in DOMAIN Batch |-> Encode(Model, Batch[i].chunk.text)]
    BY <1>1 DEF HandlerInv
  <1>3. PICK n \in 0 .. Len(rows) : draft = [i \in 1 .. n |-> RecordOf(rows[i])]
    BY <1>1 DEF HandlerInv
  <1>4. n \in Nat /\ Len(rows) \in Nat /\ DOMAIN rows = 1 .. Len(rows)
    BY DEF ShapesInv
  <1>f. PICK f : f = [i \in 1 .. Len(rows) |-> RecordOf(rows[i])]
    OBVIOUS
  <1>5. draft = [i \in 1 .. n |-> f[i]]
    BY <1>3, <1>4, <1>f
  <1>6. Len(draft) = n
    BY <1>4, <1>5
  <1>7. PICK k \in Nat : /\ n + k <= Len(rows)
                         /\ DOMAIN Batch = 1 .. k
                         /\ \A i \in 1 .. k : Batch[i] = rows[n + i]
    BY <1>2, <1>6, NextBatch
  <1>8. \A i \in 1 .. k : Record(Batch[i], vectors[Worker][i]) = f[n + i]
    <2> TAKE i \in 1 .. k
    <2>1. vectors[Worker][i] = Encode(Model, rows[n + i].chunk.text)
      BY <1>2, <1>7
    <2>2. n + i \in 1 .. Len(rows)
      BY <1>4, <1>7
    <2>. QED
      BY <1>7, <1>f, <2>1, <2>2 DEF RecordOf
  <1>9. draft' = [i \in 1 .. n |-> f[i]] \o [i \in 1 .. k |-> f[n + i]]
    BY <1>1, <1>5, <1>7, <1>8
  <1>10. draft' = [i \in 1 .. n + k |-> f[i]]
    BY <1>4, <1>9, Extended
  <1>11. n + k \in 0 .. Len(rows) /\ \A i \in 1 .. n + k : f[i] = RecordOf(rows[i])
    BY <1>4, <1>7, <1>f
  <1>12. draft' = [i \in 1 .. n + k |-> RecordOf(rows[i])]
    BY <1>10, <1>11
  <1>13. (draft = [i \in 1 .. n + k |-> RecordOf(rows[i])])'
    BY <1>1, <1>12 DEF RecordOf, Model
  <1>14. (n + k \in 0 .. Len(rows) /\ chunk_list = rows /\ rows # <<>>)'
    BY <1>1, <1>2, <1>11
  <1>. QED
    BY <1>1, <1>13, <1>14 DEF HandlerInv

(* Every step keeps what the handler has read and built.                   *)
LEMMA HandlerStepInv == LockInv /\ ShapesInv /\ HandlerInv /\ [Next]_vars => HandlerInv'
  <1> SUFFICES ASSUME LockInv, ShapesInv, HandlerInv, [Next]_vars PROVE HandlerInv'
    OBVIOUS
  <1> DEFINE Answered == call[Worker] = "returned"
  <1>0. Worker \in Callers /\ (\A s \in Searches : s # Worker) /\ call \in [Callers -> CallState]
    BY WorkerIsNoSearch DEF LockInv, Callers
  <1>1. ASSUME step' \notin {"embed", "call"} PROVE HandlerInv'
    BY <1>1 DEF HandlerInv
  <1>2. ASSUME UNCHANGED <<step, chunk_list, draft, rows, deployment>>,
               call'[Worker] = "returned" => Answered /\ vectors'[Worker] = vectors[Worker]
        PROVE  HandlerInv'
    <2>1. (step \in {"embed", "call"} =>
              /\ chunk_list = rows
              /\ rows # <<>>
              /\ \E n \in 0 .. Len(rows) : draft = [i \in 1 .. n |-> RecordOf(rows[i])])'
      BY <1>2 DEF HandlerInv, RecordOf, Model
    <2>2. Batch' = Batch /\ Model' = Model
      BY <1>2 DEF Batch, Model
    <2>3. (step = "call" /\ call[Worker] = "returned" =>
              vectors[Worker] = [i \in DOMAIN Batch |-> Encode(Model, Batch[i].chunk.text)])'
      BY <1>2, <2>2 DEF HandlerInv
    <2>. QED
      BY <2>1, <2>3 DEF HandlerInv
  <1>3. CASE Chunking
    <2>1. step = "chunk" /\ step' \in {"chunk", "idle", "raised"}
      BY <1>3 DEF Chunking, ChunkStep, RefuseCommand, StoreChunks
    <2>. QED
      BY <1>1, <2>1
  <1>4. CASE NormalizeAgain \/ SaveRecords \/ EmbeddingRaises \/ Redeploy
    <2>1. step' \in {"chunk", "idle", "raised"}
      BY <1>4 DEF NormalizeAgain, SaveRecords, EmbeddingRaises, Redeploy
    <2>. QED
      BY <1>1, <2>1
  <1>5. CASE BeginEmbedding
    <2>1. CASE rows = <<>>
      BY <1>1, <1>5, <2>1 DEF BeginEmbedding
    <2>2. CASE rows # <<>>
      <3>1. /\ step' = "embed" /\ chunk_list' = rows /\ draft' = <<>>
            /\ UNCHANGED <<rows, deployment>>
        BY <1>5, <2>2 DEF BeginEmbedding, tables, provider
      <3>2. Len(rows) \in Nat
        BY DEF ShapesInv
      <3>3. 0 \in 0 .. Len(rows) /\ draft' = [i \in 1 .. 0 |-> RecordOf(rows[i])]
        BY <3>1, <3>2
      <3>4. (0 \in 0 .. Len(rows) /\ draft = [i \in 1 .. 0 |-> RecordOf(rows[i])])'
        BY <3>1, <3>3
      <3>. QED
        BY <2>2, <3>1, <3>4 DEF HandlerInv
    <2>. QED
      BY <2>1, <2>2
  <1>6. CASE EmbedBatch
    <2>1. /\ step = "embed" /\ call'[Worker] = "waiting"
          /\ UNCHANGED <<chunk_list, draft, rows, deployment>>
      BY <1>0, <1>6 DEF EmbedBatch, Call, tables
    <2>. QED
      BY <2>1 DEF HandlerInv, RecordOf, Model
  <1>7. CASE WorkerEncodingEnds
    <2>1. /\ UNCHANGED <<step, chunk_list, draft, rows, deployment>>
          /\ vectors' = [vectors EXCEPT ![Worker] =
                 [i \in DOMAIN Batch |-> Encode(Model, Batch[i].chunk.text)]]
      BY <1>7, Zenon DEF WorkerEncodingEnds, EncodingEnds, handler, tables
    <2>2. vectors'[Worker] = [i \in DOMAIN Batch |-> Encode(Model, Batch[i].chunk.text)]
      BY <1>0, <2>1 DEF ShapesInv
    <2>3. (vectors[Worker] = [i \in DOMAIN Batch |-> Encode(Model, Batch[i].chunk.text)])'
      BY <2>1, <2>2 DEF Batch, Model
    <2>. QED
      BY <2>1, <2>3 DEF HandlerInv, RecordOf, Model
  <1>8. CASE AddRecords
    BY <1>8, AddRecordsHandler
  <1>9. ASSUME NEW s \in Searches, Ask(s) \/ QuestionEncoded(s) \/ Answer(s) PROVE HandlerInv'
    <2>1. s # Worker /\ UNCHANGED <<step, chunk_list, draft, rows, deployment>>
      BY <1>0, <1>9 DEF Ask, Call, QuestionEncoded, EncodingEnds, Answer, tables, handler
    <2>2. call'[Worker] = call[Worker] /\ vectors'[Worker] = vectors[Worker]
      BY <1>0, <1>9, <2>1 DEF Ask, Call, QuestionEncoded, EncodingEnds, Answer, ShapesInv
    <2>. QED
      BY <1>2, <2>1, <2>2
  <1>10. ASSUME NEW c \in Callers,
                StartEncoding(c) \/ EncodingFails(c) \/ Cancel(c) \/ AbandonedEnds(c)
         PROVE  HandlerInv'
    <2>1. UNCHANGED <<step, chunk_list, draft, rows, deployment, vectors>>
      BY <1>10 DEF StartEncoding, EncodingFails, Cancel, AbandonedEnds, tables, handler
    <2>2. call'[Worker] = "returned" => Answered
      BY <1>0, <1>10 DEF StartEncoding, EncodingFails, Cancel, AbandonedEnds
    <2>. QED
      BY <1>2, <2>1, <2>2
  <1>11. CASE UNCHANGED vars
    <2>1. UNCHANGED <<step, chunk_list, draft, rows, deployment, vectors, call>>
      BY <1>11 DEF vars, tables, handler, provider
    <2>. QED
      BY <1>2, <2>1
  <1>. QED
    BY <1>3, <1>4, <1>5, <1>6, <1>7, <1>8, <1>9, <1>10, <1>11 DEF Next, Embedding, Search

-----------------------------------------------------------------------------
(* The index.                                                              *)

(* Storing the chunks anew removes every record: each was filed under one  *)
(* of the rows that are replaced.                                          *)
LEMMA StoreChunksIndex == ASSUME IndexIsSound, StoreChunks PROVE IndexIsSound'
  <1>1. /\ records' = {r \in records : \A row \in ToSet(rows) : row.id # r.chunk_id}
        /\ matches' = matches
    BY DEF StoreChunks
  <1>2. records' = {}
    BY <1>1 DEF IndexIsSound, EmbeddingsMatchChunks
  <1>3. EmbeddingsMatchChunks'
    BY <1>2 DEF EmbeddingsMatchChunks
  <1>4. IndexIsWhole'
    BY <1>2 DEF IndexIsWhole
  <1>5. ComparesOneModel'
    BY <1>1 DEF IndexIsSound, ComparesOneModel
  <1>. QED
    BY <1>3, <1>4, <1>5 DEF IndexIsSound

(* What is saved is a record of every row, by a model that has none yet.   *)
LEMMA SaveRecordsIndex ==
    ASSUME ShapesInv, HandlerInv, IndexIsSound, SaveRecords PROVE IndexIsSound'
  <1>1. step = "embed" /\ Len(draft) = Len(chunk_list) /\ UNCHANGED <<rows, matches>>
    BY DEF SaveRecords
  <1>2. CASE UNCHANGED records
    BY <1>1, <1>2 DEF IndexIsSound, EmbeddingsMatchChunks, IndexIsWhole, ComparesOneModel
  <1>3. CASE ~UNCHANGED records
    <2>1. /\ ~ \E r \in ToSet(draft) : IsEmbedded(r)
          /\ records' = records \cup ToSet(draft)
      BY <1>3 DEF SaveRecords
    <2>2. Len(rows) \in Nat /\ DOMAIN rows = 1 .. Len(rows) /\ rows # <<>> /\ Len(rows) # 0
      BY <1>1 DEF ShapesInv, HandlerInv
    <2>3. draft = [i \in 1 .. Len(rows) |-> RecordOf(rows[i])]
      <3>1. chunk_list = rows
        BY <1>1 DEF HandlerInv
      <3>2. PICK n \in 0 .. Len(rows) : draft = [i \in 1 .. n |-> RecordOf(rows[i])]
        BY <1>1 DEF HandlerInv
      <3>3. n \in Nat
        BY <2>2
      <3>4. Len(draft) = n
        BY <3>2, <3>3
      <3>. QED
        BY <1>1, <3>1, <3>2, <3>4
    <2>4. ToSet(draft) = {RecordOf(row) : row \in ToSet(rows)}
      <3>1. DOMAIN draft = DOMAIN rows /\ \A i \in DOMAIN rows : draft[i] = RecordOf(rows[i])
        BY <2>2, <2>3
      <3>. QED
        BY <3>1 DEF ToSet
    <2>5. \A row : /\ RecordOf(row).chunk_id = row.id
                   /\ RecordOf(row).model = Model
                   /\ RecordOf(row).embedding = Encode(Model, row.chunk.text)
                   /\ RecordOf(row).content_checksum = row.chunk.text
      BY DEF RecordOf, Record, Encode
    <2>6. EmbeddingsMatchChunks'
      <3> SUFFICES ASSUME NEW r \in records'
                   PROVE  \E row \in ToSet(rows) :
                             /\ row.id = r.chunk_id
                             /\ r.embedding = Encode(r.model, row.chunk.text)
                             /\ r.content_checksum = row.chunk.text
        BY <1>1 DEF EmbeddingsMatchChunks
      <3>1. CASE r \in records
        BY <3>1 DEF IndexIsSound, EmbeddingsMatchChunks
      <3>2. CASE r \in ToSet(draft)
        BY <2>4, <2>5, <3>2
      <3>. QED
        BY <2>1, <3>1, <3>2
    <2>7. IndexIsWhole'
      <3> DEFINE EmbeddedBy(R, m) == {r.chunk_id : r \in {s \in R : s.model = m}}
                 All == {row.id : row \in ToSet(rows)}
      <3>1. \A m \in ToSet(Models) : EmbeddedBy(records, m) \in {{}, All}
        BY DEF IndexIsSound, IndexIsWhole
      <3>2. ASSUME NEW m \in ToSet(Models) PROVE EmbeddedBy(records', m) \in {{}, All}
        <4>1. CASE m # Model
          <5>1. {s \in records' : s.model = m} = {s \in records : s.model = m}
            BY <2>1, <2>4, <2>5, <4>1
          <5>. QED
            BY <3>1, <5>1
        <4>2. CASE m = Model
          <5>1. rows[1] \in ToSet(rows)
            BY <2>2 DEF ToSet
          <5>2. ~IsEmbedded(RecordOf(rows[1]))
            BY <2>1, <2>4, <5>1
          <5>3. \A s \in records : s.model = Model => s.chunk_id # rows[1].id
            BY <2>5, <5>2 DEF IsEmbedded
          <5>4. rows[1].id \in All /\ rows[1].id \notin EmbeddedBy(records, m)
            BY <4>2, <5>1, <5>3
          <5>5. EmbeddedBy(records, m) = {}
            BY <3>1, <5>4
          <5>6. \A s \in records : s.model # Model
            BY <4>2, <5>5
          <5>7. {s \in records' : s.model = m} = {RecordOf(row) : row \in ToSet(rows)}
            BY <2>1, <2>4, <2>5, <4>2, <5>6
          <5>8. {r.chunk_id : r \in {RecordOf(row) : row \in ToSet(rows)}} = All
            BY <2>5
          <5>. QED
            BY <5>7, <5>8
        <4>. QED
          BY <4>1, <4>2
      <3>. QED
        BY <1>1, <3>2 DEF IndexIsWhole
    <2>8. ComparesOneModel'
      BY <1>1 DEF IndexIsSound, ComparesOneModel
    <2>. QED
      BY <2>6, <2>7, <2>8 DEF IndexIsSound
  <1>. QED
    BY <1>2, <1>3

(* An answer is made of records of the model that encoded the question.    *)
LEMMA AnswerIndex ==
    ASSUME ShapesInv, IndexIsSound, NEW s \in Searches, Answer(s) PROVE IndexIsSound'
  <1>1. UNCHANGED <<records, rows>>
    BY DEF Answer, tables
  <1>2. EmbeddingsMatchChunks' /\ IndexIsWhole'
    BY <1>1 DEF IndexIsSound, EmbeddingsMatchChunks, IndexIsWhole
  <1>3. PICK found \in Similar(vectors[s][1][1]) :
           matches' = [matches EXCEPT ![s] = {[query |-> vectors[s][1], record |-> r] : r \in found}]
    BY DEF Answer
  <1>4. \A r \in found : r \in records /\ r.model = vectors[s][1][1]
    BY <1>3 DEF Similar
  <1>5. \A r \in records : r.embedding[1] = r.model
    BY DEF IndexIsSound, EmbeddingsMatchChunks, Encode
  <1>6. ComparesOneModel'
    <2> SUFFICES ASSUME NEW t \in Searches, NEW m \in matches'[t]
                 PROVE  m.query[1] = m.record.model /\ m.record.embedding[1] = m.query[1]
      BY DEF ComparesOneModel
    <2>1. CASE t = s
      <3>1. m \in {[query |-> vectors[s][1], record |-> r] : r \in found}
        BY <1>3, <2>1 DEF ShapesInv
      <3>2. PICK r \in found : m = [query |-> vectors[s][1], record |-> r]
        BY <3>1
      <3>. QED
        BY <1>4, <1>5, <3>2
    <2>2. CASE t # s
      <3>1. m \in matches[t]
        BY <1>3, <2>2 DEF ShapesInv
      <3>. QED
        BY <3>1 DEF IndexIsSound, ComparesOneModel
    <2>. QED
      BY <2>1, <2>2
  <1>. QED
    BY <1>2, <1>6 DEF IndexIsSound

(* Every step keeps the index sound.                                       *)
LEMMA IndexStepInv == ShapesInv /\ HandlerInv /\ IndexIsSound /\ [Next]_vars => IndexIsSound'
  <1> SUFFICES ASSUME ShapesInv, HandlerInv, IndexIsSound, [Next]_vars PROVE IndexIsSound'
    OBVIOUS
  <1>1. CASE StoreChunks
    BY <1>1, StoreChunksIndex
  <1>2. CASE SaveRecords
    BY <1>2, SaveRecordsIndex
  <1>3. ASSUME NEW s \in Searches, Answer(s) PROVE IndexIsSound'
    BY <1>3, AnswerIndex
  <1>4. CASE UNCHANGED <<records, rows, matches>>
    BY <1>4 DEF IndexIsSound, EmbeddingsMatchChunks, IndexIsWhole, ComparesOneModel
  <1>5. \/ UNCHANGED <<records, rows, matches>>
        \/ StoreChunks
        \/ SaveRecords
        \/ \E s \in Searches : Answer(s)
    BY DEF Next, Chunking, ChunkStep, RefuseCommand, NormalizeAgain, BeginEmbedding, Embedding,
           EmbedBatch, WorkerEncodingEnds, AddRecords, EmbeddingRaises, Ask, Search,
           QuestionEncoded, StartEncoding, EncodingFails, Cancel, AbandonedEnds, Redeploy, vars,
           tables
  <1>. QED
    BY <1>1, <1>2, <1>3, <1>4, <1>5

-----------------------------------------------------------------------------
(* The invariant and what follows from it.                                 *)

(* A trace that is normalized again is a trace: its events once more, under*)
(* other ids.                                                              *)
LEMMA TraceNormalizedAgain ==
    ASSUME NEW es, IsTrace(es), NEW shift \in Int
    PROVE  IsTrace(es \o [i \in DOMAIN es |-> [es[i] EXCEPT !.id = @ + shift]])
  <1> DEFINE n == Len(es)
             again == [i \in 1 .. n |-> [es[i] EXCEPT !.id = @ + shift]]
             all == es \o again
             S == ToSet(es) \cup {again[i] : i \in 1 .. n}
  <1>1. es \in Seq(ToSet(es)) /\ n \in Nat /\ DOMAIN es = 1 .. n
        /\ \A i \in 1 .. n : es[i] \in ToSet(es) /\ IsEvent(es[i])
    BY DEF IsTrace
  <1>2. ASSUME NEW i \in 1 .. n PROVE IsEvent(again[i])
    <2>1. IsEvent(es[i]) /\ again[i] = [es[i] EXCEPT !.id = es[i].id + shift]
      BY <1>1
    <2>2. PICK e : e = es[i]
      OBVIOUS
    <2>3. PICK k \in Int : k = e.id + shift
      BY <2>1, <2>2 DEF IsEvent
    <2>4. again[i] = [e EXCEPT !.id = k]
      BY <2>1, <2>2, <2>3
    <2> HIDE DEF again
    <2>5. /\ DOMAIN again[i] = DOMAIN e /\ again[i].seq = e.seq /\ again[i].time = e.time
          /\ again[i].id = k /\ again[i].parts = e.parts
      BY <2>1, <2>2, <2>4 DEF IsEvent
    <2>. QED
      BY <2>1, <2>2, <2>5 DEF IsEvent
  <1>3. es \in Seq(S) /\ again \in Seq(S) /\ Len(again) = n
    <2>1. ToSet(es) \subseteq S
      OBVIOUS
    <2>2. again \in [1 .. n -> S]
      OBVIOUS
    <2> HIDE DEF S, again
    <2>3. again \in Seq(S) /\ Len(again) = n
      BY <1>1, <2>2
    <2>4. es \in Seq(S)
      BY <1>1, <2>1
    <2>. QED
      BY <2>3, <2>4
  <1>4. \A e \in S : IsEvent(e)
    BY <1>2 DEF IsTrace
  <1>5. all = es \o [i \in DOMAIN es |-> [es[i] EXCEPT !.id = @ + shift]]
    BY <1>1
  <1> HIDE DEF n, again, S
  <1>6. all \in Seq(S)
    BY <1>3
  <1> HIDE DEF all
  <1>7. all \in Seq(ToSet(all)) /\ ToSet(all) \subseteq S
    BY <1>6 DEF ToSet
  <1>8. IsTrace(all)
    BY <1>4, <1>7 DEF IsTrace
  <1>. QED
    BY <1>5, <1>8

(* The chunker's invariant: it is called again for the longer trace, and   *)
(* nothing else touches it.                                                *)
LEMMA ChunkerStepInv == ChunkInv /\ [Next]_vars => ChunkInv'
  <1> SUFFICES ASSUME ChunkInv, [Next]_vars PROVE ChunkInv'
    OBVIOUS
  <1>1. ASSUME NormalizeAgain PROVE ChunkInv'
    <2>1. /\ pc' = "called" /\ ordered' = <<>> /\ seen' = 0 /\ current' = <<>> /\ chunks' = <<>>
          /\ \E shift \in {-Len(input), Len(input)} :
                input' = input \o [i \in DOMAIN input |-> [input[i] EXCEPT !.id = @ + shift]]
      BY <1>1 DEF NormalizeAgain
    <2>2. IsTrace(input) /\ Len(input) \in Int
      BY DEF ChunkInv, OrderInv, IsTrace
    <2> DEFINE again(shift) ==
                 input \o [i \in DOMAIN input |-> [input[i] EXCEPT !.id = @ + shift]]
    <2>3. PICK shift \in {-Len(input), Len(input)} : input' = again(shift)
      BY <2>1
    <2>4. IsTrace(input')
      <3>1. shift \in Int
        BY <2>2
      <3>2. IsTrace(again(shift))
        BY <2>2, <3>1, TraceNormalizedAgain
      <3> HIDE DEF again
      <3>. QED
        BY <2>3, <3>2
    <2>5. OrderInv'
      BY <2>1, <2>4, NoEvents DEF OrderInv
    <2>6. LoopInv'
      BY <2>1, NoEvents DEF LoopInv
    <2>7. ListInv'
      BY <2>1, NoEvents DEF ListInv
    <2>. QED
      BY <2>5, <2>6, <2>7 DEF ChunkInv
  <1>2. NormalizeAgain \/ [ChunkNext]_chunkVars
    <2>1. ASSUME NEW s \in Searches, Ask(s) \/ Search(s) PROVE UNCHANGED chunkVars
      BY <2>1 DEF Ask, Search, QuestionEncoded, Answer
    <2>2. ASSUME NEW c \in Callers,
                 StartEncoding(c) \/ EncodingFails(c) \/ Cancel(c) \/ AbandonedEnds(c)
          PROVE  UNCHANGED chunkVars
      BY <2>2 DEF StartEncoding, EncodingFails, Cancel, AbandonedEnds
    <2>3. CASE Chunking
      BY <2>3 DEF Chunking, ChunkStep, RefuseCommand, StoreChunks
    <2>4. CASE BeginEmbedding \/ Embedding \/ Redeploy
      BY <2>4 DEF BeginEmbedding, Embedding, EmbedBatch, WorkerEncodingEnds, AddRecords,
                  SaveRecords, EmbeddingRaises, Redeploy
    <2>5. CASE UNCHANGED vars
      BY <2>5 DEF vars
    <2>. QED
      BY <2>1, <2>2, <2>3, <2>4, <2>5 DEF Next
  <1>. QED
    BY <1>1, <1>2, ChunkStepInv

LEMMA IndexingInitInv == Init => IndexingInv
  <1> SUFFICES ASSUME Init PROVE IndexingInv
    OBVIOUS
  <1>5. ChunkInv
    BY ChunkInitInv DEF Init
  <1> USE DEF Init, ChunkInit
  <1>1. LockInv
    <2>1. Abandoned = {}
      BY DEF Abandoned
    <2>2. IsFiniteSet({}) /\ Cardinality({}) = 0
      BY FS_EmptySet
    <2>3. call \in [Callers -> CallState] /\ call[Worker] = "none"
      BY DEF CallState, Callers
    <2>4. lock \in Seq(Callers) /\ Len(lock) = 0
      OBVIOUS
    <2>. QED
      BY <2>1, <2>2, <2>3, <2>4 DEF LockInv
  <1>2. ShapesInv
    BY DEF ShapesInv
  <1>3. HandlerInv
    BY DEF HandlerInv
  <1>4. IndexIsSound
    BY DEF IndexIsSound, EmbeddingsMatchChunks, IndexIsWhole, ComparesOneModel
  <1>. QED
    BY <1>1, <1>2, <1>3, <1>4, <1>5 DEF IndexingInv

(* Whatever fails, is cancelled or is deployed: the invariant holds.       *)
THEOREM IndexingInvariant == Spec => []IndexingInv
  <1>1. IndexingInv /\ [Next]_vars => IndexingInv'
    BY ChunkerStepInv, LockStepInv, ShapesStepInv, HandlerStepInv, IndexStepInv DEF IndexingInv
  <1>. QED
    BY <1>1, IndexingInitInv, PTL DEF Spec

(* At most one encode() is awaited, the others were left by cancelled      *)
(* calls, and the lock's queue is made of the callers in a call.           *)
LEMMA LockServesOne == LockInv => OneAwaitedEncoding
  <1> SUFFICES ASSUME LockInv PROVE OneAwaitedEncoding
    OBVIOUS
  <1> DEFINE awaited == {c \in threads : call[c] = "encoding"}
  <1>1. awaited \subseteq {lock[1]}
    BY EncoderIsFirst DEF LockInv
  <1>2. IsFiniteSet(awaited) /\ Cardinality(awaited) \in Nat /\ Cardinality(awaited) <= 1
    <2>1. IsFiniteSet({lock[1]}) /\ Cardinality({lock[1]}) = 1
      BY FS_Singleton
    <2>. QED
      BY <1>1, <2>1, FS_Subset, FS_CardinalityType
  <1>3. Cardinality(threads) <= 1 + cancels
    <2>1. threads = awaited \cup Abandoned /\ awaited \cap Abandoned = {}
      BY DEF Abandoned
    <2>2. Cardinality(awaited \cup Abandoned) =
              Cardinality(awaited) + Cardinality(Abandoned) - Cardinality(awaited \cap Abandoned)
      BY <1>2, AbandonedAreFinite, FS_Union
    <2>3. Cardinality(awaited \cap Abandoned) = 0
      BY <2>1, FS_EmptySet
    <2>4. Cardinality(Abandoned) \in Nat /\ Cardinality(Abandoned) <= cancels /\ cancels \in Nat
      BY AbandonedAreFinite DEF LockInv
    <2> HIDE DEF awaited
    <2>. QED
      BY <1>2, <2>1, <2>2, <2>3, <2>4
  <1>4. ToSet(lock) = {c \in Callers : call[c] \in {"waiting", "encoding"}}
    <2>1. DOMAIN lock = 1 .. Len(lock) /\ \A i \in 1 .. Len(lock) : lock[i] \in Callers
      BY DEF LockInv
    <2>. QED
      BY <2>1 DEF LockInv, ToSet
  <1>. QED
    BY <1>2, <1>3, <1>4 DEF OneAwaitedEncoding

(* The provider's lock serializes the encode() calls that are awaited, for *)
(* any number of searches and however many calls are cancelled: the        *)
(* threads beyond the one are no more than the cancelled calls.            *)
THEOREM EncodingIsAlwaysSerialized == Spec => []OneAwaitedEncoding
  <1>1. IndexingInv => OneAwaitedEncoding
    BY LockServesOne DEF IndexingInv
  <1>. QED
    BY <1>1, IndexingInvariant, PTL

(* For any trace, batch size and sequence of models: an embedding is       *)
(* always the vector of the chunk it is filed under, the index of a model  *)
(* covers all chunks or none, and a search compares vectors of one model.  *)
THEOREM IndexIsAlwaysSound == Spec => []IndexIsSound
  <1>1. IndexingInv => IndexIsSound
    BY DEF IndexingInv
  <1>. QED
    BY <1>1, IndexingInvariant, PTL

(* The chunks of a trace are sound however often it is normalized again    *)
(* and whatever the searches and the embedding handler do meanwhile.       *)
THEOREM IndexedChunksAreSound == Spec => []ChunksAreSound
  <1>1. IndexingInv => ChunksAreSound
    BY CutsAreSound DEF IndexingInv
  <1>. QED
    BY <1>1, IndexingInvariant, PTL
=============================================================================
