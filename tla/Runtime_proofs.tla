--------------------------- MODULE Runtime_proofs ---------------------------
(***************************************************************************)
(* Proofs about EventRuntime and ApplicationRuntime, each by itself: for   *)
(* any number of events, follow-ups and tasks, and for any set of workers  *)
(* and any number of restarts.                                             *)
(*                                                                         *)
(* EventRuntime: the order of the queue is inductive together with its     *)
(* type.  For stop() one has to know where its marker is: as long as no    *)
(* earlier loop left a marker behind, the queue holds at most one, only    *)
(* while a stop() waits for a live task, and everything accepted before    *)
(* that call is ahead.                                                     *)
(*                                                                         *)
(* ApplicationRuntime: a request to stop that a worker sees is one of this *)
(* run.                                                                    *)
(***************************************************************************)
EXTENDS EventRuntime, ApplicationRuntime, TLAPS

Markers == {i \in 1 .. Len(queue) : queue[i] = STOP}

(* Without a stray marker there is at most one marker in the queue, and a  *)
(* waiting stop() on a live task that put it there.                        *)
OneMarker ==
    ~strayed =>
        /\ \A i \in Markers : awaiting /\ IsRunning
        /\ \A i, j \in Markers : i = j
        /\ task = "exited" => awaiting

(* The events accepted before stop() was called are ahead of its marker    *)
(* and have all been taken when the loop has reached it.                   *)
MarkerAfterEvents ==
    ~strayed /\ awaiting =>
        /\ \A i \in Markers, j \in 1 .. Len(queue) :
              IsEvent(queue[j]) /\ queue[j] <= stopMark => j < i
        /\ task = "exited" => taken >= stopMark

(* The inductive invariant.                                                *)
RuntimeInv ==
    /\ RuntimeTypeOK
    /\ awaiting => task # "none"
    /\ draining => ~IsRunning /\ ~awaiting
    /\ stopMark <= accepted
    /\ QueueKeepsOrder
    /\ OneMarker
    /\ MarkerAfterEvents

-----------------------------------------------------------------------------
(* The queue.                                                              *)

(* get(): the rest of the queue is the queue moved by one position.        *)
LEMMA TailOfQueue ==
    ASSUME NEW q \in Seq(Item), q # <<>>
    PROVE  /\ Tail(q) \in Seq(Item)
           /\ Len(q) \in Nat \ {0}
           /\ Len(Tail(q)) = Len(q) - 1
           /\ \A i \in 1 .. Len(Tail(q)) : Tail(q)[i] = q[i + 1]
           /\ Head(q) = q[1]
           /\ Head(q) \in Item
  OBVIOUS

(* put(): the items keep their positions, the new one is the last.         *)
LEMMA PutOnQueue ==
    ASSUME NEW q \in Seq(Item), NEW e \in Item
    PROVE  /\ Append(q, e) \in Seq(Item)
           /\ Len(Append(q, e)) = Len(q) + 1
           /\ \A i \in 1 .. Len(q) : Append(q, e)[i] = q[i]
           /\ Append(q, e)[Len(q) + 1] = e
  OBVIOUS

(* _enqueue_all: n events are put one after another.                       *)
LEMMA PutAllOnQueue ==
    ASSUME NEW q \in Seq(Item), NEW n \in Nat, NEW a \in Nat, a + n <= MaxEvents
    PROVE  LET r == q \o [i \in 1 .. n |-> a + i]
           IN  /\ r \in Seq(Item)
               /\ Len(r) = Len(q) + n
               /\ \A i \in 1 .. Len(q) : r[i] = q[i]
               /\ \A i \in 1 .. n : r[Len(q) + i] = a + i
  <1> DEFINE s == [i \in 1 .. n |-> a + i]
  <1>1. \A i \in 1 .. n : a + i \in Item
    BY RuntimeAssumption DEF Item, Event
  <1>2. s \in Seq(Item) /\ Len(s) = n
    BY <1>1
  <1>3. \A i \in 1 .. n : s[i] = a + i
    OBVIOUS
  <1> HIDE DEF s
  <1>4. /\ q \o s \in Seq(Item)
        /\ Len(q \o s) = Len(q) + n
        /\ \A i \in 1 .. Len(q) : (q \o s)[i] = q[i]
        /\ \A i \in 1 .. n : (q \o s)[Len(q) + i] = s[i]
    BY <1>2
  <1>. QED
    BY <1>3, <1>4 DEF s

-----------------------------------------------------------------------------
(* The runtime starts idle, with an empty queue.                           *)
LEMMA InitRuntime == RuntimeInit => RuntimeInv
  <1> SUFFICES ASSUME RuntimeInit PROVE RuntimeInv
    OBVIOUS
  <1>1. RuntimeTypeOK
    <2>1. <<>> \in Seq(Item)
      OBVIOUS
    <2>2. 0 \in 0 .. MaxEvents /\ 0 \in 0 .. MaxStarts /\ 0 \in 0 .. 0
      BY RuntimeAssumption
    <2>. QED
      BY <2>1, <2>2 DEF RuntimeInit, RuntimeTypeOK
  <1>2. Markers = {}
    BY DEF RuntimeInit, Markers
  <1>3. QueueKeepsOrder
    BY DEF RuntimeInit, QueueKeepsOrder
  <1>. QED
    BY <1>1, <1>2, <1>3 DEF RuntimeInit, RuntimeInv, IsRunning, OneMarker, MarkerAfterEvents

(* The first event that is not yet taken is at the head, when the head is  *)
(* an event.                                                               *)
LEMMA HeadIsNext ==
    ASSUME RuntimeInv, queue # <<>>, Head(queue) # STOP
    PROVE  Head(queue) = taken + 1 /\ taken + 1 <= accepted
  <1>1. /\ Len(queue) \in Nat \ {0}
        /\ Head(queue) = queue[1]
        /\ taken \in Int /\ accepted \in Int
    BY TailOfQueue, RuntimeAssumption DEF RuntimeInv, RuntimeTypeOK
  <1>2. queue[1] \in taken + 1 .. accepted
    BY <1>1 DEF RuntimeInv, QueueKeepsOrder, IsEvent
  <1>3. ASSUME queue[1] # taken + 1
        PROVE  FALSE
    <2>1. PICK i \in 1 .. Len(queue) : queue[i] = taken + 1
      BY <1>1, <1>2 DEF RuntimeInv, QueueKeepsOrder
    <2>2. 1 < i /\ IsEvent(queue[i]) /\ IsEvent(queue[1])
      BY <1>1, <1>2, <1>3, <2>1, RuntimeAssumption
      DEF IsEvent, STOP, RuntimeInv, RuntimeTypeOK
    <2>3. queue[1] < queue[i]
      BY <1>1, <2>2 DEF RuntimeInv, QueueKeepsOrder
    <2>. QED
      BY <1>1, <1>2, <2>1, <2>3
  <1>. QED
    BY <1>1, <1>2, <1>3

-----------------------------------------------------------------------------
(* One lemma per kind of step.                                             *)

(* Putting the next events at the end, with the marker where it was.       *)
LEMMA EnqueueKeepsOrder ==
    ASSUME RuntimeInv, NEW n \in Nat, accepted + n <= MaxEvents,
           queue' = queue \o [i \in 1 .. n |-> accepted + i],
           accepted' = accepted + n,
           taken' = taken
    PROVE  /\ queue' \in Seq(Item)
           /\ QueueKeepsOrder'
           /\ Markers' = Markers
           /\ \A j \in 1 .. Len(queue') :
                 queue'[j] <= accepted => j \in 1 .. Len(queue) /\ queue'[j] = queue[j]
  <1>1. /\ queue \in Seq(Item) /\ accepted \in Nat /\ taken \in Nat /\ taken <= accepted
        /\ Len(queue) \in Nat
    BY RuntimeAssumption DEF RuntimeInv, RuntimeTypeOK
  <1>2. /\ queue' \in Seq(Item)
        /\ Len(queue') = Len(queue) + n
        /\ \A i \in 1 .. Len(queue) : queue'[i] = queue[i]
        /\ \A i \in 1 .. n : queue'[Len(queue) + i] = accepted + i
    <2> DEFINE r == queue \o [i \in 1 .. n |-> accepted + i]
    <2>1. /\ r \in Seq(Item)
          /\ Len(r) = Len(queue) + n
          /\ \A i \in 1 .. Len(queue) : r[i] = queue[i]
          /\ \A i \in 1 .. n : r[Len(queue) + i] = accepted + i
      <3>1. queue \in Seq(Item) /\ n \in Nat /\ accepted \in Nat /\ accepted + n <= MaxEvents
        BY <1>1
      <3>. HIDE DEF r
      <3>. QED
        BY <3>1, PutAllOnQueue, Zenon DEF r
    <2>2. queue' = r
      OBVIOUS
    <2>. HIDE DEF r
    <2>. QED
      BY <2>1, <2>2
  <1>3. \A j \in 1 .. Len(queue') :
           \/ j \in 1 .. Len(queue) /\ queue'[j] = queue[j]
           \/ /\ j \notin 1 .. Len(queue)
              /\ j - Len(queue) \in 1 .. n
              /\ queue'[j] = accepted + (j - Len(queue))
    <2> SUFFICES ASSUME NEW j \in 1 .. Len(queue'), j \notin 1 .. Len(queue)
                 PROVE  /\ j - Len(queue) \in 1 .. n
                        /\ queue'[j] = accepted + (j - Len(queue))
      BY <1>2
    <2>1. j - Len(queue) \in 1 .. n /\ Len(queue) + (j - Len(queue)) = j
      BY <1>1, <1>2
    <2>. QED
      BY <1>2, <2>1
  <1>4. Markers' = Markers
    BY <1>1, <1>2, <1>3 DEF Markers, STOP
  <1>5. QueueKeepsOrder'
    <2>1. ASSUME NEW i \in 1 .. Len(queue'), queue'[i] # STOP
          PROVE  queue'[i] \in taken' + 1 .. accepted'
      BY <1>1, <1>3, <2>1 DEF RuntimeInv, QueueKeepsOrder, IsEvent
    <2>2. ASSUME NEW e \in taken' + 1 .. accepted'
          PROVE  \E i \in 1 .. Len(queue') : queue'[i] = e
      <3>1. CASE e <= accepted
        <4>1. PICK i \in 1 .. Len(queue) : queue[i] = e
          BY <1>1, <3>1 DEF RuntimeInv, QueueKeepsOrder
        <4>. QED
          BY <1>1, <1>2, <4>1
      <3>2. CASE e > accepted
        <4>1. e - accepted \in 1 .. n /\ accepted + (e - accepted) = e
          BY <1>1, <3>2
        <4>2. Len(queue) + (e - accepted) \in 1 .. Len(queue')
          BY <1>1, <1>2, <4>1
        <4>. QED
          BY <1>2, <4>1, <4>2
      <3>3. e <= accepted \/ e > accepted
        BY <1>1
      <3>. QED
        BY <3>1, <3>2, <3>3
    <2>3. ASSUME NEW i \in 1 .. Len(queue'), NEW j \in 1 .. Len(queue'),
                 i < j, queue'[i] # STOP, queue'[j] # STOP
          PROVE  queue'[i] < queue'[j]
      <3>1. CASE j \in 1 .. Len(queue)
        <4>1. i \in 1 .. Len(queue)
          BY <1>1, <2>3, <3>1
        <4>. QED
          BY <1>2, <2>3, <3>1, <4>1 DEF RuntimeInv, QueueKeepsOrder, IsEvent
      <3>2. CASE j \notin 1 .. Len(queue) /\ i \in 1 .. Len(queue)
        <4>1. queue'[i] <= accepted
          BY <1>1, <1>2, <2>3, <3>2 DEF RuntimeInv, QueueKeepsOrder, IsEvent
        <4>2. queue'[i] \in Int
          BY <1>1, <1>2, <2>3, <3>2 DEF RuntimeInv, QueueKeepsOrder, IsEvent
        <4>. QED
          BY <1>1, <1>3, <3>2, <4>1, <4>2
      <3>3. CASE j \notin 1 .. Len(queue) /\ i \notin 1 .. Len(queue)
        BY <1>1, <1>3, <2>3, <3>3
      <3>. QED
        BY <3>1, <3>2, <3>3
    <2>. QED
      BY <2>1, <2>2, <2>3 DEF QueueKeepsOrder, IsEvent
  <1>6. ASSUME NEW j \in 1 .. Len(queue'), queue'[j] <= accepted
        PROVE  j \in 1 .. Len(queue) /\ queue'[j] = queue[j]
    BY <1>1, <1>3, <1>6
  <1>. QED
    BY <1>2, <1>4, <1>5, <1>6

(* Leaving the queue and its counters alone.                               *)
LEMMA SameQueue ==
    ASSUME RuntimeInv, UNCHANGED <<queue, accepted, taken>>
    PROVE  QueueKeepsOrder' /\ Markers' = Markers
  BY DEF RuntimeInv, QueueKeepsOrder, Markers

(* stop() puts its marker at the end.                                      *)
LEMMA StopRequestStep == RuntimeInv /\ StopRequest => RuntimeInv'
  <1> SUFFICES ASSUME RuntimeInv, StopRequest PROVE RuntimeInv'
    OBVIOUS
  <1>1. /\ queue \in Seq(Item) /\ Len(queue) \in Nat
        /\ accepted \in Nat /\ taken \in Nat /\ taken <= accepted
        /\ accepted \in 0 .. MaxEvents
    BY RuntimeAssumption DEF RuntimeInv, RuntimeTypeOK
  <1>2. /\ queue' \in Seq(Item)
        /\ Len(queue') = Len(queue) + 1
        /\ \A i \in 1 .. Len(queue) : queue'[i] = queue[i]
        /\ queue'[Len(queue) + 1] = STOP
    BY <1>1, PutOnQueue DEF StopRequest, Item
  <1>3. \A j \in 1 .. Len(queue') : j \in 1 .. Len(queue) \/ j = Len(queue) + 1
    BY <1>1, <1>2
  <1>4. RuntimeTypeOK'
    BY <1>1, <1>2 DEF RuntimeInv, RuntimeTypeOK, StopRequest
  <1>5. QueueKeepsOrder'
    <2>1. ASSUME NEW i \in 1 .. Len(queue'), queue'[i] # STOP
          PROVE  queue'[i] \in taken' + 1 .. accepted'
      BY <1>2, <1>3, <2>1 DEF RuntimeInv, QueueKeepsOrder, IsEvent, StopRequest
    <2>2. ASSUME NEW e \in taken' + 1 .. accepted'
          PROVE  \E i \in 1 .. Len(queue') : queue'[i] = e
      <3>1. PICK i \in 1 .. Len(queue) : queue[i] = e
        BY DEF RuntimeInv, QueueKeepsOrder, StopRequest
      <3>. QED
        BY <1>1, <1>2, <3>1
    <2>3. ASSUME NEW i \in 1 .. Len(queue'), NEW j \in 1 .. Len(queue'),
                 i < j, queue'[i] # STOP, queue'[j] # STOP
          PROVE  queue'[i] < queue'[j]
      BY <1>2, <1>3, <2>3 DEF RuntimeInv, QueueKeepsOrder, IsEvent
    <2>. QED
      BY <2>1, <2>2, <2>3 DEF QueueKeepsOrder, IsEvent
  <1>6. ASSUME ~strayed' PROVE Markers' = {Len(queue) + 1}
    <2>1. Markers = {}
      BY <1>6 DEF RuntimeInv, OneMarker, StopRequest
    <2>. QED
      BY <1>1, <1>2, <1>3, <2>1 DEF Markers
  <1>7. OneMarker'
    BY <1>6 DEF OneMarker, StopRequest, IsRunning
  <1>8. MarkerAfterEvents'
    <2> SUFFICES ASSUME ~strayed'
                 PROVE  \A i \in Markers', j \in 1 .. Len(queue') :
                           queue'[j] # STOP => j < i
      BY DEF MarkerAfterEvents, StopRequest, IsRunning, IsEvent
    <2>. QED
      BY <1>1, <1>2, <1>3, <1>6
  <1>. QED
    BY <1>1, <1>4, <1>5, <1>7, <1>8 DEF RuntimeInv, StopRequest, IsRunning

(* Taking the item at the head, event or marker: the rest keeps its order. *)
LEMMA TakeKeepsOrder ==
    ASSUME RuntimeInv, queue # <<>>, queue' = Tail(queue), accepted' = accepted,
           taken' = IF Head(queue) = STOP THEN taken ELSE taken + 1
    PROVE  /\ queue' \in Seq(Item)
           /\ Len(queue) \in Nat /\ Len(queue') = Len(queue) - 1
           /\ \A i \in 1 .. Len(queue') :
                 i + 1 \in 1 .. Len(queue) /\ queue'[i] = queue[i + 1]
           /\ taken' \in 0 .. accepted
           /\ QueueKeepsOrder'
  <1>1. /\ queue \in Seq(Item)
        /\ accepted \in Nat /\ taken \in Nat /\ taken <= accepted
    BY RuntimeAssumption DEF RuntimeInv, RuntimeTypeOK
  <1>2. /\ queue' \in Seq(Item)
        /\ Len(queue) \in Nat \ {0} /\ Len(queue') = Len(queue) - 1
        /\ \A i \in 1 .. Len(queue') : queue'[i] = queue[i + 1]
        /\ Head(queue) = queue[1]
    BY <1>1, TailOfQueue
  <1>3. \A i \in 1 .. Len(queue') : i + 1 \in 1 .. Len(queue)
    BY <1>2
  <1>4. Head(queue) # STOP => Head(queue) = taken + 1 /\ taken + 1 <= accepted
    BY HeadIsNext
  <1>5. taken' \in 0 .. accepted
    BY <1>1, <1>4
  <1>6. ASSUME NEW i \in 1 .. Len(queue'), queue'[i] # STOP
        PROVE  queue'[i] \in taken' + 1 .. accepted'
    <2>1. queue[i + 1] \in taken + 1 .. accepted
      BY <1>2, <1>3, <1>6 DEF RuntimeInv, QueueKeepsOrder, IsEvent
    <2>2. CASE Head(queue) = STOP
      BY <1>2, <2>1, <2>2
    <2>3. CASE Head(queue) # STOP
      <3>1. queue[1] = taken + 1
        BY <1>2, <1>4, <2>3
      <3>2. 1 \in 1 .. Len(queue) /\ i + 1 \in 1 .. Len(queue) /\ 1 < i + 1
        BY <1>2, <1>3
      <3>3. queue[1] < queue[i + 1]
        BY <1>2, <1>6, <2>3, <3>2 DEF RuntimeInv, QueueKeepsOrder, IsEvent
      <3>. QED
        BY <1>1, <1>2, <2>1, <2>3, <3>1, <3>3
    <2>. QED
      BY <2>2, <2>3
  <1>7. ASSUME NEW e \in taken' + 1 .. accepted'
        PROVE  \E i \in 1 .. Len(queue') : queue'[i] = e
    <2>1. e \in Int /\ e # STOP /\ e \in taken + 1 .. accepted
      BY <1>1, <1>5 DEF STOP
    <2>2. PICK i \in 1 .. Len(queue) : queue[i] = e
      BY <2>1 DEF RuntimeInv, QueueKeepsOrder
    <2>3. i # 1
      BY <1>1, <1>2, <1>4, <2>1, <2>2
    <2>4. i - 1 \in 1 .. Len(queue') /\ (i - 1) + 1 = i
      BY <1>2, <2>3
    <2>. QED
      BY <1>2, <2>2, <2>4
  <1>8. ASSUME NEW i \in 1 .. Len(queue'), NEW j \in 1 .. Len(queue'),
               i < j, queue'[i] # STOP, queue'[j] # STOP
        PROVE  queue'[i] < queue'[j]
    <2>1. i + 1 < j + 1
      BY <1>8
    <2>. QED
      BY <1>2, <1>3, <1>8, <2>1 DEF RuntimeInv, QueueKeepsOrder, IsEvent
  <1>9. QueueKeepsOrder'
    BY <1>6, <1>7, <1>8 DEF QueueKeepsOrder, IsEvent
  <1>. QED
    BY <1>2, <1>3, <1>5, <1>9

(* Follow-up events and published events come after the marker that is     *)
(* already queued: they are numbered beyond its stopMark.                  *)
LEMMA EnqueuedAfterMarker ==
    ASSUME RuntimeInv, Markers' = Markers, stopMark' = stopMark,
           \A j \in 1 .. Len(queue') :
              queue'[j] <= accepted => j \in 1 .. Len(queue) /\ queue'[j] = queue[j],
           queue' \in Seq(Item),
           ~strayed, awaiting,
           NEW i \in Markers', NEW j \in 1 .. Len(queue'),
           queue'[j] # STOP, queue'[j] <= stopMark'
    PROVE  j < i
  <1>1. queue'[j] \in Int /\ stopMark \in Int /\ accepted \in Int /\ stopMark <= accepted
    BY RuntimeAssumption DEF RuntimeInv, RuntimeTypeOK, Item, Event, STOP
  <1>2. j \in 1 .. Len(queue) /\ queue'[j] = queue[j]
    BY <1>1
  <1>. QED
    BY <1>2 DEF RuntimeInv, MarkerAfterEvents, IsEvent

(* publish(): the new event goes to the end of the queue.                  *)
LEMMA PublishStep == RuntimeInv /\ Publish => RuntimeInv'
  <1> SUFFICES ASSUME RuntimeInv, Publish PROVE RuntimeInv'
    OBVIOUS
  <1>1. /\ queue \in Seq(Item) /\ Len(queue) \in Nat
        /\ accepted \in Nat /\ accepted + 1 <= MaxEvents
        /\ accepted \in Nat /\ stopMark \in Nat /\ stopMark <= accepted
        /\ \A i \in 1 .. Len(queue) : queue[i] \in Int
    BY RuntimeAssumption DEF RuntimeInv, RuntimeTypeOK, Publish, Item, Event, STOP
  <1>2. queue' = queue \o [i \in 1 .. 1 |-> accepted + i]
    <2> DEFINE one == [i \in 1 .. 1 |-> accepted + i]
    <2>1. one = <<accepted + 1>>
      OBVIOUS
    <2>2. Append(queue, accepted + 1) = queue \o <<accepted + 1>>
      BY <1>1
    <2>. QED
      BY <2>1, <2>2 DEF Publish
  <1>3. /\ queue' \in Seq(Item)
        /\ QueueKeepsOrder'
        /\ Markers' = Markers
        /\ \A j \in 1 .. Len(queue') :
              queue'[j] <= accepted => j \in 1 .. Len(queue) /\ queue'[j] = queue[j]
    BY <1>1, <1>2, EnqueueKeepsOrder DEF Publish
  <1>4. RuntimeTypeOK'
    BY <1>1, <1>3 DEF RuntimeInv, RuntimeTypeOK, Publish
  <1>5. MarkerAfterEvents'
    <2> SUFFICES ASSUME ~strayed', awaiting'
                 PROVE  /\ \A i \in Markers', j \in 1 .. Len(queue') :
                              queue'[j] # STOP /\ queue'[j] <= stopMark' => j < i
                        /\ task' = "exited" => taken' >= stopMark'
      BY DEF MarkerAfterEvents, IsEvent
    <2>1. task' = "exited" => taken' >= stopMark'
      BY DEF RuntimeInv, MarkerAfterEvents, Publish
    <2>2. \A i \in Markers', j \in 1 .. Len(queue') :
             queue'[j] # STOP /\ queue'[j] <= stopMark' => j < i
      BY <1>3, EnqueuedAfterMarker DEF Publish
    <2>. QED
      BY <2>1, <2>2
  <1>. QED
    BY <1>1, <1>3, <1>4, <1>5 DEF RuntimeInv, OneMarker, Publish, IsRunning

(* A handler returned: its follow-ups go to the end of the queue.          *)
LEMMA DispatchCompletesStep ==
    ASSUME RuntimeInv, NEW n \in 0 .. MaxFollowUps, DispatchCompletes(n)
    PROVE  RuntimeInv'
  <1>1. /\ queue \in Seq(Item) /\ Len(queue) \in Nat
        /\ accepted \in Nat /\ accepted + n <= MaxEvents /\ n \in Nat
        /\ taken \in Nat /\ taken <= accepted
        /\ stopMark \in Nat /\ stopMark <= accepted
    BY RuntimeAssumption DEF RuntimeInv, RuntimeTypeOK, DispatchCompletes
  <1>3. /\ queue' \in Seq(Item)
        /\ QueueKeepsOrder'
        /\ Markers' = Markers
        /\ \A j \in 1 .. Len(queue') :
              queue'[j] <= accepted => j \in 1 .. Len(queue) /\ queue'[j] = queue[j]
    BY <1>1, EnqueueKeepsOrder DEF DispatchCompletes
  <1>4. RuntimeTypeOK'
    BY <1>1, <1>3 DEF RuntimeInv, RuntimeTypeOK, DispatchCompletes
  <1>5. MarkerAfterEvents'
    <2> SUFFICES ASSUME ~strayed', awaiting'
                 PROVE  /\ \A i \in Markers', j \in 1 .. Len(queue') :
                              queue'[j] # STOP /\ queue'[j] <= stopMark' => j < i
                        /\ task' = "exited" => taken' >= stopMark'
      BY DEF MarkerAfterEvents, IsEvent
    <2>1. task' = "exited" => taken' >= stopMark'
      BY DEF RuntimeInv, MarkerAfterEvents, DispatchCompletes
    <2>2. \A i \in Markers', j \in 1 .. Len(queue') :
             queue'[j] # STOP /\ queue'[j] <= stopMark' => j < i
      BY <1>3, EnqueuedAfterMarker DEF DispatchCompletes
    <2>. QED
      BY <2>1, <2>2
  <1>. QED
    BY <1>1, <1>3, <1>4, <1>5 DEF RuntimeInv, OneMarker, DispatchCompletes, IsRunning

(* The loop takes the event at the head, which is the next in order.       *)
LEMMA TakeEventStep == RuntimeInv /\ TakeEvent => RuntimeInv'
  <1> SUFFICES ASSUME RuntimeInv, TakeEvent PROVE RuntimeInv'
    OBVIOUS
  <1>1. /\ queue' \in Seq(Item)
        /\ Len(queue) \in Nat /\ Len(queue') = Len(queue) - 1
        /\ \A i \in 1 .. Len(queue') :
              i + 1 \in 1 .. Len(queue) /\ queue'[i] = queue[i + 1]
        /\ taken' \in 0 .. accepted
        /\ QueueKeepsOrder'
    BY TakeKeepsOrder DEF TakeEvent, Consuming
  <1>2. taken \in Int /\ stopMark \in Int /\ taken' = taken + 1
    BY RuntimeAssumption DEF RuntimeInv, RuntimeTypeOK, TakeEvent
  <1>3. current' \in Event
    <2>1. Head(queue) \in Item
      BY TailOfQueue DEF RuntimeInv, RuntimeTypeOK, TakeEvent, Consuming
    <2>. QED
      BY <2>1 DEF TakeEvent, Item
  <1>4. RuntimeTypeOK'
    BY <1>1, <1>3 DEF RuntimeInv, RuntimeTypeOK, TakeEvent
  <1>5. \A i \in Markers' : i + 1 \in Markers /\ i \in Int
    BY <1>1 DEF Markers
  <1>6. OneMarker'
    <2>1. \A i, j \in Int : i + 1 = j + 1 => i = j
      OBVIOUS
    <2>. QED
      BY <1>5, <2>1 DEF RuntimeInv, OneMarker, TakeEvent, IsRunning
  <1>7. MarkerAfterEvents'
    <2> SUFFICES ASSUME ~strayed', awaiting'
                 PROVE  /\ \A i \in Markers', j \in 1 .. Len(queue') :
                              queue'[j] # STOP /\ queue'[j] <= stopMark' => j < i
                        /\ task' = "exited" => taken' >= stopMark'
      BY DEF MarkerAfterEvents, IsEvent
    <2>1. task' = "exited" => taken' >= stopMark'
      BY <1>2 DEF RuntimeInv, MarkerAfterEvents, TakeEvent
    <2>2. ASSUME NEW i \in Markers', NEW j \in 1 .. Len(queue'),
                 queue'[j] # STOP, queue'[j] <= stopMark'
          PROVE  j < i
      <3>1. queue[j + 1] # STOP /\ queue[j + 1] <= stopMark /\ j + 1 \in 1 .. Len(queue)
        BY <1>1, <2>2 DEF TakeEvent
      <3>2. j + 1 < i + 1
        BY <1>5, <3>1 DEF RuntimeInv, MarkerAfterEvents, TakeEvent, IsEvent
      <3>. QED
        BY <1>5, <3>2
    <2>. QED
      BY <2>1, <2>2
  <1>. QED
    BY <1>1, <1>4, <1>6, <1>7 DEF RuntimeInv, TakeEvent, IsRunning

(* The loop reaches a marker: if no marker was stray, it is the one that   *)
(* stop() put, and what was accepted before it is taken.                   *)
LEMMA TakeStopStep == RuntimeInv /\ TakeStop => RuntimeInv'
  <1> SUFFICES ASSUME RuntimeInv, TakeStop PROVE RuntimeInv'
    OBVIOUS
  <1>1. /\ queue' \in Seq(Item)
        /\ Len(queue) \in Nat /\ Len(queue') = Len(queue) - 1
        /\ \A i \in 1 .. Len(queue') :
              i + 1 \in 1 .. Len(queue) /\ queue'[i] = queue[i + 1]
        /\ QueueKeepsOrder'
    BY TakeKeepsOrder DEF TakeStop, Consuming
  <1>2. RuntimeTypeOK'
    BY <1>1 DEF RuntimeInv, RuntimeTypeOK, TakeStop
  <1>3. 1 \in Markers
    <2>1. Len(queue) \in Nat \ {0} /\ Head(queue) = queue[1]
      BY TailOfQueue DEF RuntimeInv, RuntimeTypeOK, TakeStop, Consuming
    <2>. QED
      BY <2>1 DEF Markers, TakeStop
  <1>4. ASSUME ~strayed' PROVE Markers' = {} /\ awaiting /\ taken >= stopMark
    <2>1. awaiting /\ Markers = {1}
      BY <1>3, <1>4 DEF RuntimeInv, OneMarker, TakeStop
    <2>2. Markers' = {}
      BY <1>1, <2>1 DEF Markers
    <2>3. taken >= stopMark
      <3>1. /\ taken \in Nat /\ accepted \in Nat /\ stopMark \in Nat
            /\ stopMark <= accepted
        BY RuntimeAssumption DEF RuntimeInv, RuntimeTypeOK
      <3> SUFFICES ASSUME taken < stopMark PROVE FALSE
        BY <3>1
      <3>2. PICK j \in 1 .. Len(queue) : queue[j] = taken + 1
        BY <3>1 DEF RuntimeInv, QueueKeepsOrder
      <3>3. queue[j] # STOP /\ queue[j] <= stopMark
        BY <3>1, <3>2 DEF STOP
      <3>4. j < 1
        BY <1>3, <1>4, <2>1, <3>3 DEF RuntimeInv, MarkerAfterEvents, TakeStop, IsEvent
      <3>. QED
        BY <3>4
    <2>. QED
      BY <2>1, <2>2, <2>3
  <1>5. OneMarker' /\ MarkerAfterEvents'
    BY <1>4 DEF OneMarker, MarkerAfterEvents, TakeStop
  <1>. QED
    BY <1>1, <1>2, <1>5 DEF RuntimeInv, TakeStop, IsRunning

(* Only a stray marker can be met by process_until_idle().                 *)
LEMMA SkipStopStep == RuntimeInv /\ SkipStop => RuntimeInv'
  <1> SUFFICES ASSUME RuntimeInv, SkipStop PROVE RuntimeInv'
    OBVIOUS
  <1>1. /\ queue' \in Seq(Item)
        /\ QueueKeepsOrder'
    BY TakeKeepsOrder DEF SkipStop, Consuming
  <1>2. RuntimeTypeOK'
    BY <1>1 DEF RuntimeInv, RuntimeTypeOK, SkipStop
  <1>3. 1 \in Markers
    <2>1. Len(queue) \in Nat \ {0} /\ Head(queue) = queue[1]
      BY TailOfQueue DEF RuntimeInv, RuntimeTypeOK, SkipStop, Consuming
    <2>. QED
      BY <2>1 DEF Markers, SkipStop
  <1>4. strayed
    BY <1>3 DEF RuntimeInv, OneMarker, SkipStop
  <1>. QED
    BY <1>1, <1>2, <1>4 DEF RuntimeInv, SkipStop, IsRunning, OneMarker, MarkerAfterEvents

(* Every step of the runtime keeps the invariant.                          *)
LEMMA RuntimeStep == RuntimeInv /\ [RuntimeNext]_runtimeVars => RuntimeInv'
  <1> SUFFICES ASSUME RuntimeInv, [RuntimeNext]_runtimeVars PROVE RuntimeInv'
    OBVIOUS
  <1> USE RuntimeAssumption
  <1>1. CASE Publish
    BY <1>1, PublishStep
  <1>2. CASE Start
    <2>0. starts \in 0 .. MaxStarts /\ starts < MaxStarts
      BY <1>2 DEF RuntimeInv, RuntimeTypeOK, Start
    <2>2. starts + 1 \in 0 .. MaxStarts
      BY <2>0
    <2>1. RuntimeTypeOK'
      BY <1>2, <2>2 DEF RuntimeInv, RuntimeTypeOK, Start
    <2>. QED
      BY <1>2, <2>1, SameQueue
      DEF RuntimeInv, Start, IsRunning, OneMarker, MarkerAfterEvents
  <1>3. CASE StopRequest
    BY <1>3, StopRequestStep
  <1>4. CASE StopReturn
    <2>1. RuntimeTypeOK'
      BY <1>4 DEF RuntimeInv, RuntimeTypeOK, StopReturn
    <2>. QED
      BY <1>4, <2>1, SameQueue
      DEF RuntimeInv, StopReturn, IsDone, IsRunning, OneMarker, MarkerAfterEvents
  <1>5. CASE StopCancelled
    <2>1. RuntimeTypeOK'
      BY <1>5 DEF RuntimeInv, RuntimeTypeOK, StopCancelled
    <2>. QED
      BY <1>5, <2>1, SameQueue
      DEF RuntimeInv, StopCancelled, IsRunning, OneMarker, MarkerAfterEvents
  <1>6. CASE FinalizeCompletedTask
    <2>1. RuntimeTypeOK'
      BY <1>6 DEF RuntimeInv, RuntimeTypeOK, FinalizeCompletedTask
    <2>. QED
      BY <1>6, <2>1, SameQueue
      DEF RuntimeInv, FinalizeCompletedTask, IsRunning, OneMarker, MarkerAfterEvents
  <1>7. CASE TakeEvent
    BY <1>7, TakeEventStep
  <1>8. CASE TakeStop
    BY <1>8, TakeStopStep
  <1>9. CASE SkipStop
    BY <1>9, SkipStopStep
  <1>10. CASE DispatchFails
    <2>1. RuntimeTypeOK'
      BY <1>10 DEF RuntimeInv, RuntimeTypeOK, DispatchFails
    <2>. QED
      BY <1>10, <2>1, SameQueue
      DEF RuntimeInv, DispatchFails, IsRunning, OneMarker, MarkerAfterEvents
  <1>11. CASE \E n \in 0 .. MaxFollowUps : DispatchCompletes(n)
    BY <1>11, DispatchCompletesStep
  <1>12. CASE BeginDrain
    <2>1. RuntimeTypeOK'
      BY <1>12 DEF RuntimeInv, RuntimeTypeOK, BeginDrain
    <2>. QED
      BY <1>12, <2>1, SameQueue
      DEF RuntimeInv, BeginDrain, IsRunning, OneMarker, MarkerAfterEvents
  <1>13. CASE EndDrain
    <2>1. RuntimeTypeOK'
      BY <1>13 DEF RuntimeInv, RuntimeTypeOK, EndDrain
    <2>. QED
      BY <1>13, <2>1, SameQueue
      DEF RuntimeInv, EndDrain, IsRunning, OneMarker, MarkerAfterEvents
  <1>14. CASE UNCHANGED runtimeVars
    <2>1. RuntimeTypeOK'
      BY <1>14 DEF RuntimeInv, RuntimeTypeOK, runtimeVars
    <2>. QED
      BY <1>14, <2>1, SameQueue
      DEF RuntimeInv, runtimeVars, IsRunning, OneMarker, MarkerAfterEvents
  <1>. QED
    BY <1>1, <1>2, <1>3, <1>4, <1>5, <1>6, <1>7, <1>8, <1>9, <1>10, <1>11, <1>12,
       <1>13, <1>14
    DEF RuntimeNext, Consume

(* The invariant holds in every reachable state.                           *)
LEMMA RuntimeInvariance == RuntimeSpec => []RuntimeInv
  BY InitRuntime, RuntimeStep, PTL DEF RuntimeSpec

-----------------------------------------------------------------------------
(* Type correctness of the runtime, for every bound.                       *)
THEOREM RuntimeTypeCorrect == RuntimeSpec => []RuntimeTypeOK
  BY RuntimeInvariance, PTL DEF RuntimeInv

(* The queue of EventRuntime holds exactly the events accepted by publish()*)
(* or returned by handlers and not yet taken, in the order of acceptance.  *)
THEOREM QueueIsOrdered == RuntimeSpec => []QueueKeepsOrder
  BY RuntimeInvariance, PTL DEF RuntimeInv

(* The loop in _run exits by a marker only for a stop() that waits for it, *)
(* unless an earlier loop left a marker behind.                            *)
THEOREM ExitIsRequested == RuntimeSpec => []NoSpontaneousExit
  <1>1. RuntimeInv => NoSpontaneousExit
    BY DEF RuntimeInv, OneMarker, NoSpontaneousExit
  <1>. QED
    BY <1>1, RuntimeInvariance, PTL

(* stop() returns from a loop that exited by its marker only when every    *)
(* event accepted before that stop() has been taken.                       *)
THEOREM StopDrainsTheQueue == RuntimeSpec => StopDrains
  <1>1. RuntimeInv => (StopReturn /\ task = "exited" /\ ~strayed => taken >= stopMark)
    BY DEF RuntimeInv, MarkerAfterEvents, StopReturn
  <1>. QED
    BY <1>1, RuntimeInvariance, PTL DEF StopDrains


-----------------------------------------------------------------------------
(* ApplicationRuntime.                                                     *)

(* A stop event that a poller or a waiting adapter sees, a cancellation,   *)
(* and an adapter that stops the event runtime all come from a stop() of   *)
(* this run; a task that has not made its first step may see an old event, *)
(* which is why it clears it.                                              *)
RequestBehindIt ==
    /\ shuttingDown => started /\ requested = ManagedWorkers
    /\ cancelling # {} => shuttingDown
    /\ \A w \in ManagedWorkers :
          /\ worker[w] \in {"busy", "waiting"} /\ flag[w] => w \in requested
          /\ w \in Adapters /\ worker[w] = "busy" => w \in requested

(* The inductive invariant.                                                *)
AppInv == AppTypeOK /\ NoOrphanTask /\ RequestBehindIt

-----------------------------------------------------------------------------
(* Without tasks there is nothing to keep.                                 *)
LEMMA AppInitInv == AppInit => AppInv
  <1> SUFFICES ASSUME AppInit PROVE AppInv
    OBVIOUS
  <1>1. AppTypeOK
    <2>1. appStarts \in 0 .. MaxAppStarts
      BY AppAssumption DEF AppInit
    <2>. QED
      BY <2>1 DEF AppInit, AppTypeOK, WorkerState
  <1>2. NoOrphanTask /\ RequestBehindIt
    BY DEF AppInit, NoOrphanTask, RequestBehindIt, Live, shuttingDown
  <1>. QED
    BY <1>1, <1>2 DEF AppInv

(* The step of one worker's task.                                          *)
LEMMA WorkerStepInv ==
    ASSUME AppInv, NEW w \in ManagedWorkers, WorkerStep(w)
    PROVE  AppInv'
  <1> USE DEF AppInv, AppTypeOK, NoOrphanTask, RequestBehindIt, Live, shuttingDown,
              WorkerState, Runs, Becomes
  <1>0. w \in Pollers \/ w \in Adapters
    BY DEF ManagedWorkers
  <1>1. CASE FirstStep(w)
    BY <1>1, AppAssumption DEF FirstStep
  <1>2. CASE FullBatch(w)
    BY <1>2, AppAssumption DEF FullBatch, NextBatch
  <1>3. CASE EmptyBatch(w)
    BY <1>3, AppAssumption DEF EmptyBatch
  <1>4. CASE PollerWakes(w)
    BY <1>4, AppAssumption DEF PollerWakes, NextBatch
  <1>5. CASE AdapterWakes(w)
    BY <1>5, AppAssumption DEF AdapterWakes
  <1>6. CASE AdapterEnds(w)
    BY <1>6, AppAssumption DEF AdapterEnds
  <1>7. CASE CancelDelivered(w)
    BY <1>7, AppAssumption DEF CancelDelivered
  <1>. QED
    BY <1>1, <1>2, <1>3, <1>4, <1>5, <1>6, <1>7 DEF WorkerStep

(* Every step of the lifecycle and of a worker keeps the invariant.        *)
LEMMA AppStepInv == AppInv /\ [AppNext]_appVars => AppInv'
  <1> SUFFICES ASSUME AppInv, [AppNext]_appVars PROVE AppInv'
    OBVIOUS
  <1> USE DEF AppInv, AppTypeOK, NoOrphanTask, RequestBehindIt, Live, shuttingDown,
              WorkerState
  <1>1. CASE AppStart
    BY <1>1, AppAssumption DEF AppStart
  <1>2. CASE AppStop
    BY <1>2 DEF AppStop
  <1>3. CASE StopTimeout
    BY <1>3 DEF StopTimeout
  <1>4. CASE StopFinishes
    BY <1>4 DEF StopFinishes
  <1>5. CASE \E w \in ManagedWorkers : WorkerStep(w)
    BY <1>5, WorkerStepInv
  <1>6. CASE UNCHANGED appVars
    BY <1>6 DEF appVars
  <1>. QED
    BY <1>1, <1>2, <1>3, <1>4, <1>5, <1>6 DEF AppNext

(* The invariant holds in every reachable state.                           *)
LEMMA AppInvariance == AppSpec => []AppInv
  BY AppInitInv, AppStepInv, PTL DEF AppSpec

-----------------------------------------------------------------------------
(* When ApplicationRuntime.stop() has returned no worker task is left.     *)
THEOREM NoTaskIsOrphaned == AppSpec => []NoOrphanTask
  BY AppInvariance, PTL DEF AppInv

(* A worker's task ends only in a run in which stop() was called, although *)
(* the stop events are kept from one run to the next.                      *)
THEOREM TasksEndOnRequest == AppSpec => EndsOnlyOnRequest
  <1>1. ASSUME AppInv, [AppNext]_appVars, NEW w \in ManagedWorkers,
               Live(w), worker'[w] = "ended"
        PROVE  w \in requested
    <2> USE <1>1 DEF AppInv, AppTypeOK, RequestBehindIt, Live, Becomes, Runs, shuttingDown
    <2>1. CASE AppStart
      BY <2>1 DEF AppStart
    <2>2. CASE AppStop \/ StopTimeout \/ StopFinishes \/ UNCHANGED appVars
      BY <2>2 DEF AppStop, StopTimeout, StopFinishes, appVars
    <2>3. ASSUME NEW v \in ManagedWorkers, WorkerStep(v)
          PROVE  w \in requested
      <3>1. v = w
        BY <2>3 DEF WorkerStep, FirstStep, FullBatch, EmptyBatch, NextBatch,
                    PollerWakes, AdapterWakes, AdapterEnds, CancelDelivered
      <3>. QED
        BY <2>3, <3>1
        DEF WorkerStep, FirstStep, FullBatch, EmptyBatch, NextBatch, PollerWakes,
            AdapterWakes, AdapterEnds, CancelDelivered
    <2>. QED
      BY <2>1, <2>2, <2>3 DEF AppNext
  <1>2. AppInv /\ [AppNext]_appVars =>
           (\A w \in ManagedWorkers :
               Live(w) /\ worker'[w] = "ended" => w \in requested)
    BY <1>1
  <1>. QED
    BY <1>2, AppInvariance, PTL DEF AppSpec, EndsOnlyOnRequest
=============================================================================
