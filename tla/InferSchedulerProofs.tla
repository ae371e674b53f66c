----------------------- MODULE InferSchedulerProofs -----------------------
(***************************************************************************)
(* Proofs about the scheduler of src/pipeline/InferScheduler.cpp, for any  *)
(* set of streams and any number of inference threads.                     *)
(***************************************************************************)
EXTENDS InferScheduler, TLAPS

-----------------------------------------------------------------------------
(* The order list. *)

(* upsertStream appends a stream that is not in the list. *)
LEMMA AppendedOrder ==
    ASSUME OrderConsistent, NEW s \in StreamIds, ~InOrder(s)
    PROVE  /\ Append(order, s) \in Seq(StreamIds)
           /\ Len(Append(order, s)) = Len(order) + 1
           /\ \A i \in 1 .. Len(order) : Append(order, s)[i] = order[i]
           /\ Append(order, s)[Len(order) + 1] = s
BY DEF OrderConsistent, TypeOK

(* removeStream takes the stream out of the list and moves up the ones behind it. *)
LEMMA ShortenedOrder ==
    ASSUME OrderConsistent, NEW s \in StreamIds, InOrder(s)
    PROVE  \E at \in 1 .. Len(order) :
              /\ order[at] = s
              /\ OrderWithout(s) \in Seq(StreamIds)
              /\ Len(OrderWithout(s)) = Len(order) - 1
              /\ \A i \in 1 .. Len(order) - 1 :
                    OrderWithout(s)[i] = IF i < at THEN order[i] ELSE order[i + 1]
<1> DEFINE at == CHOOSE i \in 1 .. Len(order) : order[i] = s
           short == [i \in 1 .. Len(order) - 1 |-> IF i < at THEN order[i] ELSE order[i + 1]]
<1>1. at \in 1 .. Len(order) /\ order[at] = s
  BY DEF InOrder
<1>2. order \in Seq(StreamIds) /\ Len(order) \in Nat
  BY DEF OrderConsistent, TypeOK
<1>3. OrderWithout(s) = short
  BY DEF OrderWithout
<1>. HIDE DEF at
<1>4. \A i \in 1 .. Len(order) - 1 : short[i] \in StreamIds
  BY <1>1, <1>2
<1>5. short \in Seq(StreamIds) /\ Len(short) = Len(order) - 1
  BY <1>1, <1>2, <1>4
<1> QED
  BY <1>1, <1>3, <1>5

-----------------------------------------------------------------------------
(* OrderConsistent is inductive. *)

(* A step that moves neither the list, nor the cursor, nor the set of entries. *)
LEMMA OrderUnmoved ==
    ASSUME OrderConsistent, TypeOK', order' = order, cursor' = cursor, DOMAIN entries' = DOMAIN entries
    PROVE  OrderConsistent'
<1>1. {order'[i] : i \in 1 .. Len(order')} = {order[i] : i \in 1 .. Len(order)}
  OBVIOUS
<1>2. \A i, j \in 1 .. Len(order') : order'[i] = order'[j] => i = j
  BY DEF OrderConsistent
<1> QED
  BY <1>1, <1>2 DEF OrderConsistent

LEMMA OrderInit == Init => OrderConsistent
<1> SUFFICES ASSUME Init PROVE OrderConsistent
  OBVIOUS
<1>1. order \in Seq(StreamIds) /\ Len(order) = 0 /\ cursor = 0
  BY DEF Init
<1>2. DOMAIN entries = {}
  BY DEF Init
<1>3. /\ generation \in [StreamIds -> 0 .. MaxGeneration]
      /\ passed \in [StreamIds -> Nat]
  BY SchedulerAssumption DEF Init
<1>4. task \in [Workers -> Buffers \cup {NoTask}] /\ stopped \in BOOLEAN /\ ready \subseteq Buffers
  BY DEF Init
<1>5. TypeOK
  BY <1>1, <1>2, <1>3, <1>4 DEF TypeOK
<1> QED
  BY <1>1, <1>2, <1>5 DEF OrderConsistent, Init

LEMMA OrderUpsert ==
    ASSUME OrderConsistent, NEW s \in StreamIds, NEW buffer \in Buffers,
           generation' \in [StreamIds -> 0 .. MaxGeneration],
           UpsertStream(s, buffer)
    PROVE  OrderConsistent'
<1> USE DEF OrderConsistent
<1>1. /\ DOMAIN entries' = DOMAIN entries \cup {s}
      /\ \A t \in DOMAIN entries' : entries'[t] \in [buffer : Buffers, inflight : BOOLEAN]
  BY DEF UpsertStream, TypeOK
<1>2. UNCHANGED <<cursor, stopped, ready, task>> /\ passed' \in [StreamIds -> Nat]
  BY DEF UpsertStream, TypeOK
<1>3. CASE InOrder(s)
  <2>1. UNCHANGED order /\ s \in DOMAIN entries
    BY <1>3 DEF UpsertStream, InOrder
  <2>2. TypeOK'
    BY <1>1, <1>2, <2>1, Zenon DEF TypeOK
  <2>3. DOMAIN entries' = DOMAIN entries
    BY <1>1, <2>1
  <2> QED
    BY <1>2, <2>1, <2>2, <2>3, OrderUnmoved
<1>4. CASE ~InOrder(s)
  <2>1. order' = Append(order, s)
    BY <1>4 DEF UpsertStream
  <2>2. \A i, j \in 1 .. Len(order') : order'[i] = order'[j] => i = j
    <3>1. /\ Len(order') = Len(order) + 1 /\ Len(order) \in Nat
          /\ \A i \in 1 .. Len(order) : order'[i] = order[i]
          /\ order'[Len(order) + 1] = s
      BY <1>4, <2>1, AppendedOrder, SMTT(30) DEF TypeOK
    <3>2. \A i \in 1 .. Len(order) : order[i] # s
      BY <1>4 DEF InOrder
    <3> QED
      BY <3>1, <3>2
  <2>3. DOMAIN entries' = {order'[i] : i \in 1 .. Len(order')}
    <3> HIDE DEF OrderConsistent
    <3>1. /\ DOMAIN entries' = DOMAIN entries \cup {s}
          /\ DOMAIN entries = {order[i] : i \in 1 .. Len(order)}
      BY <1>1 DEF OrderConsistent
    <3>2. /\ Len(order') = Len(order) + 1 /\ Len(order) \in Nat
          /\ \A i \in 1 .. Len(order) : order'[i] = order[i]
          /\ order'[Len(order) + 1] = s
      BY <1>4, <2>1, AppendedOrder DEF OrderConsistent, TypeOK
    <3>3. 1 .. Len(order') = (1 .. Len(order)) \cup {Len(order) + 1}
      BY <3>2
    <3>4. ASSUME NEW t \in DOMAIN entries' PROVE \E i \in 1 .. Len(order') : order'[i] = t
      <4>1. CASE t = s
        BY <3>2, <3>3, <4>1
      <4>2. CASE t \in DOMAIN entries
        <5>1. PICK i \in 1 .. Len(order) : order[i] = t
          BY <3>1, <4>2
        <5> QED
          BY <3>2, <3>3, <5>1
      <4> QED
        BY <3>1, <4>1, <4>2
    <3>5. ASSUME NEW i \in 1 .. Len(order') PROVE order'[i] \in DOMAIN entries'
      <4>1. CASE i = Len(order) + 1
        BY <3>1, <3>2, <4>1
      <4>2. CASE i \in 1 .. Len(order)
        BY <3>1, <3>2, <4>2
      <4> QED
        BY <3>3, <4>1, <4>2
    <3> QED
      BY <3>4, <3>5, Zenon
  <2> QED
    <3>1. order' \in Seq(StreamIds) /\ Len(order') = Len(order) + 1
      BY <1>4, <2>1, AppendedOrder
    <3>2. cursor' < Len(order')
      BY <1>2, <3>1 DEF TypeOK
    <3>3. TypeOK'
      BY <1>1, <1>2, <3>1, Zenon DEF TypeOK
    <3> QED
      BY <2>2, <2>3, <3>2, <3>3
<1> QED
  BY <1>3, <1>4

LEMMA OrderBuild == ASSUME OrderConsistent, NEW s \in StreamIds, BuildStream(s) PROVE OrderConsistent'
<1>1. /\ generation[s] \in 0 .. MaxGeneration /\ generation[s] < MaxGeneration
      /\ generation' = [generation EXCEPT ![s] = @ + 1]
      /\ generation \in [StreamIds -> 0 .. MaxGeneration]
  BY DEF BuildStream, OrderConsistent, TypeOK
<1>2. <<s, generation[s] + 1>> \in Buffers
  BY <1>1, SchedulerAssumption DEF Buffers
<1>3. generation' \in [StreamIds -> 0 .. MaxGeneration]
  BY <1>1, SchedulerAssumption
<1> QED
  BY <1>2, <1>3, OrderUpsert DEF BuildStream

LEMMA OrderUpdate ==
    ASSUME OrderConsistent, NEW s \in StreamIds, UpdateStreamRuntime(s) PROVE OrderConsistent'
<1>1. entries[s].buffer \in Buffers /\ generation' \in [StreamIds -> 0 .. MaxGeneration]
  BY DEF UpdateStreamRuntime, OrderConsistent, TypeOK
<1> QED
  BY <1>1, OrderUpsert DEF UpdateStreamRuntime

LEMMA OrderRemove ==
    ASSUME OrderConsistent, NEW s \in StreamIds, RemoveStream(s) PROVE OrderConsistent'
<1> USE DEF OrderConsistent
<1>1. /\ DOMAIN entries' = DOMAIN entries \ {s}
      /\ \A t \in DOMAIN entries' : entries'[t] \in [buffer : Buffers, inflight : BOOLEAN]
      /\ UNCHANGED <<stopped, generation, ready, task>> /\ passed' \in [StreamIds -> Nat]
      /\ order' = OrderWithout(s) /\ cursor' = IF cursor >= Len(order') THEN 0 ELSE cursor
  BY DEF RemoveStream, TypeOK
<1>2. CASE ~InOrder(s)
  <2>1. UNCHANGED order /\ DOMAIN entries' = DOMAIN entries
    BY <1>1, <1>2 DEF OrderWithout, InOrder
  <2>2. UNCHANGED cursor
    BY <1>1, <2>1 DEF TypeOK
  <2>3. TypeOK'
    BY <1>1, <2>1, <2>2, Zenon DEF TypeOK
  <2> QED
    BY <2>1, <2>2, <2>3
<1>3. CASE InOrder(s)
  <2>1. PICK at \in 1 .. Len(order) :
              /\ order[at] = s
              /\ order' \in Seq(StreamIds)
              /\ Len(order') = Len(order) - 1
              /\ \A i \in 1 .. Len(order) - 1 :
                    order'[i] = IF i < at THEN order[i] ELSE order[i + 1]
    <3>1. \E at \in 1 .. Len(order) :
              /\ order[at] = s
              /\ OrderWithout(s) \in Seq(StreamIds)
              /\ Len(OrderWithout(s)) = Len(order) - 1
              /\ \A i \in 1 .. Len(order) - 1 :
                    OrderWithout(s)[i] = IF i < at THEN order[i] ELSE order[i + 1]
      BY <1>3, ShortenedOrder
    <3>2. order' = OrderWithout(s)
      BY <1>1
    <3> QED
      BY <3>1, <3>2, Zenon
  <2>2. Len(order) \in Nat /\ cursor \in Nat
    BY DEF TypeOK
  <2>3. \A i, j \in 1 .. Len(order') : order'[i] = order'[j] => i = j
    BY <2>1, <2>2
  <2>4. \A t \in DOMAIN entries' : \E i \in 1 .. Len(order') : order'[i] = t
    <3> SUFFICES ASSUME NEW t \in DOMAIN entries'
                 PROVE  \E i \in 1 .. Len(order') : order'[i] = t
      OBVIOUS
    <3>1. PICK k \in 1 .. Len(order) : order[k] = t /\ t # s
      BY <1>1
    <3>2. CASE k < at
      <4>1. k \in 1 .. Len(order') /\ order'[k] = t
        BY <2>1, <2>2, <3>1, <3>2
      <4> QED  BY <4>1
    <3>3. CASE k > at
      <4>1. k - 1 \in 1 .. Len(order') /\ order'[k - 1] = order[(k - 1) + 1]
        BY <2>1, <2>2, <3>1, <3>3
      <4>2. order'[k - 1] = t
        BY <3>1, <4>1
      <4> QED  BY <4>1, <4>2
    <3> QED  BY <2>1, <2>2, <3>1, <3>2, <3>3
  <2>5. \A i \in 1 .. Len(order') : order'[i] \in DOMAIN entries'
    BY <1>1, <2>1, <2>2, SMTT(30)
  <2>6. cursor' < Len(order') \/ (order' = <<>> /\ cursor' = 0)
    BY <1>1, <2>1, <2>2
  <2>7. cursor' \in Nat
    BY <1>1, <2>2
  <2>8. TypeOK'
    BY <1>1, <2>1, <2>7, Zenon DEF TypeOK
  <2>9. DOMAIN entries' = {order'[i] : i \in 1 .. Len(order')}
    <3>1. \A t \in DOMAIN entries' : t \in {order'[i] : i \in 1 .. Len(order')}
      BY <2>4
    <3>2. \A t \in {order'[i] : i \in 1 .. Len(order')} : t \in DOMAIN entries'
      BY <2>5
    <3> QED
      BY <3>1, <3>2
  <2> QED
    BY <2>3, <2>6, <2>8, <2>9
<1> QED
  BY <1>2, <1>3

(* The cursor moves within the list. *)
LEMMA CursorInRange ==
    ASSUME NEW n \in Nat \ {0}, NEW c \in Nat, NEW k \in Nat, c < n, k < n
    PROVE  /\ (c + k) % n \in 0 .. n - 1
           /\ (c + k) % n = IF c + k < n THEN c + k ELSE c + k - n
OBVIOUS

LEMMA OrderAcquire ==
    ASSUME OrderConsistent, NEW w \in Workers, AcquireTask(w) PROVE OrderConsistent'
<1> USE DEF OrderConsistent
<1>1. PICK offset \in 0 .. Len(order) - 1 :
         LET s == order[Index(offset) + 1] IN
         /\ Eligible(s)
         /\ entries' = SetInflight(s, TRUE)
         /\ cursor' = NextCursor(offset)
         /\ task' = [task EXCEPT ![w] = entries[s].buffer]
         /\ ready' = ready \ {entries[s].buffer}
         /\ passed' = [t \in StreamIds |-> IF t # s /\ Eligible(t) THEN passed[t] + 1 ELSE 0]
  BY DEF AcquireTask
<1>2. UNCHANGED <<order, stopped, generation>>
  BY DEF AcquireTask
<1>3. Len(order) \in Nat \ {0} /\ cursor \in Nat /\ cursor < Len(order)
  BY <1>1 DEF TypeOK
<1>4. Index(offset) \in 0 .. Len(order) - 1
  <2>1. offset \in Nat /\ offset < Len(order)
    BY <1>3
  <2> QED
    BY <1>3, <2>1, CursorInRange DEF Index
<1>5. cursor' \in 0 .. Len(order) - 1
  BY <1>1, <1>3, <1>4 DEF NextCursor
<1>6. DOMAIN entries' = DOMAIN entries
  BY <1>1 DEF SetInflight
<1>7. \A t \in DOMAIN entries' : entries'[t] \in [buffer : Buffers, inflight : BOOLEAN]
  BY <1>1 DEF Eligible, TypeOK, SetInflight
<1>8. task' \in [Workers -> Buffers \cup {NoTask}]
  BY <1>1 DEF Eligible, TypeOK
<1>9. passed' \in [StreamIds -> Nat]
  <2>1. \A t \in StreamIds : passed[t] \in Nat
    BY DEF TypeOK
  <2> QED
    BY <1>1, <2>1
<1>10. ready' \subseteq Buffers
  BY <1>1 DEF TypeOK
<1>11. cursor' \in Nat /\ cursor' < Len(order')
  BY <1>2, <1>3, <1>5
<1>12. TypeOK'
  BY <1>2, <1>6, <1>7, <1>8, <1>9, <1>10, <1>11, Zenon DEF TypeOK
<1> QED
  BY <1>2, <1>6, <1>11, <1>12

LEMMA OrderEnd ==
    ASSUME OrderConsistent, NEW w \in Workers, EndTask(w) PROVE OrderConsistent'
<1> USE DEF OrderConsistent
<1>1. /\ DOMAIN entries' = DOMAIN entries
      /\ \A t \in DOMAIN entries' : entries'[t] \in [buffer : Buffers, inflight : BOOLEAN]
  BY DEF EndTask, TypeOK, SetInflight
<1>2. task' \in [Workers -> Buffers \cup {NoTask}]
  BY DEF EndTask, TypeOK
<1>3. UNCHANGED <<order, cursor, stopped, generation, ready, passed>>
  BY DEF EndTask
<1>4. TypeOK'
  BY <1>1, <1>2, <1>3, Zenon DEF TypeOK
<1> QED
  BY <1>1, <1>3, <1>4

LEMMA OrderReady ==
    ASSUME OrderConsistent, NEW s \in StreamIds, FrameReady(s) PROVE OrderConsistent'
<1>1. PICK g \in 1 .. generation[s] :
         /\ ready' = ready \cup {<<s, g>>}
         /\ passed' = [passed EXCEPT ![s] = 0]
         /\ UNCHANGED <<entries, order, cursor, stopped, generation, task>>
  BY DEF FrameReady
<1>2. <<s, g>> \in Buffers
  BY <1>1, SchedulerAssumption, SMTT(30) DEF OrderConsistent, TypeOK, Buffers
<1>3. ready' \subseteq Buffers /\ passed' \in [StreamIds -> Nat]
  BY <1>1, <1>2 DEF OrderConsistent, TypeOK
<1>4. TypeOK'
  BY <1>1, <1>3, Zenon DEF OrderConsistent, TypeOK
<1> QED
  BY <1>1, <1>4 DEF OrderConsistent

LEMMA OrderStep == OrderConsistent /\ [Next]_vars => OrderConsistent'
<1> SUFFICES ASSUME OrderConsistent, [Next]_vars PROVE OrderConsistent'
  OBVIOUS
<1>1. CASE Config
  BY <1>1, OrderBuild, OrderUpdate, OrderRemove DEF Config
<1>2. CASE \E s \in StreamIds : FrameReady(s)
  BY <1>2, OrderReady
<1>3. CASE \E w \in Workers : Worker(w)
  BY <1>3, OrderAcquire, OrderEnd DEF Worker
<1>4. CASE Stop \/ UNCHANGED vars
  <2>1. UNCHANGED <<entries, order, cursor, generation, ready, task, passed>> /\ stopped' \in BOOLEAN
    BY <1>4, Zenon DEF Stop, vars, OrderConsistent, TypeOK
  <2>2. TypeOK'
    BY <2>1, Zenon DEF OrderConsistent, TypeOK
  <2> QED
    BY <2>1, <2>2, OrderUnmoved
<1> QED
  BY <1>1, <1>2, <1>3, <1>4 DEF Next

(* cursor_ is an index of order_, and order_ lists each registered stream once,
   through any sequence of registrations and removals (InferScheduler.cpp:14-35). *)
THEOREM OrderIsConsistent == Spec => []OrderConsistent
BY OrderInit, OrderStep, PTL DEF Spec

-----------------------------------------------------------------------------
(* Round robin. *)

(* How many streams are looked at before the i-th of the list. *)
Distance(i) == IF i > cursor THEN i - 1 - cursor ELSE i - 1 - cursor + Len(order)

(* A stream of the list that has been passed over k times is less than n - k streams
   away from the cursor: each time it is passed over the cursor comes closer. *)
Approaching ==
    /\ OrderConsistent
    /\ \A i \in 1 .. Len(order) : passed[order[i]] + Distance(i) < Len(order)

(* Where passed[] is reset only the cursor counts. *)
LEMMA ApproachingReset ==
    ASSUME OrderConsistent', \A i \in 1 .. Len(order') : passed'[order'[i]] = 0
    PROVE  Approaching'
<1>1. Len(order') \in Nat /\ cursor' \in Nat /\ (cursor' < Len(order') \/ Len(order') = 0)
  BY DEF OrderConsistent, TypeOK
<1> SUFFICES ASSUME NEW i \in 1 .. Len(order') PROVE passed'[order'[i]] + Distance(i)' < Len(order')
  BY DEF Approaching
<1>2. Distance(i)' = IF i > cursor' THEN i - 1 - cursor' ELSE i - 1 - cursor' + Len(order')
  BY DEF Distance
<1>3. i \in Int /\ 1 <= i /\ i <= Len(order')
  BY <1>1
<1>4. Distance(i)' \in Int /\ Distance(i)' < Len(order')
  BY <1>1, <1>2, <1>3
<1> QED
  BY <1>4

(* A step that leaves order_, cursor_ and passed[] alone. *)
LEMMA ApproachingUnmoved ==
    ASSUME Approaching, OrderConsistent', order' = order, cursor' = cursor, passed' = passed
    PROVE  Approaching'
BY DEF Approaching, Distance

LEMMA ApproachingUpsert ==
    ASSUME Approaching, OrderConsistent', NEW s \in StreamIds, NEW buffer, UpsertStream(s, buffer)
    PROVE  Approaching'
<1>1. CASE InOrder(s)
  BY <1>1, ApproachingUnmoved DEF UpsertStream
<1>2. CASE ~InOrder(s)
  <2>1. \A i \in 1 .. Len(order') : passed'[order'[i]] = 0
    BY <1>2 DEF UpsertStream, OrderConsistent, TypeOK
  <2> QED
    BY <2>1, ApproachingReset
<1> QED
  BY <1>1, <1>2

LEMMA ApproachingReady ==
    ASSUME Approaching, OrderConsistent', NEW s \in StreamIds, FrameReady(s)
    PROVE  Approaching'
<1>1. passed' = [passed EXCEPT ![s] = 0] /\ UNCHANGED <<order, cursor>>
  BY DEF FrameReady
<1>2. Len(order) \in Nat /\ cursor \in Nat /\ passed \in [StreamIds -> Nat] /\ order \in Seq(StreamIds)
  <2>1. OrderConsistent
    BY DEF Approaching
  <2>2. cursor \in Nat /\ passed \in [StreamIds -> Nat] /\ order \in Seq(StreamIds)
    BY <2>1, Zenon DEF OrderConsistent, TypeOK
  <2> QED
    BY <2>1, <2>2
<1> SUFFICES ASSUME NEW i \in 1 .. Len(order)
             PROVE  passed'[order[i]] + Distance(i) < Len(order)
  BY <1>1 DEF Approaching, Distance
<1>3. Distance(i) \in Int /\ passed[order[i]] \in Nat /\ order[i] \in StreamIds
  BY <1>2 DEF Distance
<1>4. passed'[order[i]] \in Nat /\ passed'[order[i]] <= passed[order[i]]
  BY <1>1, <1>2, <1>3
<1>5. passed[order[i]] + Distance(i) < Len(order)
  BY DEF Approaching
<1> QED
  BY <1>2, <1>3, <1>4, <1>5

(* The stream looked at after o others is at distance o. *)
LEMMA DistanceOfIndex ==
    ASSUME OrderConsistent, NEW o \in 0 .. Len(order) - 1
    PROVE  /\ Index(o) + 1 \in 1 .. Len(order)
           /\ Distance(Index(o) + 1) = o
<1>1. Len(order) \in Nat \ {0} /\ cursor \in Nat /\ cursor < Len(order)
  BY DEF OrderConsistent, TypeOK
<1>2. o \in Nat /\ o < Len(order)
  BY <1>1
<1>3. Index(o) = IF cursor + o < Len(order) THEN cursor + o ELSE cursor + o - Len(order)
  BY <1>1, <1>2, CursorInRange DEF Index
<1> QED
  BY <1>1, <1>2, <1>3 DEF Distance

LEMMA IndexOfDistance ==
    ASSUME OrderConsistent, NEW i \in 1 .. Len(order)
    PROVE  /\ Distance(i) \in 0 .. Len(order) - 1
           /\ Index(Distance(i)) + 1 = i
<1>1. Len(order) \in Nat \ {0} /\ cursor \in Nat /\ cursor < Len(order)
  BY DEF OrderConsistent, TypeOK
<1>2. Distance(i) \in Nat /\ Distance(i) < Len(order)
  BY <1>1 DEF Distance
<1>3. Index(Distance(i)) = IF cursor + Distance(i) < Len(order) THEN cursor + Distance(i)
                           ELSE cursor + Distance(i) - Len(order)
  BY <1>1, <1>2, CursorInRange DEF Index
<1> QED
  BY <1>1, <1>2, <1>3 DEF Distance

(* A stream passed over is nearer the cursor afterwards. *)
LEMMA DistanceAfter ==
    ASSUME OrderConsistent, OrderConsistent', NEW i \in 1 .. Len(order), NEW o \in 0 .. Len(order) - 1,
           UNCHANGED order, cursor' = NextCursor(o), o < Distance(i)
    PROVE  Distance(i)' = Distance(i) - o - 1
<1>1. Len(order) \in Nat \ {0} /\ cursor \in Nat /\ cursor < Len(order)
  BY DEF OrderConsistent, TypeOK
<1>2. o \in Nat /\ o < Len(order)
  BY <1>1
<1>3. Index(o) = IF cursor + o < Len(order) THEN cursor + o ELSE cursor + o - Len(order)
  BY <1>1, <1>2, CursorInRange DEF Index
<1>4. /\ Index(o) \in Nat /\ Index(o) < Len(order)
      /\ cursor' = (Index(o) + 1) % Len(order)
  BY <1>1, <1>2, <1>3 DEF NextCursor
<1>5. cursor' = IF Index(o) + 1 < Len(order) THEN Index(o) + 1 ELSE 0
  BY <1>1, <1>4
<1>6. Distance(i)' = IF i > cursor' THEN i - 1 - cursor' ELSE i - 1 - cursor' + Len(order)
  BY DEF Distance
<1>7. i \in Int /\ 1 <= i /\ i <= Len(order)
  BY <1>1
<1>8. CASE i > cursor
  <2>1. Distance(i) = i - 1 - cursor
    BY <1>8 DEF Distance
  <2>2. Index(o) = cursor + o /\ cursor' = cursor + o + 1
    BY <1>1, <1>2, <1>3, <1>5, <1>7, <2>1
  <2> QED
    BY <1>1, <1>2, <1>6, <1>7, <2>1, <2>2
<1>9. CASE i <= cursor
  <2>1. Distance(i) = i - 1 - cursor + Len(order)
    BY <1>1, <1>7, <1>9 DEF Distance
  <2>2. CASE cursor + o < Len(order)
    BY <1>1, <1>2, <1>3, <1>5, <1>6, <1>7, <1>9, <2>1, <2>2
  <2>3. CASE cursor + o >= Len(order)
    <3>1. Index(o) = cursor + o - Len(order)
      BY <1>1, <1>2, <1>3, <2>3
    <3>2. cursor' = Index(o) + 1
      BY <1>1, <1>2, <1>5, <1>7, <2>1, <3>1
    <3> QED
      BY <1>1, <1>2, <1>6, <1>7, <2>1, <3>1, <3>2
  <2> QED
    BY <1>1, <1>2, <2>2, <2>3
<1> QED
  BY <1>1, <1>7, <1>8, <1>9

LEMMA ApproachingAcquire ==
    ASSUME Approaching, OrderConsistent', NEW w \in Workers, AcquireTask(w)
    PROVE  Approaching'
<1>0. OrderConsistent /\ Len(order) \in Nat /\ passed \in [StreamIds -> Nat] /\ order \in Seq(StreamIds)
  <2>1. OrderConsistent
    BY DEF Approaching
  <2>2. cursor \in Nat /\ passed \in [StreamIds -> Nat] /\ order \in Seq(StreamIds)
    BY <2>1, Zenon DEF OrderConsistent, TypeOK
  <2> QED
    BY <2>1, <2>2
<1>1. PICK offset \in 0 .. Len(order) - 1 :
         /\ \A o \in 0 .. offset - 1 : ~Eligible(order[Index(o) + 1])
         /\ cursor' = NextCursor(offset)
         /\ passed' = [t \in StreamIds |-> IF t # order[Index(offset) + 1] /\ Eligible(t)
                                           THEN passed[t] + 1 ELSE 0]
  BY DEF AcquireTask
<1>2. UNCHANGED order
  BY DEF AcquireTask
<1> SUFFICES ASSUME NEW i \in 1 .. Len(order)
             PROVE  passed'[order[i]] + Distance(i)' < Len(order)
  BY <1>2 DEF Approaching
<1>3. CASE order[i] # order[Index(offset) + 1] /\ Eligible(order[i])
  <2>1. Distance(i) \in 0 .. Len(order) - 1 /\ Index(Distance(i)) + 1 = i
    BY <1>0, IndexOfDistance
  <2>2. offset < Distance(i)
    <3>1. Distance(i) # offset
      BY <1>3, <2>1
    <3>2. Distance(i) \notin 0 .. offset - 1
      BY <1>1, <1>3, <2>1
    <3> QED
      BY <1>0, <2>1, <3>1, <3>2
  <2>3. Distance(i)' = Distance(i) - offset - 1
    BY <1>0, <1>1, <1>2, <2>2, DistanceAfter
  <2>4. passed'[order[i]] = passed[order[i]] + 1 /\ passed[order[i]] \in Nat
    BY <1>0, <1>1, <1>3
  <2>5. passed[order[i]] + Distance(i) < Len(order)
    BY DEF Approaching
  <2> QED
    BY <1>0, <2>1, <2>3, <2>4, <2>5, SMTT(30)
<1>4. CASE ~(order[i] # order[Index(offset) + 1] /\ Eligible(order[i]))
  <2>1. passed'[order[i]] = 0
    BY <1>0, <1>1, <1>4
  <2>2. cursor' \in Nat /\ cursor' < Len(order)
    BY <1>0, <1>2 DEF OrderConsistent, TypeOK
  <2> QED
    BY <1>0, <1>2, <2>1, <2>2 DEF Distance
<1> QED
  BY <1>3, <1>4

LEMMA ApproachingStep == Approaching /\ [Next]_vars => Approaching'
<1> SUFFICES ASSUME Approaching, [Next]_vars PROVE Approaching'
  OBVIOUS
<1>0. OrderConsistent'
  BY OrderStep DEF Approaching
<1>1. CASE Config
  <2>1. ASSUME NEW s \in StreamIds, BuildStream(s) PROVE Approaching'
    BY <1>0, <2>1, ApproachingUpsert DEF BuildStream
  <2>2. ASSUME NEW s \in StreamIds, UpdateStreamRuntime(s) PROVE Approaching'
    BY <1>0, <2>2, ApproachingUpsert DEF UpdateStreamRuntime
  <2>3. ASSUME NEW s \in StreamIds, RemoveStream(s) PROVE Approaching'
    <3>1. \A i \in 1 .. Len(order') : passed'[order'[i]] = 0
      BY <1>0, <2>3 DEF RemoveStream, OrderConsistent, TypeOK
    <3> QED
      BY <1>0, <3>1, ApproachingReset
  <2> QED
    BY <1>1, <2>1, <2>2, <2>3 DEF Config
<1>2. CASE \E s \in StreamIds : FrameReady(s)
  BY <1>0, <1>2, ApproachingReady
<1>3. CASE \E w \in Workers : Worker(w)
  <2>1. ASSUME NEW w \in Workers, EndTask(w) PROVE Approaching'
    BY <1>0, <2>1, ApproachingUnmoved DEF EndTask
  <2> QED
    BY <1>0, <1>3, <2>1, ApproachingAcquire DEF Worker
<1>4. CASE Stop \/ UNCHANGED vars
  BY <1>0, <1>4, ApproachingUnmoved DEF Stop, vars
<1> QED
  BY <1>1, <1>2, <1>3, <1>4 DEF Next

LEMMA ApproachingBounds == Approaching => BoundedWait
<1> SUFFICES ASSUME Approaching, NEW s \in DOMAIN entries PROVE passed[s] < Len(order)
  BY DEF BoundedWait
<1>1. OrderConsistent
  BY DEF Approaching
<1>2. PICK i \in 1 .. Len(order) : order[i] = s
  BY <1>1 DEF OrderConsistent
<1>3. Distance(i) \in 0 .. Len(order) - 1
  BY <1>1, IndexOfDistance
<1>4. passed[s] \in Nat /\ Len(order) \in Nat
  BY <1>1, SMTT(30) DEF OrderConsistent, TypeOK
<1>5. passed[s] + Distance(i) < Len(order)
  BY <1>2 DEF Approaching
<1> QED
  BY <1>3, <1>4, <1>5

(* However many streams and threads there are, tryAcquireLocked passes over an eligible
   stream fewer times than there are streams (InferScheduler.cpp:106-135). *)
THEOREM WaitIsBounded == Spec => []BoundedWait
<1>1. Init => Approaching
  <2> SUFFICES ASSUME Init PROVE Approaching
    OBVIOUS
  <2>1. Len(order) = 0
    BY DEF Init
  <2> QED
    BY <2>1, OrderInit DEF Approaching
<1> QED
  BY <1>1, ApproachingStep, ApproachingBounds, PTL DEF Spec

-----------------------------------------------------------------------------
(* One inference per stream. *)

HasTaskOf(w, s) == task[w] # NoTask /\ task[w][1] = s

(* What it takes: a new context of a stream is built only when no worker is still busy
   with the previous one.  The scheduler does not see to that. *)
NoRestartInFlight ==
    \A s \in StreamIds : generation'[s] # generation[s] => \A w \in Workers : ~HasTaskOf(w, s)

(* The flags are exact, no two workers have tasks of one stream, and the entry of a
   stream holds a buffer of that stream. *)
Exclusive ==
    /\ OrderConsistent
    /\ InflightExact
    /\ \A s \in StreamIds : \A v, w \in Workers : HasTaskOf(v, s) /\ HasTaskOf(w, s) => v = w
    /\ \A s \in DOMAIN entries : entries[s].buffer[1] = s

LEMMA ExclusiveInit == Init => Exclusive
<1> SUFFICES ASSUME Init PROVE Exclusive
  OBVIOUS
<1>1. OrderConsistent
  BY OrderInit
<1>2. DOMAIN entries = {}
  BY DEF Init
<1>3. \A w \in Workers : task[w] = NoTask
  BY DEF Init
<1> QED
  BY <1>1, <1>2, <1>3 DEF Exclusive, InflightExact, HasTaskOf

LEMMA ExclusiveUpsert ==
    ASSUME Exclusive, OrderConsistent', NEW s \in StreamIds, NEW buffer \in Buffers,
           buffer[1] = s, UpsertStream(s, buffer),
           s \in DOMAIN entries \/ \A w \in Workers : ~HasTaskOf(w, s)
    PROVE  Exclusive'
<1>1. DOMAIN entries' = DOMAIN entries \cup {s} /\ UNCHANGED task
  BY DEF UpsertStream
<1>2. /\ \A t \in DOMAIN entries : t # s => entries'[t] = entries[t]
      /\ entries'[s].buffer = buffer
      /\ entries'[s].inflight = (s \in DOMAIN entries /\ entries[s].inflight)
  BY DEF UpsertStream
<1>3. ASSUME NEW t \in DOMAIN entries'
      PROVE  entries'[t].inflight <=> \E w \in Workers : task'[w] # NoTask /\ task'[w][1] = t
  <2>1. CASE t # s
    BY <1>1, <1>2, <2>1 DEF Exclusive, InflightExact
  <2>2. CASE t = s /\ s \in DOMAIN entries
    BY <1>1, <1>2, <2>2 DEF Exclusive, InflightExact
  <2>3. CASE t = s /\ s \notin DOMAIN entries
    BY <1>1, <1>2, <2>3 DEF HasTaskOf
  <2> QED
    BY <2>1, <2>2, <2>3
<1>4. \A t \in DOMAIN entries' : entries'[t].buffer[1] = t
  BY <1>1, <1>2 DEF Exclusive
<1> QED
  BY <1>1, <1>3, <1>4 DEF Exclusive, InflightExact, HasTaskOf

LEMMA ExclusiveBuild ==
    ASSUME Exclusive, OrderConsistent', NEW s \in StreamIds, BuildStream(s), NoRestartInFlight
    PROVE  Exclusive'
<1>1. /\ generation[s] \in 0 .. MaxGeneration /\ generation[s] < MaxGeneration
      /\ generation'[s] = generation[s] + 1
  BY DEF BuildStream, Exclusive, OrderConsistent, TypeOK
<1>2. <<s, generation[s] + 1>> \in Buffers
  BY <1>1, SchedulerAssumption DEF Buffers
<1>3. \A w \in Workers : ~HasTaskOf(w, s)
  BY <1>1 DEF NoRestartInFlight
<1> QED
  BY <1>2, <1>3, ExclusiveUpsert DEF BuildStream

LEMMA ExclusiveAcquire ==
    ASSUME Exclusive, OrderConsistent', NEW w \in Workers, AcquireTask(w)
    PROVE  Exclusive'
<1>0. OrderConsistent /\ \A t \in DOMAIN entries : entries[t].buffer \in Buffers /\ t \in StreamIds
  BY DEF Exclusive, OrderConsistent, TypeOK
<1>1. PICK offset \in 0 .. Len(order) - 1 :
         LET s == order[Index(offset) + 1] IN
         /\ Eligible(s)
         /\ entries' = SetInflight(s, TRUE)
         /\ task' = [task EXCEPT ![w] = entries[s].buffer]
  BY DEF AcquireTask
<1> DEFINE s == order[Index(offset) + 1]
<1>2. s \in DOMAIN entries /\ ~entries[s].inflight
  BY <1>1 DEF Eligible
<1>3. /\ task[w] = NoTask /\ task \in [Workers -> Buffers \cup {NoTask}]
      /\ task' = [task EXCEPT ![w] = entries[s].buffer]
  BY <1>0, <1>1 DEF AcquireTask, OrderConsistent, TypeOK
<1>4. entries[s].buffer # NoTask /\ entries[s].buffer[1] = s
  BY <1>0, <1>2 DEF Exclusive, Buffers, NoTask
<1>5. \A v \in Workers : \A t \in StreamIds :
          HasTaskOf(v, t)' <=> (HasTaskOf(v, t) \/ (v = w /\ t = s))
  BY <1>3, <1>4 DEF HasTaskOf
<1>6. \A v \in Workers : ~HasTaskOf(v, s)
  BY <1>2 DEF Exclusive, InflightExact, HasTaskOf
<1>7. ~\E t \in StreamIds : HasTaskOf(w, t)
  BY <1>3 DEF HasTaskOf
<1>8. /\ DOMAIN entries' = DOMAIN entries
      /\ \A t \in DOMAIN entries : entries'[t].buffer = entries[t].buffer
      /\ \A t \in DOMAIN entries : entries'[t].inflight <=> (t = s \/ entries[t].inflight)
  BY <1>1 DEF SetInflight
<1>. HIDE DEF s
<1>9. \A t \in DOMAIN entries : entries[t].inflight <=> \E v \in Workers : HasTaskOf(v, t)
  BY DEF Exclusive, InflightExact, HasTaskOf
<1>10. \A t \in DOMAIN entries' : entries'[t].inflight <=> \E v \in Workers : HasTaskOf(v, t)'
  BY <1>0, <1>5, <1>8, <1>9
<1>11. InflightExact'
  BY <1>10 DEF InflightExact, HasTaskOf
<1>12. \A t \in StreamIds : \A u, v \in Workers : HasTaskOf(u, t)' /\ HasTaskOf(v, t)' => u = v
  BY <1>5, <1>6, <1>7 DEF Exclusive
<1>13. \A t \in DOMAIN entries' : entries'[t].buffer[1] = t
  BY <1>8 DEF Exclusive
<1> QED
  BY <1>11, <1>12, <1>13 DEF Exclusive

LEMMA ExclusiveEnd ==
    ASSUME Exclusive, OrderConsistent', NEW w \in Workers, EndTask(w)
    PROVE  Exclusive'
<1>0. OrderConsistent /\ \A t \in DOMAIN entries : t \in StreamIds
  BY DEF Exclusive, OrderConsistent, TypeOK
<1>1. task[w] # NoTask /\ task \in [Workers -> Buffers \cup {NoTask}]
  BY <1>0 DEF EndTask, OrderConsistent, TypeOK
<1> DEFINE s == task[w][1]
<1>2. s \in StreamIds /\ HasTaskOf(w, s)
  BY <1>1 DEF Buffers, HasTaskOf
<1>3. entries' = SetInflight(s, FALSE) /\ task' = [task EXCEPT ![w] = NoTask]
  BY DEF EndTask
<1>4. \A v \in Workers : \A t \in StreamIds : HasTaskOf(v, t)' <=> (HasTaskOf(v, t) /\ v # w)
  BY <1>1, <1>3 DEF HasTaskOf
<1>5. /\ DOMAIN entries' = DOMAIN entries
      /\ \A t \in DOMAIN entries : entries'[t].buffer = entries[t].buffer
      /\ \A t \in DOMAIN entries : entries'[t].inflight <=> (t # s /\ entries[t].inflight)
  BY <1>3 DEF SetInflight
<1>6. \A t \in StreamIds : HasTaskOf(w, t) => t = s
  BY DEF HasTaskOf
<1>. HIDE DEF s
<1>7. \A t \in DOMAIN entries : entries[t].inflight <=> \E v \in Workers : HasTaskOf(v, t)
  BY DEF Exclusive, InflightExact, HasTaskOf
<1>8. \A v \in Workers : HasTaskOf(v, s) => v = w
  BY <1>2 DEF Exclusive
<1>9. \A t \in DOMAIN entries' : entries'[t].inflight <=> \E v \in Workers : HasTaskOf(v, t)'
  BY <1>0, <1>4, <1>5, <1>6, <1>7, <1>8
<1>10. InflightExact'
  BY <1>9 DEF InflightExact, HasTaskOf
<1>11. \A t \in StreamIds : \A u, v \in Workers : HasTaskOf(u, t)' /\ HasTaskOf(v, t)' => u = v
  BY <1>4 DEF Exclusive
<1>12. \A t \in DOMAIN entries' : entries'[t].buffer[1] = t
  BY <1>5 DEF Exclusive
<1> QED
  BY <1>10, <1>11, <1>12 DEF Exclusive

LEMMA ExclusiveUnmoved ==
    ASSUME Exclusive, OrderConsistent', UNCHANGED <<entries, task>>
    PROVE  Exclusive'
BY DEF Exclusive, InflightExact, HasTaskOf

LEMMA ExclusiveStep == Exclusive /\ [Next]_vars /\ [NoRestartInFlight]_vars => Exclusive'
<1> SUFFICES ASSUME Exclusive, [Next]_vars, [NoRestartInFlight]_vars PROVE Exclusive'
  OBVIOUS
<1>0. OrderConsistent'
  BY OrderStep DEF Exclusive
<1>1. CASE Config
  <2>1. ASSUME NEW s \in StreamIds, BuildStream(s) PROVE Exclusive'
    <3>1. generation[s] \in 0 .. MaxGeneration /\ generation'[s] = generation[s] + 1
      BY <2>1 DEF BuildStream, Exclusive, OrderConsistent, TypeOK
    <3>2. NoRestartInFlight
      BY <3>1, SchedulerAssumption DEF vars
    <3> QED
      BY <1>0, <2>1, <3>2, ExclusiveBuild
  <2>2. ASSUME NEW s \in StreamIds, UpdateStreamRuntime(s) PROVE Exclusive'
    <3>1. entries[s].buffer \in Buffers /\ entries[s].buffer[1] = s /\ s \in DOMAIN entries
      BY <2>2 DEF UpdateStreamRuntime, Exclusive, OrderConsistent, TypeOK
    <3> QED
      BY <1>0, <2>2, <3>1, ExclusiveUpsert DEF UpdateStreamRuntime
  <2>3. ASSUME NEW s \in StreamIds, RemoveStream(s) PROVE Exclusive'
    <3>1. /\ DOMAIN entries' = DOMAIN entries \ {s} /\ UNCHANGED task
          /\ \A t \in DOMAIN entries' : entries'[t] = entries[t]
      BY <2>3 DEF RemoveStream
    <3> QED
      BY <1>0, <3>1 DEF Exclusive, InflightExact, HasTaskOf
  <2> QED
    BY <1>1, <2>1, <2>2, <2>3 DEF Config
<1>2. CASE \E s \in StreamIds : FrameReady(s)
  BY <1>0, <1>2, ExclusiveUnmoved DEF FrameReady
<1>3. CASE \E w \in Workers : Worker(w)
  BY <1>0, <1>3, ExclusiveAcquire, ExclusiveEnd DEF Worker
<1>4. CASE Stop \/ UNCHANGED vars
  BY <1>0, <1>4, ExclusiveUnmoved DEF Stop, vars
<1> QED
  BY <1>1, <1>2, <1>3, <1>4 DEF Next

LEMMA ExclusiveHolds == Spec /\ [][NoRestartInFlight]_vars => []Exclusive
BY ExclusiveInit, ExclusiveStep, PTL DEF Spec

LEMMA ExclusiveGives == Exclusive => OneInFlight /\ InflightExact
<1> SUFFICES ASSUME Exclusive, NEW v \in Workers, NEW w \in Workers,
                    task[v] # NoTask, task[v] = task[w]
             PROVE  v = w
  BY DEF Exclusive, OneInFlight
<1>1. task[v] \in Buffers
  BY DEF Exclusive, OrderConsistent, TypeOK
<1>2. task[v][1] \in StreamIds
  BY <1>1 DEF Buffers
<1> QED
  BY <1>2 DEF Exclusive, HasTaskOf

(* "Per-stream scheduling only guarantees one in-flight inference": it does, and the
   inflight flag is exact, as long as no stream is rebuilt while a worker is busy with it,
   however many workers there are (InferScheduler.cpp:73-91, 116, 125). *)
THEOREM OneInFlightUnlessRestarted ==
    Spec /\ [][NoRestartInFlight]_vars => []OneInFlight /\ []InflightExact
BY ExclusiveHolds, ExclusiveGives, PTL

(* A registered stream, and one a worker has a task of, has had a context built. *)
Built ==
    /\ OrderConsistent
    /\ \A s \in DOMAIN entries : generation[s] >= 1 /\ entries[s].buffer[1] = s
    /\ \A s \in StreamIds : \A w \in Workers : HasTaskOf(w, s) => generation[s] >= 1

LEMMA BuiltStep == Built /\ [Next]_vars => Built'
<1> SUFFICES ASSUME Built, [Next]_vars PROVE Built'
  OBVIOUS
<1>0. OrderConsistent' /\ OrderConsistent
  BY OrderStep DEF Built
<1>1. ASSUME NEW s \in StreamIds, BuildStream(s) PROVE Built'
  <2>1. /\ generation[s] \in 0 .. MaxGeneration /\ generation \in [StreamIds -> 0 .. MaxGeneration]
        /\ generation' = [generation EXCEPT ![s] = @ + 1]
    BY <1>0, <1>1 DEF BuildStream, OrderConsistent, TypeOK
  <2>2. \A t \in StreamIds : generation'[t] = generation[t] \/ generation'[t] >= 1
    BY <2>1, SchedulerAssumption
  <2>3. generation'[s] >= 1
    BY <2>1, SchedulerAssumption
  <2>4. /\ DOMAIN entries' = DOMAIN entries \cup {s} /\ UNCHANGED task
        /\ \A t \in DOMAIN entries : t # s => entries'[t] = entries[t]
        /\ entries'[s].buffer[1] = s
    BY <1>1 DEF BuildStream, UpsertStream
  <2>5. DOMAIN entries \subseteq StreamIds
    BY <1>0 DEF OrderConsistent, TypeOK
  <2> QED
    BY <1>0, <2>2, <2>3, <2>4, <2>5 DEF Built, HasTaskOf
<1>2. ASSUME NEW s \in StreamIds, UpdateStreamRuntime(s) PROVE Built'
  <2>1. /\ DOMAIN entries' = DOMAIN entries /\ UNCHANGED <<task, generation>>
        /\ \A t \in DOMAIN entries : entries'[t].buffer = entries[t].buffer
    BY <1>2 DEF UpdateStreamRuntime, UpsertStream
  <2> QED
    BY <1>0, <2>1 DEF Built, HasTaskOf
<1>3. ASSUME NEW s \in StreamIds, RemoveStream(s) PROVE Built'
  <2>1. /\ DOMAIN entries' \subseteq DOMAIN entries /\ UNCHANGED <<task, generation>>
        /\ \A t \in DOMAIN entries' : entries'[t] = entries[t]
    BY <1>3 DEF RemoveStream
  <2> QED
    BY <1>0, <2>1 DEF Built, HasTaskOf
<1>4. ASSUME NEW w \in Workers, AcquireTask(w) PROVE Built'
  <2>1. PICK offset \in 0 .. Len(order) - 1 :
         LET s == order[Index(offset) + 1] IN
         /\ Eligible(s)
         /\ entries' = SetInflight(s, TRUE)
         /\ task' = [task EXCEPT ![w] = entries[s].buffer]
    BY <1>4 DEF AcquireTask
  <2> DEFINE s == order[Index(offset) + 1]
  <2>2. s \in DOMAIN entries
    BY <2>1 DEF Eligible
  <2>3. /\ DOMAIN entries' = DOMAIN entries
        /\ \A t \in DOMAIN entries : entries'[t].buffer = entries[t].buffer
    BY <2>1 DEF SetInflight
  <2>4. UNCHANGED generation
    BY <1>4 DEF AcquireTask
  <2>5. entries[s].buffer[1] = s /\ generation[s] >= 1
    BY <2>2 DEF Built
  <2>6. \A v \in Workers : task'[v] = task[v] \/ task'[v] = entries[s].buffer
    BY <1>0, <2>1 DEF OrderConsistent, TypeOK
  <2> HIDE DEF s
  <2>7. \A t \in StreamIds : \A v \in Workers : HasTaskOf(v, t)' => HasTaskOf(v, t) \/ t = s
    BY <2>5, <2>6 DEF HasTaskOf
  <2>8. \A t \in StreamIds : \A v \in Workers : HasTaskOf(v, t)' => generation'[t] >= 1
    BY <2>4, <2>5, <2>7 DEF Built
  <2> QED
    BY <1>0, <2>3, <2>4, <2>8 DEF Built
<1>5. ASSUME NEW w \in Workers, EndTask(w) PROVE Built'
  <2>1. /\ DOMAIN entries' = DOMAIN entries /\ UNCHANGED generation
        /\ \A t \in DOMAIN entries : entries'[t].buffer = entries[t].buffer
    BY <1>5 DEF EndTask, SetInflight
  <2>2. \A v \in Workers : task'[v] = task[v] \/ task'[v] = NoTask
    BY <1>0, <1>5 DEF EndTask, OrderConsistent, TypeOK
  <2> QED
    BY <1>0, <2>1, <2>2 DEF Built, HasTaskOf
<1>6. ASSUME UNCHANGED <<entries, task, generation>> PROVE Built'
  BY <1>0, <1>6 DEF Built, HasTaskOf
<1>7. CASE \E s \in StreamIds : FrameReady(s)
  BY <1>6, <1>7 DEF FrameReady
<1>8. CASE Stop \/ UNCHANGED vars
  BY <1>6, <1>8 DEF Stop, vars
<1> QED
  BY <1>1, <1>2, <1>3, <1>4, <1>5, <1>7, <1>8 DEF Next, Config, Worker

(* A stream of which one context is ever built is not rebuilt at all. *)
LEMMA OneContextNoRestart ==
    ASSUME MaxGeneration = 1, Built, [Next]_vars
    PROVE  [NoRestartInFlight]_vars
<1>1. ASSUME NEW s \in StreamIds, BuildStream(s) PROVE NoRestartInFlight
  <2>1. /\ generation[s] = 0 /\ generation \in [StreamIds -> 0 .. MaxGeneration]
        /\ generation' = [generation EXCEPT ![s] = @ + 1]
    BY <1>1 DEF BuildStream, Built, OrderConsistent, TypeOK
  <2>2. \A t \in StreamIds : generation'[t] # generation[t] => t = s
    BY <2>1
  <2>3. \A w \in Workers : ~HasTaskOf(w, s)
    BY <2>1 DEF Built
  <2> QED
    BY <2>2, <2>3 DEF NoRestartInFlight
<1>2. ASSUME UNCHANGED generation PROVE NoRestartInFlight
  BY <1>2 DEF NoRestartInFlight
<1>3. CASE Config
  BY <1>1, <1>2, <1>3 DEF Config, UpdateStreamRuntime, RemoveStream
<1>4. CASE \E w \in Workers : Worker(w)
  BY <1>2, <1>4 DEF Worker, AcquireTask, EndTask
<1>5. CASE Stop \/ (\E s \in StreamIds : FrameReady(s))
  BY <1>2, <1>5 DEF Stop, FrameReady
<1> QED
  BY <1>3, <1>4, <1>5 DEF Next

(* With one context per stream id, any number of streams and of workers: no two workers
   run inference on one stream's buffer, no flag is left set, none is cleared too early. *)
THEOREM OneInFlightOfOneContext ==
    ASSUME MaxGeneration = 1
    PROVE  Spec => []OneInFlight /\ []InflightExact
<1>1. Init => Built
  <2> SUFFICES ASSUME Init PROVE Built
    OBVIOUS
  <2>1. OrderConsistent /\ DOMAIN entries = {} /\ \A w \in Workers : task[w] = NoTask
    BY OrderInit DEF Init
  <2> QED
    BY <2>1 DEF Built, HasTaskOf
<1>2. Built /\ [Next]_vars => [NoRestartInFlight]_vars
  BY OneContextNoRestart
<1> QED
  BY <1>1, <1>2, BuiltStep, OneInFlightUnlessRestarted, PTL DEF Spec

=============================================================================
