--------------------------- MODULE InferScheduler ---------------------------
(***************************************************************************)
(* The round-robin scheduler of src/pipeline/InferScheduler.cpp, shared by *)
(* the inference threads.  A stream id names a succession of stream        *)
(* contexts, each with a buffer of its own: a buffer is <<id, generation>>.*)
(* The buffer itself is reduced to one fact, whether                       *)
(* selectFrameForInference() would return a frame: it does after a decoded *)
(* frame has been enqueued, and no longer once one has been selected,      *)
(* since selecting marks every other frame Done.                           *)
(***************************************************************************)
EXTENDS Integers, Sequences, FiniteSets

CONSTANTS StreamIds,
          Workers,        \* inference threads
          MaxGeneration   \* bound: stream contexts built for one stream id

ASSUME SchedulerAssumption == MaxGeneration \in Nat \ {0}

VARIABLES
    entries,     \* entries_: stream id -> [buffer, inflight]
    order,       \* order_
    cursor,      \* cursor_, an index from 0
    stopped,     \* stopped_
    generation,  \* generation[s]: contexts built for s so far
    ready,       \* the buffers that have a frame to select
    task,        \* task[w]: the buffer worker w is running inference for
    passed       \* passed[s]: tasks given to other streams since s was last served,
                 \* became ready, or order_ changed

vars == <<entries, order, cursor, stopped, generation, ready, task, passed>>

Buffers == StreamIds \X (1 .. MaxGeneration)
NoTask == <<>>

TypeOK ==
    /\ DOMAIN entries \subseteq StreamIds
    /\ \A s \in DOMAIN entries : entries[s] \in [buffer : Buffers, inflight : BOOLEAN]
    /\ order \in Seq(StreamIds)
    /\ cursor \in Nat
    /\ stopped \in BOOLEAN
    /\ generation \in [StreamIds -> 0 .. MaxGeneration]
    /\ ready \subseteq Buffers
    /\ task \in [Workers -> Buffers \cup {NoTask}]
    /\ passed \in [StreamIds -> Nat]

Init ==
    /\ entries = [s \in {} |-> 0]
    /\ order = <<>>
    /\ cursor = 0
    /\ stopped = FALSE
    /\ generation = [s \in StreamIds |-> 0]
    /\ ready = {}
    /\ task = [w \in Workers |-> NoTask]
    /\ passed = [s \in StreamIds |-> 0]

InOrder(s) == \E i \in 1 .. Len(order) : order[i] = s

-----------------------------------------------------------------------------
(* Faulty variant: a runtime update resets the inflight flag. *)
UpsertResets(s, buffer) ==
    /\ entries' = [t \in DOMAIN entries \cup {s} |->
                      IF t # s THEN entries[t] ELSE [buffer |-> buffer, inflight |-> FALSE]]
    /\ order' = IF InOrder(s) THEN order ELSE Append(order, s)
    /\ passed' = IF InOrder(s) THEN passed ELSE [t \in StreamIds |-> 0]
    /\ UNCHANGED <<cursor, stopped, ready, task>>

(* upsertStream.  An entry that exists keeps its inflight flag, a new one starts
   with inflight = false, whatever is still running for an earlier one. *)
UpsertStream(s, buffer) ==
    /\ entries' = [t \in DOMAIN entries \cup {s} |->
                      IF t # s THEN entries[t]
                      ELSE [buffer |-> buffer,
                            inflight |-> s \in DOMAIN entries /\ entries[s].inflight]]
    /\ order' = IF InOrder(s) THEN order ELSE Append(order, s)
    /\ passed' = IF InOrder(s) THEN passed ELSE [t \in StreamIds |-> 0]
    /\ UNCHANGED <<cursor, stopped, ready, task>>

(* buildStreamContext registers a new context of the stream. *)
BuildStream(s) ==
    /\ generation[s] < MaxGeneration
    /\ generation' = [generation EXCEPT ![s] = @ + 1]
    /\ UpsertStream(s, <<s, generation[s] + 1>>)

(* updateStreamRuntime registers the buffer of the running context again. *)
UpdateStreamRuntime(s) ==
    /\ s \in DOMAIN entries
    /\ UpsertStream(s, entries[s].buffer)
    /\ UNCHANGED generation

(* order_ without the stream, which is in it at most once; std::remove keeps the
   order of the others. *)
OrderWithout(s) ==
    IF ~InOrder(s) THEN order
    ELSE LET at == CHOOSE i \in 1 .. Len(order) : order[i] = s
         IN  [i \in 1 .. Len(order) - 1 |-> IF i < at THEN order[i] ELSE order[i + 1]]

(* Faulty variant: the cursor is left where it was. *)
RemoveKeepsCursor(s) ==
    /\ entries' = [t \in DOMAIN entries \ {s} |-> entries[t]]
    /\ order' = OrderWithout(s)
    /\ passed' = [t \in StreamIds |-> 0]
    /\ UNCHANGED <<cursor, stopped, generation, ready, task>>

(* removeStream. *)
RemoveStream(s) ==
    /\ entries' = [t \in DOMAIN entries \ {s} |-> entries[t]]
    /\ order' = OrderWithout(s)
    /\ cursor' = IF cursor >= Len(order') THEN 0 ELSE cursor
    /\ passed' = [t \in StreamIds |-> 0]
    /\ UNCHANGED <<stopped, generation, ready, task>>

-----------------------------------------------------------------------------
(* A decoded frame is enqueued in the buffer of a context that has been built. *)
FrameReady(s) ==
    \E g \in 1 .. generation[s] :
        /\ <<s, g>> \notin ready
        /\ ready' = ready \cup {<<s, g>>}
        /\ passed' = [passed EXCEPT ![s] = 0]
        /\ UNCHANGED <<entries, order, cursor, stopped, generation, task>>

(* Faulty variant: the inflight flag is not looked at. *)
EligibleInflight(s) == s \in DOMAIN entries /\ entries[s].buffer \in ready

Eligible(s) == s \in DOMAIN entries /\ ~entries[s].inflight /\ entries[s].buffer \in ready

(* The index, from 0, of the offset-th stream from the cursor. *)
Index(offset) == (cursor + offset) % Len(order)

(* Faulty variant: the cursor stays on the stream that is served. *)
CursorStays(offset) == Index(offset)

(* Where the next search starts when the offset-th stream has been served. *)
NextCursor(offset) == (Index(offset) + 1) % Len(order)

(* entry.inflight = flag, if the stream has an entry. *)
SetInflight(s, flag) ==
    [t \in DOMAIN entries |->
        IF t = s THEN [buffer |-> entries[t].buffer, inflight |-> flag] ELSE entries[t]]

(* tryAcquireLocked: the first eligible stream from the cursor on is served. *)
AcquireTask(w) ==
    /\ ~stopped
    /\ task[w] = NoTask
    /\ \E offset \in 0 .. Len(order) - 1 :
          LET s == order[Index(offset) + 1] IN
          /\ Eligible(s)
          /\ \A o \in 0 .. offset - 1 : ~Eligible(order[Index(o) + 1])
          /\ entries' = SetInflight(s, TRUE)
          /\ cursor' = NextCursor(offset)
          /\ task' = [task EXCEPT ![w] = entries[s].buffer]
          /\ ready' = ready \ {entries[s].buffer}
          /\ passed' = [t \in StreamIds |-> IF t # s /\ Eligible(t) THEN passed[t] + 1 ELSE 0]
    /\ UNCHANGED <<order, stopped, generation>>

(* completeTask and cancelTask, which have the same body: the flag that is cleared
   is that of the entry the id has now. *)
EndTask(w) ==
    /\ task[w] # NoTask
    /\ entries' = SetInflight(task[w][1], FALSE)
    /\ task' = [task EXCEPT ![w] = NoTask]
    /\ UNCHANGED <<order, cursor, stopped, generation, ready, passed>>

Stop ==
    /\ ~stopped
    /\ stopped' = TRUE
    /\ UNCHANGED <<entries, order, cursor, generation, ready, task, passed>>

Config == \E s \in StreamIds : BuildStream(s) \/ UpdateStreamRuntime(s) \/ RemoveStream(s)

Worker(w) == AcquireTask(w) \/ EndTask(w)

Next ==
    \/ Config
    \/ \E s \in StreamIds : FrameReady(s)
    \/ \E w \in Workers : Worker(w)
    \/ Stop

Spec == Init /\ [][Next]_vars

(* Inference threads are scheduled fairly: acquireTask waits at most 200 ms and is
   called again.  Nothing is assumed of the configuration or of the frames. *)
FairSpec == Spec /\ \A w \in Workers : WF_vars(AcquireTask(w)) /\ WF_vars(EndTask(w))

-----------------------------------------------------------------------------
(* Properties. *)

(* The state has its type, cursor_ is a valid index of order_ whenever there is a
   stream, and order_ lists each registered stream exactly once: tryAcquireLocked
   neither skips a stream nor serves one that has been removed. *)
OrderConsistent ==
    /\ TypeOK
    /\ cursor < Len(order) \/ (order = <<>> /\ cursor = 0)
    /\ \A i, j \in 1 .. Len(order) : order[i] = order[j] => i = j
    /\ DOMAIN entries = {order[i] : i \in 1 .. Len(order)}

(* "Per-stream scheduling only guarantees one in-flight inference": no two workers
   run inference on the same buffer. *)
OneInFlight == \A v, w \in Workers : task[v] # NoTask /\ task[v] = task[w] => v = w

(* The inflight flag of a registered stream is set exactly while a worker has a
   task of the stream, so that no stream is locked out for ever and no worker's
   frame is taken from it. *)
InflightExact ==
    \A s \in DOMAIN entries :
        entries[s].inflight <=> \E w \in Workers : task[w] # NoTask /\ task[w][1] = s

(* Round robin: while the set of streams does not change, an eligible stream is
   passed over at most once by each of the others. *)
BoundedWait == \A s \in DOMAIN entries : Eligible(s) => passed[s] < Len(order)

(* An eligible stream is eventually served, unless it is removed or the scheduler
   is stopped. *)
EventuallyServed ==
    \A s \in StreamIds :
        Eligible(s) ~> (\E w \in Workers : task[w] # NoTask /\ task[w][1] = s)
                       \/ s \notin DOMAIN entries \/ stopped
=============================================================================
