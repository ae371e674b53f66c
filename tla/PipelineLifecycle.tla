------------------------- MODULE PipelineLifecycle -------------------------
(***************************************************************************)
(* The life of the streams in src/pipeline/Pipeline.cpp: the configuration *)
(* received from the socket (handleSocketConfig), the config thread that   *)
(* applies it (mainLoop, applyConfigBatch), the puller threads that ask    *)
(* for the stop of their own stream (requestAsyncStopStream), and the main *)
(* thread that shuts everything down (Pipeline::stop).  What the threads   *)
(* of one running stream do is in StreamPipeline.                          *)
(***************************************************************************)
EXTENDS Integers, Sequences, FiniteSets

CONSTANTS NumStreams,     \* stream ids are 1 .. NumStreams, in the order of std::map
          Transports,     \* values of the transport part of a StreamConfig
          Runtimes,       \* values of the rest of a StreamConfig
          MaxConfigs,     \* bound: configurations received
          MaxAsyncStops   \* bound: failures of the publisher's configure

ASSUME LifecycleAssumption ==
    NumStreams \in Nat /\ MaxConfigs \in Nat /\ MaxAsyncStops \in Nat

StreamIds == 1 .. NumStreams
StreamConfigs == [transport : Transports, runtime : Runtimes]

(* The results of buildMergedStreams: a configuration for some of the streams. *)
MergedStreams == UNION {[ids -> StreamConfigs] : ids \in SUBSET StreamIds}
NoStreams == [id \in {} |-> 0]

(* The threads that execute stopStream. *)
Threads == {"config", "main"}

VARIABLES
    wanted,      \* buildMergedStreams(configs_)
    hasPending,  \* has_pending_config_
    pendingStop, \* pending_stop_streams_
    stopFlag,    \* Pipeline::stop_flag_
    streams,     \* streams_: stream id -> context
    ctx,         \* the StreamContexts built so far, numbered in that order
    sched,       \* infer_scheduler_: stream id -> context whose buffer is registered
    config,      \* [pc, update, desired, updates, starts] of the config thread
    main,        \* progress of Pipeline::stop
    stops,       \* stops[t]: contexts thread t has still to stop
    inStop,      \* inStop[t]: t is inside stopStream for the first of them
    received,    \* configurations received so far
    asyncStops   \* failures of the publisher's configure so far

vars == <<wanted, hasPending, pendingStop, stopFlag, streams, ctx, sched, config,
          main, stops, inStop, received, asyncStops>>

Contexts == [sid : StreamIds, cfg : StreamConfigs,
             stop_flag : BOOLEAN,                          \* StreamContext::stop_flag
             puller : {"running", "erase", "push", "joined"},
             down : BOOLEAN]                               \* stopStream has ended for it

ConfigPcs == {"top", "pred", "blocking", "waiting", "batch", "apply", "check", "insert", "exited"}
MainPcs == {"up", "swapStreams", "swapPending", "stopping", "joined", "stopped"}

TypeOK ==
    /\ wanted \in MergedStreams
    /\ hasPending \in BOOLEAN
    /\ pendingStop \in Seq(DOMAIN ctx)
    /\ stopFlag \in BOOLEAN
    /\ DOMAIN streams \subseteq StreamIds
    /\ \A id \in DOMAIN streams : streams[id] \in DOMAIN ctx /\ ctx[streams[id]].sid = id
    /\ ctx \in Seq(Contexts)
    /\ DOMAIN sched \subseteq StreamIds
    /\ \A id \in DOMAIN sched : sched[id] \in DOMAIN ctx
    /\ config \in [pc : ConfigPcs, update : BOOLEAN, desired : MergedStreams,
                   updates : Seq(DOMAIN ctx), starts : Seq(StreamIds)]
    /\ main \in MainPcs
    /\ stops \in [Threads -> Seq(DOMAIN ctx)]
    /\ inStop \in [Threads -> BOOLEAN]
    /\ received \in 0 .. MaxConfigs
    /\ asyncStops \in 0 .. MaxAsyncStops

Init ==
    /\ wanted = NoStreams
    /\ hasPending = FALSE
    /\ pendingStop = <<>>
    /\ stopFlag = FALSE
    /\ streams = NoStreams
    /\ ctx = <<>>
    /\ sched = NoStreams
    /\ config = [pc |-> "top", update |-> FALSE, desired |-> NoStreams,
                 updates |-> <<>>, starts |-> <<>>]
    /\ main = "up"
    /\ stops = [t \in Threads |-> <<>>]
    /\ inStop = [t \in Threads |-> FALSE]
    /\ received = 0
    /\ asyncStops = 0

-----------------------------------------------------------------------------
Without(f, ids) == [id \in DOMAIN f \ ids |-> f[id]]
With(f, id, v) == [i \in DOMAIN f \cup {id} |-> IF i = id THEN v ELSE f[i]]

(* The ids of a set, in the order of the map: the k-th has k - 1 before it. *)
InOrder(ids) ==
    [k \in 1 .. Cardinality(ids) |->
        CHOOSE id \in ids : Cardinality({i \in ids : i < id}) = k - 1]
ContextsOf(ids) == [i \in 1 .. Len(InOrder(ids)) |-> streams[InOrder(ids)[i]]]

(* Between evaluating the predicate and blocking in config_cv_.wait the config
   thread holds config_mutex_; everyone else holds it only within a step. *)
ConfigMutexFree == config.pc # "blocking"
Goto(pc) == config' = [config EXCEPT !.pc = pc]
NotifyConfig == config' = [config EXCEPT !.pc = IF @ = "waiting" THEN "pred" ELSE @]

-----------------------------------------------------------------------------
(* Faulty variant: config_mutex_ is not taken. *)
HandleConfigUnlocked ==
    /\ main # "stopped"
    /\ received < MaxConfigs
    /\ wanted' \in MergedStreams
    /\ hasPending' = TRUE
    /\ NotifyConfig
    /\ received' = received + 1
    /\ UNCHANGED <<pendingStop, stopFlag, streams, ctx, sched, main, stops, inStop, asyncStops>>

(* handleSocketConfig on the socket's thread, for a configuration of this agent;
   one for another agent is ignored. *)
HandleSocketConfig ==
    /\ main # "stopped"
    /\ received < MaxConfigs
    /\ ConfigMutexFree
    /\ wanted' \in MergedStreams
    /\ hasPending' = TRUE
    /\ NotifyConfig
    /\ received' = received + 1
    /\ UNCHANGED <<pendingStop, stopFlag, streams, ctx, sched, main, stops, inStop, asyncStops>>

-----------------------------------------------------------------------------
(* requestAsyncStopStream on the puller thread of context c, when the publisher
   cannot be configured for the stream that has just been opened.  The flag is
   exchanged, then streams_ and pending_stop_streams_ are each updated under their
   own mutex. *)
AsyncFlag(c) ==
    /\ asyncStops < MaxAsyncStops
    /\ ctx[c].puller = "running" /\ ~ctx[c].stop_flag
    /\ ctx' = [ctx EXCEPT ![c].stop_flag = TRUE, ![c].puller = "erase"]
    /\ asyncStops' = asyncStops + 1
    /\ UNCHANGED <<wanted, hasPending, pendingStop, stopFlag, streams, sched, config, main, stops,
                   inStop, received>>

AsyncErase(c) ==
    /\ ctx[c].puller = "erase"
    /\ streams' = Without(streams, {id \in DOMAIN streams : streams[id] = c})
    /\ ctx' = [ctx EXCEPT ![c].puller = "push"]
    /\ UNCHANGED <<wanted, hasPending, pendingStop, stopFlag, sched, config, main, stops, inStop,
                   received, asyncStops>>

AsyncPush(c) ==
    /\ ctx[c].puller = "push"
    /\ ConfigMutexFree
    /\ pendingStop' = Append(pendingStop, c)
    /\ NotifyConfig
    /\ ctx' = [ctx EXCEPT ![c].puller = "running"]
    /\ UNCHANGED <<wanted, hasPending, stopFlag, streams, sched, main, stops, inStop, received,
                   asyncStops>>

-----------------------------------------------------------------------------
(* Faulty variant: the scheduler keeps the entry. *)
StopKeepsEntry(t) ==
    /\ stops[t] # <<>> /\ ~inStop[t] /\ (t = "main" => main = "stopping")
    /\ ctx' = [ctx EXCEPT ![Head(stops[t])].stop_flag = TRUE]
    /\ inStop' = [inStop EXCEPT ![t] = TRUE]
    /\ UNCHANGED <<wanted, hasPending, pendingStop, stopFlag, streams, sched, config, main, stops,
                   received, asyncStops>>

(* stopStream on thread t.  The scheduler's entry is removed by stream id, whoever
   it belongs to; then the puller and the publish thread are joined. *)
StopStreamBegin(t) ==
    /\ stops[t] # <<>> /\ ~inStop[t] /\ (t = "main" => main = "stopping")
    /\ LET c == Head(stops[t]) IN
       /\ ctx' = [ctx EXCEPT ![c].stop_flag = TRUE]
       /\ sched' = Without(sched, {ctx[c].sid})
    /\ inStop' = [inStop EXCEPT ![t] = TRUE]
    /\ UNCHANGED <<wanted, hasPending, pendingStop, stopFlag, streams, config, main, stops, received,
                   asyncStops>>

StopStreamEnd(t) ==
    /\ inStop[t]
    /\ LET c == Head(stops[t]) IN
       /\ ctx[c].puller \in {"running", "joined"}
       /\ ctx' = [ctx EXCEPT ![c].puller = "joined", ![c].down = TRUE]
    /\ stops' = [stops EXCEPT ![t] = Tail(@)]
    /\ inStop' = [inStop EXCEPT ![t] = FALSE]
    /\ UNCHANGED <<wanted, hasPending, pendingStop, stopFlag, streams, sched, config, main, received,
                   asyncStops>>

-----------------------------------------------------------------------------
(* The config thread: mainLoop. *)

LoopTop ==
    /\ config.pc = "top"
    /\ Goto(IF stopFlag THEN "exited" ELSE "pred")
    /\ UNCHANGED <<wanted, hasPending, pendingStop, stopFlag, streams, ctx, sched, main, stops, inStop,
                   received, asyncStops>>

(* Faulty variant: the predicate does not look at pending_stop_streams_. *)
PredicateIgnoresStops ==
    /\ config.pc = "pred"
    /\ ~stopFlag /\ ~hasPending
    /\ Goto("blocking")
    /\ UNCHANGED <<wanted, hasPending, pendingStop, stopFlag, streams, ctx, sched, main, stops, inStop,
                   received, asyncStops>>

(* The predicate of config_cv_.wait, evaluated with config_mutex_ held. *)
PredicateFalse ==
    /\ config.pc = "pred"
    /\ ~stopFlag /\ ~hasPending /\ pendingStop = <<>>
    /\ Goto("blocking")
    /\ UNCHANGED <<wanted, hasPending, pendingStop, stopFlag, streams, ctx, sched, main, stops, inStop,
                   received, asyncStops>>

Block ==
    /\ config.pc = "blocking"
    /\ Goto("waiting")
    /\ UNCHANGED <<wanted, hasPending, pendingStop, stopFlag, streams, ctx, sched, main, stops, inStop,
                   received, asyncStops>>

SpuriousWakeup ==
    /\ config.pc = "waiting"
    /\ Goto("pred")
    /\ UNCHANGED <<wanted, hasPending, pendingStop, stopFlag, streams, ctx, sched, main, stops, inStop,
                   received, asyncStops>>

LoopBreak ==
    /\ config.pc = "pred" /\ stopFlag
    /\ Goto("exited")
    /\ UNCHANGED <<wanted, hasPending, pendingStop, stopFlag, streams, ctx, sched, main, stops, inStop,
                   received, asyncStops>>

(* The batch is taken: the streams to stop are stopped first. *)
TakeBatch ==
    /\ config.pc = "pred"
    /\ ~stopFlag
    /\ hasPending \/ pendingStop # <<>>
    /\ config' = [config EXCEPT !.pc = "batch", !.update = hasPending, !.desired = wanted]
    /\ hasPending' = FALSE
    /\ stops' = [stops EXCEPT !["config"] = pendingStop]
    /\ pendingStop' = <<>>
    /\ UNCHANGED <<wanted, stopFlag, streams, ctx, sched, main, inStop, received, asyncStops>>

NoUpdate ==
    /\ config.pc = "batch" /\ stops["config"] = <<>>
    /\ ~config.update
    /\ Goto("top")
    /\ UNCHANGED <<wanted, hasPending, pendingStop, stopFlag, streams, ctx, sched, main, stops, inStop,
                   received, asyncStops>>

(* applyConfigBatch under streams_mutex_.  A stream whose transport has changed is
   put on the list of streams to start, and again because it is missing now. *)
CompareStreams ==
    /\ config.pc = "batch" /\ stops["config"] = <<>>
    /\ config.update
    /\ LET desired == config.desired
           gone == DOMAIN streams \ DOMAIN desired
           moved == {id \in DOMAIN streams \cap DOMAIN desired :
                        ctx[streams[id]].cfg.transport # desired[id].transport}
           kept == DOMAIN streams \ (gone \cup moved)
           updated == {id \in kept : ctx[streams[id]].cfg.runtime # desired[id].runtime}
       IN  /\ streams' = Without(streams, gone \cup moved)
           /\ ctx' = [c \in DOMAIN ctx |->
                         IF \E id \in updated : streams[id] = c
                         THEN [ctx[c] EXCEPT !.cfg = desired[ctx[c].sid]] ELSE ctx[c]]
           /\ stops' = [stops EXCEPT !["config"] = ContextsOf(gone \cup moved)]
           /\ config' = [config EXCEPT !.pc = "apply", !.updates = ContextsOf(updated),
                            !.starts = InOrder(moved) \o InOrder(DOMAIN desired \ kept)]
    /\ UNCHANGED <<wanted, hasPending, pendingStop, stopFlag, sched, main, inStop, received, asyncStops>>

(* updateStreamRuntime: the detector is replaced and the buffer registered again. *)
UpdateStreamRuntime ==
    /\ config.pc = "apply" /\ stops["config"] = <<>>
    /\ config.updates # <<>>
    /\ LET c == Head(config.updates) IN sched' = With(sched, ctx[c].sid, c)
    /\ config' = [config EXCEPT !.updates = Tail(@)]
    /\ UNCHANGED <<wanted, hasPending, pendingStop, stopFlag, streams, ctx, main, stops, inStop,
                   received, asyncStops>>

(* The streams to start are taken up after the updates. *)
Starting == config.pc = "apply" /\ stops["config"] = <<>> /\ config.updates = <<>>

(* Faulty variant: the context is given up, its scheduler entry is not. *)
BuildLeavesEntry ==
    /\ Starting /\ config.starts # <<>>
    /\ sched' = With(sched, Head(config.starts), Len(ctx) + 1)
    /\ config' = [config EXCEPT !.starts = Tail(@)]
    /\ UNCHANGED <<wanted, hasPending, pendingStop, stopFlag, streams, ctx, main, stops, inStop,
                   received, asyncStops>>

(* buildStreamContext: registered with the scheduler, threads started. *)
BuildStreamContext ==
    /\ Starting /\ config.starts # <<>>
    /\ LET id == Head(config.starts) IN
       /\ ctx' = Append(ctx, [sid |-> id, cfg |-> config.desired[id], stop_flag |-> FALSE,
                              puller |-> "running", down |-> FALSE])
       /\ sched' = With(sched, id, Len(ctx) + 1)
    /\ config' = [config EXCEPT !.pc = "check", !.starts = Tail(@)]
    /\ UNCHANGED <<wanted, hasPending, pendingStop, stopFlag, streams, main, stops, inStop, received,
                   asyncStops>>

(* The stop_flag of the new context is tested before streams_mutex_ is taken. *)
CheckBuilt ==
    /\ config.pc = "check"
    /\ IF ctx[Len(ctx)].stop_flag
       THEN Goto("apply") /\ stops' = [stops EXCEPT !["config"] = <<Len(ctx)>>]
       ELSE Goto("insert") /\ UNCHANGED stops
    /\ UNCHANGED <<wanted, hasPending, pendingStop, stopFlag, streams, ctx, sched, main, inStop,
                   received, asyncStops>>

InsertStream ==
    /\ config.pc = "insert"
    /\ streams' = With(streams, ctx[Len(ctx)].sid, Len(ctx))
    /\ Goto("apply")
    /\ UNCHANGED <<wanted, hasPending, pendingStop, stopFlag, ctx, sched, main, stops, inStop, received,
                   asyncStops>>

(* Faulty variant: has_pending_config_ is cleared when the batch has been applied. *)
BatchDoneClears ==
    /\ Starting /\ config.starts = <<>>
    /\ Goto("top")
    /\ hasPending' = FALSE
    /\ UNCHANGED <<wanted, pendingStop, stopFlag, streams, ctx, sched, main, stops, inStop, received,
                   asyncStops>>

BatchDone ==
    /\ Starting /\ config.starts = <<>>
    /\ Goto("top")
    /\ UNCHANGED <<wanted, hasPending, pendingStop, stopFlag, streams, ctx, sched, main, stops, inStop,
                   received, asyncStops>>

-----------------------------------------------------------------------------
(* The main thread: Pipeline::stop. *)

(* stop_flag_ is set and config_cv_ notified without config_mutex_. *)
Stop ==
    /\ main = "up"
    /\ main' = "swapStreams"
    /\ stopFlag' = TRUE
    /\ NotifyConfig
    /\ UNCHANGED <<wanted, hasPending, pendingStop, streams, ctx, sched, stops, inStop, received,
                   asyncStops>>

SwapStreams ==
    /\ main = "swapStreams"
    /\ main' = "swapPending"
    /\ stops' = [stops EXCEPT !["main"] = ContextsOf(DOMAIN streams)]
    /\ streams' = NoStreams
    /\ UNCHANGED <<wanted, hasPending, pendingStop, stopFlag, ctx, sched, config, inStop, received,
                   asyncStops>>

SwapPendingStops ==
    /\ main = "swapPending"
    /\ ConfigMutexFree
    /\ main' = "stopping"
    /\ stops' = [stops EXCEPT !["main"] = @ \o pendingStop]
    /\ pendingStop' = <<>>
    /\ UNCHANGED <<wanted, hasPending, stopFlag, streams, ctx, sched, config, inStop, received,
                   asyncStops>>

JoinThreads ==
    /\ main = "stopping" /\ stops["main"] = <<>>
    /\ config.pc = "exited"
    /\ main' = "joined"
    /\ UNCHANGED <<wanted, hasPending, pendingStop, stopFlag, streams, ctx, sched, config, stops, inStop,
                   received, asyncStops>>

(* ipc_->stop(), and what is left of the configuration is forgotten. *)
FinishStop ==
    /\ main = "joined"
    /\ main' = "stopped"
    /\ wanted' = NoStreams
    /\ pendingStop' = <<>>
    /\ hasPending' = FALSE
    /\ sched' = NoStreams
    /\ UNCHANGED <<stopFlag, streams, ctx, config, stops, inStop, received, asyncStops>>

Stopped == main = "stopped" /\ UNCHANGED vars

-----------------------------------------------------------------------------
StopStream(t) == StopStreamBegin(t) \/ StopStreamEnd(t)

ConfigThread ==
    \/ LoopTop \/ PredicateFalse \/ Block \/ LoopBreak \/ TakeBatch \/ NoUpdate
    \/ CompareStreams \/ UpdateStreamRuntime
    \/ BuildStreamContext \/ CheckBuilt \/ InsertStream \/ BatchDone
    \/ StopStream("config")

MainThread == SwapStreams \/ SwapPendingStops \/ StopStream("main") \/ JoinThreads \/ FinishStop

AsyncStop(c) == AsyncErase(c) \/ AsyncPush(c)

Next ==
    \/ HandleSocketConfig
    \/ \E c \in DOMAIN ctx : AsyncFlag(c) \/ AsyncStop(c)
    \/ ConfigThread
    \/ SpuriousWakeup
    \/ Stop \/ MainThread
    \/ Stopped

Spec == Init /\ [][Next]_vars

(* Threads are scheduled fairly, and a thread that waits for config_mutex_ gets it
   in the end (SF), even if the config thread keeps waking up for nothing.  Nothing
   is assumed of the socket, of failures, of the signal that stops the program, or
   of spurious wake-ups. *)
FairSpec ==
    /\ Spec
    /\ WF_vars(ConfigThread)
    /\ SF_vars(MainThread)
    /\ SF_vars(\E c \in DOMAIN ctx : AsyncStop(c))

-----------------------------------------------------------------------------
(* Properties. *)

(* The config thread waits and has been given nothing more to do. *)
Quiet ==
    /\ config.pc = "waiting" /\ ~hasPending /\ pendingStop = <<>> /\ ~stopFlag
    /\ \A c \in DOMAIN ctx : ctx[c].puller \notin {"erase", "push"}

(* When the config thread has caught up, streams_ is what the last configuration
   asks for, although batches are coalesced and streams are stopped, started and
   updated outside streams_mutex_: nothing else is listed, every listed stream has
   the wanted configuration, and only a stream whose publisher failed is missing. *)
Converged ==
    Quiet =>
        /\ DOMAIN streams \subseteq DOMAIN wanted
        /\ \A id \in DOMAIN streams : ctx[streams[id]].cfg = wanted[id]
        /\ \A id \in DOMAIN wanted \ DOMAIN streams :
              \E c \in DOMAIN ctx : ctx[c].sid = id /\ ctx[c].down

(* When the config thread has caught up, an entry of the scheduler is that of the
   listed context of its stream, although stopStream removes entries and upsertStream
   replaces them by stream id, and a stream may be started twice in one batch: no
   entry has the buffer of a context that was replaced or is not listed any more.
   The listed context may itself have been asked to stop, and a listed stream need not
   have an entry. *)
EntryOfListed ==
    Quiet => \A id \in DOMAIN sched : id \in DOMAIN streams /\ streams[id] = sched[id]

(* A configuration that has been received is eventually applied: the wake-up of the
   config thread is not lost. *)
ConfigApplied == hasPending ~> Quiet \/ stopFlag

(* A stream that asked for its own stop is eventually stopped. *)
AsyncStopServed ==
    \A c \in 1 .. (2 * NumStreams * MaxConfigs) :
        (c \in DOMAIN ctx /\ ctx[c].stop_flag)
            ~> (c \in DOMAIN ctx /\ ctx[c].down) \/ stopFlag

(* Pipeline::stop returns, and every stream ever built has been stopped when it does:
   its notification of the config thread is not lost, and no context is inserted
   behind its back. *)
StopCompletes == stopFlag ~> main = "stopped" /\ \A c \in DOMAIN ctx : ctx[c].down

(* A stream is pulled once: while the program is not being stopped, there are no two
   contexts of one stream id that nobody has asked to stop.  A context that has been
   asked to stop may still be pulling when its successor starts. *)
OnePullPerStream ==
    ~stopFlag =>
        \A c, d \in DOMAIN ctx :
            ctx[c].sid = ctx[d].sid /\ ~ctx[c].stop_flag /\ ~ctx[d].stop_flag => c = d
=============================================================================
