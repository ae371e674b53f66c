------------------------ MODULE StreamConfiguration ------------------------
(***************************************************************************)
(* What the configurations received from the platform make of the running  *)
(* streams (src/pipeline/Pipeline.cpp): handleSocketConfig stores them by   *)
(* config_id, mainLoop takes a copy, applyConfigBatch merges it            *)
(* (ConfigFilter) and stops, starts or updates streams.  Contents only:    *)
(* the threads and locks of these functions are in PipelineLifecycle.      *)
(***************************************************************************)
EXTENDS ConfigFilter, TLC

CONSTANTS ConfigIds,      \* values of AgentConfig.config_id
          AgentConfigs,   \* the AgentConfigs the platform may send
          MaxConfigs      \* bound: configurations received

ASSUME ConfigurationAssumption ==
    ConfigIds \subseteq Int /\ MaxConfigs \in Nat

VARIABLES
    configs,   \* configs_: config_id -> AgentConfig
    pending,   \* has_pending_config_
    batch,     \* the copies mainLoop has still to apply: none or one
    streams,   \* streams_: stream_id -> the parts of its context that hold configuration
    received,  \* configurations received so far
    applied    \* batches applied so far, used to tell instances apart

vars == <<configs, pending, batch, streams, received, applied>>

NoConfigs == [k \in {} |-> <<>>]
NoDetector == [algorithms |-> <<>>, made |-> 0]

(* The merged configurations only consist of parts the platform has sent. *)
Sent(field) == {cfg[field] : cfg \in UNION {ToSet(c) : c \in AgentConfigs}}
SentAlgorithms == UNION {ToSet(a) : a \in Sent("algorithms")}

IsStreamConfig(cfg) ==
    /\ DOMAIN cfg = {"enabled", "stream_id", "transport", "alarm_dedup", "algorithms", "tracker"}
    /\ cfg.enabled /\ cfg.stream_id # "" /\ cfg.transport # ""
    /\ cfg.transport \in Sent("transport")
    /\ cfg.alarm_dedup \in Sent("alarm_dedup")
    /\ cfg.algorithms \in Seq(SentAlgorithms)
    /\ cfg.tracker \in Sent("tracker") \cup {""}

TypeOK ==
    /\ DOMAIN configs \subseteq ConfigIds
    /\ \A k \in DOMAIN configs : configs[k] \in AgentConfigs
    /\ pending \in BOOLEAN
    /\ Len(batch) <= 1
    /\ \A id \in DOMAIN streams :
          LET stream == streams[id] IN
          /\ IsStreamConfig(stream.transport_config)
          /\ IsStreamConfig(stream.runtime_config)
          /\ IsStreamConfig(stream.detector_config)
          /\ stream.transport_config.stream_id = id
          /\ stream.detector.made \in 0 .. applied
          /\ stream.built \in 1 .. applied
    /\ received \in 0 .. MaxConfigs
    /\ applied \in 0 .. received

Init ==
    /\ configs = NoConfigs
    /\ pending = FALSE
    /\ batch = <<>>
    /\ streams = [id \in {} |-> 0]
    /\ received = 0
    /\ applied = 0

-----------------------------------------------------------------------------
(* A configuration addressed to this agent; others are ignored. *)
HandleSocketConfig(k, cfg) ==
    /\ received < MaxConfigs
    /\ configs' = (k :> cfg) @@ configs
    /\ pending' = TRUE
    /\ received' = received + 1
    /\ UNCHANGED <<batch, streams, applied>>

(* mainLoop copies configs_ under the lock and applies the copy after it. *)
TakeBatch ==
    /\ pending /\ batch = <<>>
    /\ batch' = <<configs>>
    /\ pending' = FALSE
    /\ UNCHANGED <<configs, streams, received, applied>>

(* DetectorFactory::create and init(), which may fail; without algorithms there is
   no detector. *)
MakeDetector(cfg, loads) ==
    IF cfg.algorithms = <<>> \/ ~loads THEN NoDetector
    ELSE [algorithms |-> cfg.algorithms, made |-> applied + 1]

BuildStreamContext(cfg, loads) ==
    [transport_config |-> MakeTransportStreamConfig(cfg), runtime_config |-> cfg,
     detector_config |-> cfg, detector |-> MakeDetector(cfg, loads), built |-> applied + 1]

(* runtime_config is set by applyConfigBatch, the rest by updateStreamRuntime. *)
UpdateStreamRuntime(stream, runtime, loads) ==
    [transport_config |-> stream.transport_config, runtime_config |-> runtime,
     detector_config |-> runtime,
     detector |-> IF HasDetectorConfigChanged(stream.detector_config, runtime)
                  THEN MakeDetector(runtime, loads) ELSE stream.detector,
     built |-> stream.built]

(* A stream whose transport has changed is stopped and built anew (twice, see
   PipelineLifecycle; the context of the second time stays). *)
ApplyToStream(id, cfg, loads) ==
    CASE id \notin DOMAIN streams -> BuildStreamContext(cfg, loads)
      [] id \in DOMAIN streams /\ ~IsSameTransportStreamConfig(streams[id].transport_config, cfg) ->
            BuildStreamContext(cfg, loads)
      [] id \in DOMAIN streams /\ IsSameTransportStreamConfig(streams[id].transport_config, cfg) ->
            IF IsSameRuntimeStreamConfig(streams[id].runtime_config, cfg) THEN streams[id]
            ELSE UpdateStreamRuntime(streams[id], cfg, loads)

ApplyConfigBatch ==
    /\ batch # <<>>
    /\ LET desired == BuildMergedStreams(Head(batch)) IN
       \E loading \in SUBSET DOMAIN desired :
          streams' = [id \in DOMAIN desired |-> ApplyToStream(id, desired[id], id \in loading)]
    /\ batch' = <<>>
    /\ applied' = applied + 1
    /\ UNCHANGED <<configs, pending, received>>

(* requestAsyncStopStream: the publisher of the stream could not be configured. *)
RequestAsyncStopStream(id) ==
    /\ streams' = [other \in DOMAIN streams \ {id} |-> streams[other]]
    /\ UNCHANGED <<configs, pending, batch, received, applied>>

Next ==
    \/ \E k \in ConfigIds, cfg \in AgentConfigs : HandleSocketConfig(k, cfg)
    \/ TakeBatch
    \/ ApplyConfigBatch
    \/ \E id \in DOMAIN streams : RequestAsyncStopStream(id)

Spec == Init /\ [][Next]_vars

-----------------------------------------------------------------------------
(* The algorithms of some entries, one after the other, without a fold: an id stands
   where it first appeared, in its last version; unnamed algorithms are all kept. *)
MergedAlgorithms(entries) ==
    LET all == FlattenSeq([n \in DOMAIN entries |-> entries[n].algorithms])
        named(i) == all[i].algorithm_id # ""
        same(i) == {j \in DOMAIN all : all[j].algorithm_id = all[i].algorithm_id}
        kept == SetToSortSeq({i \in DOMAIN all : named(i) => i = Min(same(i))}, <)
    IN  [n \in DOMAIN kept |->
            IF named(kept[n]) THEN all[Max(same(kept[n]))] ELSE all[kept[n]]]

(* buildMergedStreams gives each stream an enabled configuration under its own id, with
   the transport and de-duplication interval of the usable entry with the highest
   config_id, the last tracker any entry names, disabled or not, and every algorithm id
   once, in its last version and at its first place. *)
MergeReference ==
    \A id \in DOMAIN BuildMergedStreams(configs) :
        LET merged == BuildMergedStreams(configs)[id]
            entries == EntriesOf(configs, id)
            tracked == SelectSeq(entries, LAMBDA cfg : cfg.tracker # "")
        IN  /\ merged.enabled = TRUE /\ merged.stream_id = id
            /\ IsSameTransportStreamConfig(merged, Last(entries))
            /\ merged.alarm_dedup = Last(entries).alarm_dedup
            /\ merged.algorithms = MergedAlgorithms(entries)
            /\ merged.tracker = IF tracked = <<>> THEN "" ELSE Last(tracked).tracker

(* Once the config thread has nothing left to apply, every running stream is one that
   some task still asks for, and its transport, the configuration its detector is
   called with and the algorithms the detector was made from are those of the merged
   configuration; a detector that could not be loaded leaves none, never an old one. *)
ConfigurationEffective ==
    (~pending /\ batch = <<>>) =>
        \A id \in DOMAIN streams :
            LET desired == BuildMergedStreams(configs)
                stream == streams[id]
            IN  /\ id \in DOMAIN desired
                /\ IsSameTransportStreamConfig(stream.transport_config, desired[id])
                /\ stream.runtime_config = desired[id]
                /\ stream.detector_config = desired[id]
                /\ stream.detector = NoDetector \/ stream.detector.algorithms = desired[id].algorithms

(* Applying a batch interrupts a stream only when it must: a stream whose transport
   is still wanted keeps its context, and so its connection, its buffer and its
   recording; if its algorithms are still wanted too, it keeps its detector, and so
   its tracks, whatever happens to its tracker settings, its interval and the other
   streams. *)
LeastDisturbance ==
    [][applied' # applied =>
        LET desired == BuildMergedStreams(Head(batch)) IN
        \A id \in DOMAIN streams \cap DOMAIN desired :
            streams[id].runtime_config.transport = desired[id].transport =>
                /\ streams'[id].built = streams[id].built
                /\ streams[id].runtime_config.algorithms = desired[id].algorithms =>
                        streams'[id].detector = streams[id].detector]_vars
=============================================================================
