---------------------------- MODULE ConfigFilter ----------------------------
(***************************************************************************)
(* src/pipeline/ConfigFilter.cpp: several tasks of the platform, each an   *)
(* AgentConfig with its own config_id, may ask for the same stream.  They  *)
(* are merged into one configuration per stream, and the comparisons that  *)
(* decide what a new configuration costs a running stream are made here.   *)
(*                                                                         *)
(* A StreamConfig is a record; the fields TransportStreamConfigView        *)
(* compares are one value, transport, with "" for an empty rtsp_url.       *)
(* tracker is "" when the message has none.  An AgentConfig is the         *)
(* sequence of its streams.                                                *)
(***************************************************************************)
EXTENDS Integers, Sequences, SequencesExt

CONSTANT DisabledTrackers    \* TrackerConfigs whose enabled is false

TrackerEnabled(tracker) == tracker \notin DisabledTrackers

-----------------------------------------------------------------------------
(* Faulty variants of definitions below, which the properties must detect. *)

(* The second version of an algorithm is added and the first one kept. *)
MergeAlgorithmTwice(algorithms, algorithm) ==
    IF \E i \in DOMAIN algorithms : algorithms[i] = algorithm THEN algorithms
    ELSE Append(algorithms, algorithm)

(* The de-duplication interval is compared as part of the transport. *)
TransportViewWithDedup(cfg) ==
    <<cfg.enabled, cfg.stream_id, cfg.transport, cfg.alarm_dedup>>

(* Only the number of algorithms and their ids are compared. *)
DetectorChangedByIds(lhs, rhs) ==
    \/ Len(lhs.algorithms) # Len(rhs.algorithms)
    \/ \E i \in DOMAIN lhs.algorithms :
            lhs.algorithms[i].algorithm_id # rhs.algorithms[i].algorithm_id

-----------------------------------------------------------------------------
(* What makeTransportStreamConfig copies: everything but algorithms and tracker. *)
MakeTransportStreamConfig(cfg) ==
    [cfg EXCEPT !.algorithms = <<>>, !.tracker = ""]

(* The fields each comparison looks at; messages are compared by value. *)
TransportStreamConfigView(cfg) == <<cfg.enabled, cfg.stream_id, cfg.transport>>
DetectorConfigView(cfg) == cfg.algorithms
DetectorRuntimeConfigView(cfg) == <<cfg.algorithms, cfg.alarm_dedup, cfg.tracker>>

IsSameTransportStreamConfig(lhs, rhs) ==
    TransportStreamConfigView(lhs) = TransportStreamConfigView(rhs)

IsSameRuntimeStreamConfig(lhs, rhs) ==
    /\ IsSameTransportStreamConfig(lhs, rhs)
    /\ DetectorRuntimeConfigView(lhs) = DetectorRuntimeConfigView(rhs)

HasDetectorConfigChanged(lhs, rhs) == DetectorConfigView(lhs) # DetectorConfigView(rhs)

-----------------------------------------------------------------------------
(* mergeAlgorithms.  An algorithm without an id is always added; one with an id
   replaces the one of that id where it stands (algorithm_index_by_id). *)
MergeAlgorithm(algorithms, algorithm) ==
    LET same == {i \in DOMAIN algorithms :
                    algorithms[i].algorithm_id = algorithm.algorithm_id}
    IN  IF algorithm.algorithm_id = "" \/ same = {}
        THEN Append(algorithms, algorithm)
        ELSE [i \in DOMAIN algorithms |-> IF i \in same THEN algorithm ELSE algorithms[i]]

(* mergeTracker: state.tracker_config is "" after an explicit disabling. *)
MergeTracker(state, cfg) ==
    CASE cfg.tracker = "" -> state
      [] cfg.tracker # "" /\ ~TrackerEnabled(cfg.tracker) ->
            [state EXCEPT !.tracker_explicitly_disabled = TRUE,
                          !.tracker_disable_config = cfg.tracker,
                          !.tracker_config = ""]
      [] cfg.tracker # "" /\ TrackerEnabled(cfg.tracker) ->
            [state EXCEPT !.tracker_explicitly_disabled = FALSE,
                          !.tracker_disable_config = "",
                          !.tracker_config = cfg.tracker]

StreamMergeState(cfg) ==
    [base_config |-> MakeTransportStreamConfig(cfg), algorithms |-> <<>>, tracker_config |-> "",
     tracker_disable_config |-> "", tracker_explicitly_disabled |-> FALSE]

(* The body of the loop of buildMergedStreams for one stream entry. *)
MergeStream(state, cfg) ==
    MergeTracker([state EXCEPT !.base_config = MakeTransportStreamConfig(cfg),
                               !.algorithms = FoldLeft(MergeAlgorithm, @, cfg.algorithms)], cfg)

FinalizeMergedStreamConfig(state) ==
    [enabled |-> state.base_config.enabled, stream_id |-> state.base_config.stream_id,
     transport |-> state.base_config.transport, alarm_dedup |-> state.base_config.alarm_dedup,
     algorithms |-> state.algorithms,
     tracker |-> IF state.tracker_explicitly_disabled THEN state.tracker_disable_config
                 ELSE state.tracker_config]

(* Entries that are not skipped. *)
Usable(cfg) == cfg.enabled /\ cfg.stream_id # "" /\ cfg.transport # ""

(* All usable entries of a map of configurations, in the order of std::map: by
   config_id, whatever the order of their arrival. *)
UsableEntries(configs) ==
    LET ids == SetToSortSeq(DOMAIN configs, <)
    IN  SelectSeq(FlattenSeq([n \in DOMAIN ids |-> configs[ids[n]]]), Usable)

EntriesOf(configs, id) ==
    SelectSeq(UsableEntries(configs), LAMBDA cfg : cfg.stream_id = id)

BuildMergedStreams(configs) ==
    [id \in {cfg.stream_id : cfg \in ToSet(UsableEntries(configs))} |->
        LET entries == EntriesOf(configs, id)
        IN  FinalizeMergedStreamConfig(
                FoldLeft(MergeStream, StreamMergeState(Head(entries)), entries))]

=============================================================================
