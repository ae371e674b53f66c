--------------------- MODULE StreamConfigurationProofs ---------------------
(***************************************************************************)
(* Proofs about the configuration of the running streams, for any tasks of *)
(* the platform.  buildMergedStreams is a fold and stays opaque: all that  *)
(* is used of it is that it gives a StreamConfig to each stream it names.  *)
(***************************************************************************)
EXTENDS StreamConfiguration, TLAPS

(* A StreamConfig has these fields and no other. *)
Whole(cfg) ==
    cfg = [enabled |-> cfg.enabled, stream_id |-> cfg.stream_id, transport |-> cfg.transport,
           alarm_dedup |-> cfg.alarm_dedup, algorithms |-> cfg.algorithms, tracker |-> cfg.tracker]

LEMMA FinalizedIsWhole == \A state : Whole(FinalizeMergedStreamConfig(state))
BY DEF Whole, FinalizeMergedStreamConfig

LEMMA MergedIsWhole ==
    ASSUME NEW all, NEW id \in DOMAIN BuildMergedStreams(all)
    PROVE  Whole(BuildMergedStreams(all)[id])
<1>1. \E state : BuildMergedStreams(all)[id] = FinalizeMergedStreamConfig(state)
  BY Zenon DEF BuildMergedStreams
<1> QED
  BY <1>1, FinalizedIsWhole, Zenon

(* Two of them that agree in what IsSameRuntimeStreamConfig compares are the same. *)
LEMMA SameRuntimeIsSame ==
    ASSUME NEW lhs, NEW rhs, Whole(lhs), Whole(rhs), IsSameRuntimeStreamConfig(lhs, rhs)
    PROVE  lhs = rhs
<1>1. /\ lhs.enabled = rhs.enabled /\ lhs.stream_id = rhs.stream_id /\ lhs.transport = rhs.transport
      /\ lhs.algorithms = rhs.algorithms /\ lhs.alarm_dedup = rhs.alarm_dedup
      /\ lhs.tracker = rhs.tracker
  BY DEF IsSameRuntimeStreamConfig, IsSameTransportStreamConfig, TransportStreamConfigView,
         DetectorRuntimeConfigView
<1> QED
  BY <1>1, Zenon DEF Whole

LEMMA TransportOfWhole ==
    ASSUME NEW cfg, Whole(cfg)
    PROVE  IsSameTransportStreamConfig(MakeTransportStreamConfig(cfg), cfg)
<1> DEFINE t == MakeTransportStreamConfig(cfg)
<1>1. DOMAIN cfg = {"enabled", "stream_id", "transport", "alarm_dedup", "algorithms", "tracker"}
  BY DEF Whole
<1>2. t.enabled = cfg.enabled /\ t.stream_id = cfg.stream_id /\ t.transport = cfg.transport
  BY <1>1, Zenon DEF MakeTransportStreamConfig
<1> QED
  BY <1>2 DEF IsSameTransportStreamConfig, TransportStreamConfigView

-----------------------------------------------------------------------------
(* The parts of a context agree with each other: they were set from one configuration. *)
Consistent(stream) ==
    /\ Whole(stream.runtime_config)
    /\ stream.detector_config = stream.runtime_config
    /\ IsSameTransportStreamConfig(stream.transport_config, stream.runtime_config)
    /\ \/ stream.detector = NoDetector
       \/ stream.detector.algorithms = stream.runtime_config.algorithms

(* Besides, the copy that is to be applied is the newest one unless there is another. *)
Effective ==
    /\ \A id \in DOMAIN streams : Consistent(streams[id])
    /\ batch # <<>> /\ ~pending => Head(batch) = configs
    /\ ConfigurationEffective

(* Whatever applyConfigBatch does to a stream, it makes its parts those of the
   configuration. *)
LEMMA DetectorMade ==
    ASSUME NEW cfg, NEW loads
    PROVE  MakeDetector(cfg, loads) = NoDetector \/ MakeDetector(cfg, loads).algorithms = cfg.algorithms
BY DEF MakeDetector

LEMMA AppliedIsConsistent ==
    ASSUME Effective, NEW id, NEW cfg, Whole(cfg), NEW loads
    PROVE  /\ Consistent(ApplyToStream(id, cfg, loads))
           /\ ApplyToStream(id, cfg, loads).runtime_config = cfg
<1> DEFINE stream == ApplyToStream(id, cfg, loads)
<1>1. CASE stream = BuildStreamContext(cfg, loads)
  <2>1. /\ stream.runtime_config = cfg /\ stream.detector_config = cfg
        /\ stream.transport_config = MakeTransportStreamConfig(cfg)
        /\ stream.detector = MakeDetector(cfg, loads)
    BY <1>1 DEF BuildStreamContext
  <2> HIDE DEF stream
  <2> QED
    BY <2>1, DetectorMade, TransportOfWhole DEF Consistent, stream
<1>2. CASE /\ id \in DOMAIN streams
           /\ IsSameTransportStreamConfig(streams[id].transport_config, cfg)
  <2>1. Consistent(streams[id])
    BY <1>2 DEF Effective
  <2>2. CASE IsSameRuntimeStreamConfig(streams[id].runtime_config, cfg)
    <3>1. stream = streams[id]
      BY <1>2, <2>2, Zenon DEF ApplyToStream
    <3>2. streams[id].runtime_config = cfg
      BY <2>1, <2>2, SameRuntimeIsSame DEF Consistent
    <3> QED
      BY <2>1, <3>1, <3>2
  <2>3. CASE ~IsSameRuntimeStreamConfig(streams[id].runtime_config, cfg)
    <3>1. stream = UpdateStreamRuntime(streams[id], cfg, loads)
      BY <1>2, <2>3, Zenon DEF ApplyToStream
    <3>2. /\ stream.runtime_config = cfg /\ stream.detector_config = cfg
          /\ stream.transport_config = streams[id].transport_config
          /\ stream.detector \in {MakeDetector(cfg, loads), streams[id].detector}
          /\ stream.detector # MakeDetector(cfg, loads) =>
                streams[id].detector_config.algorithms = cfg.algorithms
      BY <3>1 DEF UpdateStreamRuntime, HasDetectorConfigChanged, DetectorConfigView
    <3> HIDE DEF stream
    <3>3. stream.detector = NoDetector \/ stream.detector.algorithms = cfg.algorithms
      BY <2>1, <3>2, DetectorMade DEF Consistent
    <3>4. IsSameTransportStreamConfig(stream.transport_config, cfg)
      BY <1>2, <3>2
    <3> QED
      BY <3>2, <3>3, <3>4 DEF Consistent, stream
  <2> QED
    BY <2>2, <2>3
<1>3. \/ stream = BuildStreamContext(cfg, loads)
      \/ /\ id \in DOMAIN streams
         /\ IsSameTransportStreamConfig(streams[id].transport_config, cfg)
  BY Zenon DEF ApplyToStream
<1> QED
  BY <1>1, <1>2, <1>3

LEMMA EffectiveApply == ASSUME Effective, ApplyConfigBatch PROVE Effective'
<1> DEFINE desired == BuildMergedStreams(Head(batch))
<1>1. PICK loading :
         streams' = [id \in DOMAIN desired |-> ApplyToStream(id, desired[id], id \in loading)]
  BY DEF ApplyConfigBatch
<1>2. batch # <<>> /\ batch' = <<>> /\ UNCHANGED <<configs, pending>>
  BY DEF ApplyConfigBatch
<1>3. \A id \in DOMAIN desired : Whole(desired[id])
  BY MergedIsWhole
<1> HIDE DEF desired
<1>4. DOMAIN streams' = DOMAIN desired
  BY <1>1
<1>5. ASSUME NEW id \in DOMAIN streams'
      PROVE  Consistent(streams'[id]) /\ streams'[id].runtime_config = desired[id]
  BY <1>1, <1>3, <1>4, AppliedIsConsistent
<1>6. ~pending => desired = BuildMergedStreams(configs)
  BY <1>2 DEF Effective, desired
<1>7. ConfigurationEffective'
  <2> SUFFICES ASSUME ~pending', NEW id \in DOMAIN streams'
               PROVE  /\ id \in DOMAIN desired
                      /\ IsSameTransportStreamConfig(streams'[id].transport_config, desired[id])
                      /\ streams'[id].runtime_config = desired[id]
                      /\ streams'[id].detector_config = desired[id]
                      /\ \/ streams'[id].detector = NoDetector
                         \/ streams'[id].detector.algorithms = desired[id].algorithms
    BY <1>2, <1>6 DEF ConfigurationEffective
  <2> QED
    BY <1>4, <1>5 DEF Consistent
<1> QED
  BY <1>2, <1>5, <1>7 DEF Effective

LEMMA EffectiveStep == Effective /\ [Next]_vars => Effective'
<1> SUFFICES ASSUME Effective, [Next]_vars PROVE Effective'
  OBVIOUS
<1>1. ASSUME NEW k, NEW cfg, HandleSocketConfig(k, cfg) PROVE Effective'
  BY <1>1 DEF HandleSocketConfig, Effective, ConfigurationEffective
<1>2. CASE TakeBatch
  <2>1. batch' = <<configs>> /\ UNCHANGED <<configs, streams>>
    BY <1>2 DEF TakeBatch
  <2>2. batch' # <<>> /\ Head(batch') = configs'
    BY <2>1
  <2> QED
    BY <2>1, <2>2 DEF Effective, ConfigurationEffective
<1>3. ASSUME NEW id, RequestAsyncStopStream(id) PROVE Effective'
  <2>1. UNCHANGED <<configs, pending, batch>>
    BY <1>3 DEF RequestAsyncStopStream
  <2>2. \A other \in DOMAIN streams' : other \in DOMAIN streams /\ streams'[other] = streams[other]
    BY <1>3 DEF RequestAsyncStopStream
  <2> QED
    BY <2>1, <2>2 DEF Effective, ConfigurationEffective
<1>4. CASE UNCHANGED vars
  BY <1>4 DEF vars, Effective, ConfigurationEffective
<1> QED
  BY <1>1, <1>2, <1>3, <1>4, EffectiveApply DEF Next

(* Whatever the tasks ask for and in whichever order they arrive, are copied and applied,
   a stream that runs once nothing is left to apply has the configuration merged from
   all of them, in all its parts (Pipeline.cpp, applyConfigBatch). *)
THEOREM ConfigurationTakesEffect == Spec => []ConfigurationEffective
<1>1. Init => Effective
  BY DEF Init, Effective, ConfigurationEffective
<1>2. Effective => ConfigurationEffective
  BY DEF Effective
<1> QED
  BY <1>1, <1>2, EffectiveStep, PTL DEF Spec

-----------------------------------------------------------------------------
(* A merged configuration is enabled and names its own stream, the copy that is to be
   applied included, and so does what runs. *)
NamesItself(cfg, id) == cfg.enabled = TRUE /\ cfg.stream_id = id
Merges(all) == \A id \in DOMAIN BuildMergedStreams(all) : NamesItself(BuildMergedStreams(all)[id], id)

Named ==
    /\ \A id \in DOMAIN streams : NamesItself(streams[id].runtime_config, id)
    /\ batch # <<>> => Merges(Head(batch))

LEMMA ReferenceNames == MergeReference => Merges(configs)
BY Zenon DEF MergeReference, Merges, NamesItself

LEMMA NamedStep == Effective /\ Named /\ MergeReference /\ [Next]_vars => Named'
<1> SUFFICES ASSUME Effective, Named, MergeReference, [Next]_vars PROVE Named'
  OBVIOUS
<1>1. ASSUME NEW k, NEW cfg, HandleSocketConfig(k, cfg) PROVE Named'
  BY <1>1 DEF HandleSocketConfig, Named
<1>2. CASE TakeBatch
  <2>1. batch' = <<configs>> /\ UNCHANGED streams
    BY <1>2 DEF TakeBatch
  <2>2. Head(batch') = configs
    BY <2>1
  <2> QED
    BY <2>1, <2>2, ReferenceNames DEF Named
<1>3. CASE ApplyConfigBatch
  <2> DEFINE desired == BuildMergedStreams(Head(batch))
  <2>1. PICK loading :
           streams' = [id \in DOMAIN desired |-> ApplyToStream(id, desired[id], id \in loading)]
    BY <1>3 DEF ApplyConfigBatch
  <2>2. batch # <<>> /\ batch' = <<>>
    BY <1>3 DEF ApplyConfigBatch
  <2>3. \A id \in DOMAIN desired : Whole(desired[id])
    BY MergedIsWhole
  <2>4. \A id \in DOMAIN desired : NamesItself(desired[id], id)
    BY <2>2 DEF Named, Merges
  <2> HIDE DEF desired
  <2>5. \A id \in DOMAIN desired : streams'[id].runtime_config = desired[id]
    BY <2>1, <2>3, AppliedIsConsistent
  <2>6. DOMAIN streams' = DOMAIN desired
    BY <2>1
  <2> QED
    BY <2>2, <2>4, <2>5, <2>6 DEF Named
<1>4. ASSUME NEW id, RequestAsyncStopStream(id) PROVE Named'
  BY <1>4 DEF RequestAsyncStopStream, Named
<1>5. CASE UNCHANGED vars
  BY <1>5 DEF vars, Named
<1> QED
  BY <1>1, <1>2, <1>3, <1>4, <1>5 DEF Next

(* A stream whose transport is still wanted is neither stopped nor built anew, and it
   keeps its detector unless its algorithms change. *)
LEMMA AppliedKeeps ==
    ASSUME NEW id \in DOMAIN streams, NEW cfg, NEW loads,
           Consistent(streams[id]), NamesItself(streams[id].runtime_config, id),
           NamesItself(cfg, id), streams[id].runtime_config.transport = cfg.transport
    PROVE  /\ ApplyToStream(id, cfg, loads).built = streams[id].built
           /\ streams[id].runtime_config.algorithms = cfg.algorithms =>
                 ApplyToStream(id, cfg, loads).detector = streams[id].detector
<1> DEFINE stream == ApplyToStream(id, cfg, loads)
<1>1. IsSameTransportStreamConfig(streams[id].transport_config, cfg)
  <2>1. /\ streams[id].runtime_config.enabled = cfg.enabled
        /\ streams[id].runtime_config.stream_id = cfg.stream_id
    BY DEF NamesItself
  <2> QED
    BY <2>1 DEF Consistent, IsSameTransportStreamConfig, TransportStreamConfigView
<1>2. CASE IsSameRuntimeStreamConfig(streams[id].runtime_config, cfg)
  <2>1. stream = streams[id]
    BY <1>1, <1>2, Zenon DEF ApplyToStream
  <2> QED
    BY <2>1
<1>3. CASE ~IsSameRuntimeStreamConfig(streams[id].runtime_config, cfg)
  <2>1. stream = UpdateStreamRuntime(streams[id], cfg, loads)
    BY <1>1, <1>3, Zenon DEF ApplyToStream
  <2>2. /\ stream.built = streams[id].built
        /\ ~HasDetectorConfigChanged(streams[id].detector_config, cfg) =>
              stream.detector = streams[id].detector
    BY <2>1 DEF UpdateStreamRuntime
  <2>3. streams[id].runtime_config.algorithms = cfg.algorithms =>
           ~HasDetectorConfigChanged(streams[id].detector_config, cfg)
    BY DEF HasDetectorConfigChanged, DetectorConfigView, Consistent
  <2> HIDE DEF stream
  <2>4. /\ stream.built = streams[id].built
        /\ streams[id].runtime_config.algorithms = cfg.algorithms =>
              stream.detector = streams[id].detector
    BY <2>2, <2>3
  <2> QED
    BY <2>4 DEF stream
<1> QED
  BY <1>2, <1>3

(* If the merge gives every stream an enabled configuration of its own, applying a batch
   interrupts a stream only when its transport has changed, and replaces its detector
   only when its algorithms have, whatever else is configured (applyConfigBatch and
   updateStreamRuntime, with the comparisons of ConfigFilter.cpp). *)
THEOREM StreamsLeastDisturbed == Spec /\ []MergeReference => LeastDisturbance
<1> DEFINE Kept(desired) ==
        \A id \in DOMAIN streams \cap DOMAIN desired :
            streams[id].runtime_config.transport = desired[id].transport =>
                /\ streams'[id].built = streams[id].built
                /\ streams[id].runtime_config.algorithms = desired[id].algorithms =>
                        streams'[id].detector = streams[id].detector
           Disturbs == applied' # applied => Kept(BuildMergedStreams(Head(batch)))
<1>1. Init => Effective /\ Named
  BY DEF Init, Effective, ConfigurationEffective, Named
<1>2. Effective /\ Named /\ [Next]_vars => [Disturbs]_vars
  <2> SUFFICES ASSUME Effective, Named, Next, applied' # applied
               PROVE  Kept(BuildMergedStreams(Head(batch)))
    BY Zenon
  <2>1. ApplyConfigBatch
    BY DEF Next, HandleSocketConfig, TakeBatch, RequestAsyncStopStream
  <2>2. batch # <<>>
    BY <2>1 DEF ApplyConfigBatch
  <2> SUFFICES ASSUME NEW desired, desired = BuildMergedStreams(Head(batch)),
                      NEW id \in DOMAIN streams \cap DOMAIN desired,
                      streams[id].runtime_config.transport = desired[id].transport
               PROVE  /\ streams'[id].built = streams[id].built
                      /\ streams[id].runtime_config.algorithms = desired[id].algorithms =>
                            streams'[id].detector = streams[id].detector
    BY Zenon
  <2>3. PICK loading :
           streams' = [i \in DOMAIN desired |-> ApplyToStream(i, desired[i], i \in loading)]
    BY <2>1 DEF ApplyConfigBatch
  <2>4. streams'[id] = ApplyToStream(id, desired[id], id \in loading)
    BY <2>3
  <2>5. NamesItself(desired[id], id) /\ NamesItself(streams[id].runtime_config, id)
    BY <2>2 DEF Named, Merges
  <2>6. Consistent(streams[id])
    BY DEF Effective
  <2> QED
    BY <2>4, <2>5, <2>6, AppliedKeeps
<1> QED
  BY <1>1, <1>2, EffectiveStep, NamedStep, PTL DEF Spec, LeastDisturbance

=============================================================================
