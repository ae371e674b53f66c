------------------------ MODULE StreamContractProofs ------------------------
(***************************************************************************)
(* StreamPipeline implements StreamContract: under IndInv every step of a  *)
(* thread is a step of the contract or leaves the contract's state alone,  *)
(* for any number of frames, audio packets, reconnects and inference       *)
(* threads.                                                                *)
(***************************************************************************)
EXTENDS StreamPipelineProofs

(* What the contract can see of a step that leaves it alone. *)
LEMMA Invisible ==
    ASSUME UNCHANGED <<packets, nextId>>, DOMAIN frames' = DOMAIN frames,
           DecodedFrames' = DecodedFrames, IdleDecoded' = IdleDecoded,
           Using' = Using, Leaving' = Leaving
    PROVE  UNCHANGED Contract!vars
BY DEF Contract!vars

(* A step that touches neither the buffer nor the threads' positions is invisible. *)
LEMMA InvisibleFrames ==
    ASSUME UNCHANGED <<packets, nextId, frames>>, Using' = Using, Leaving' = Leaving
    PROVE  UNCHANGED Contract!vars
BY Invisible DEF DecodedFrames, IdleDecoded

(* The initial states are initial states of the contract. *)
LEMMA ContractInit == Init => Contract!Init
BY DEF Init, BufferInit, Contract!Init, DecodedFrames, IdleDecoded, Using, UsingFrame, Leaving, PubWaiting

-----------------------------------------------------------------------------
(* The frames in use are in inference; there is at most one. *)
LEMMA UsingFacts ==
    ASSUME IndInv
    PROVE  /\ Using \subseteq InferringFrames
           /\ \A v, w \in Workers : UsingFrame(v) /\ UsingFrame(w) => v = w
<1>1. Using \subseteq InferringFrames
  BY DEF IndInv, InferenceInv, Using
<1>2. \A v, w \in Workers : UsingFrame(v) /\ UsingFrame(w) => v = w
  BY DEF IndInv, InferenceInv, UsingFrame
<1> QED
  BY <1>1, <1>2

(* The packet of an id between the oldest queued one and the next one is queued. *)
LEMMA QueuedIsWaiting ==
    ASSUME IndInv, NEW id \in FrameIds, Low <= id, id < nextId
    PROVE  \E i \in 1 .. Len(packets) : packets[i] = VideoPacket(id) /\ packets[i].id = id
                                        /\ packets[i].media = "Video"
BY DEF IndInv, QueueInv, VideoPacket

-----------------------------------------------------------------------------
(* The puller thread. *)

(* A video packet that is read comes with the next number. *)
LEMMA PullVideoComes == IndInv /\ PullVideo => Contract!Next
<1> SUFFICES ASSUME IndInv, PullVideo PROVE Contract!Next
  OBVIOUS
<1>1. ~stopped
  BY DEF IndInv, PullVideo, PullerReading, PendingInv, TypeOK
<1>2. /\ packets' = Append(packets, VideoPacket(nextId))
      /\ nextId' = nextId + 1
      /\ UNCHANGED <<frames, worker, pub>>
  BY <1>1 DEF PullVideo, EnqueuePacket, controlVars
<1>3. DecodedFrames' = DecodedFrames /\ IdleDecoded' = IdleDecoded /\ Using' = Using
      /\ Leaving' = Leaving
  BY <1>2 DEF DecodedFrames, IdleDecoded, Using, UsingFrame, Leaving
<1>4. Contract!Come(VideoPacket(nextId))
  BY <1>2, <1>3 DEF Contract!Come, VideoPacket
<1>5. VideoPacket(nextId) \in [media : {"Video", "Audio"}, id : {nextId, -1}]
  BY DEF VideoPacket
<1> QED
  BY <1>4, <1>5 DEF Contract!Next

LEMMA PullAudioComes == IndInv /\ PullAudio => Contract!Next
<1> SUFFICES ASSUME IndInv, PullAudio PROVE Contract!Next
  OBVIOUS
<1>1. ~stopped
  BY DEF IndInv, PullAudio, PullerReading, PendingInv, TypeOK
<1>2. /\ packets' = Append(packets, AudioPacket)
      /\ UNCHANGED <<frames, worker, pub, nextId>>
  BY <1>1 DEF PullAudio, EnqueuePacket, controlVars
<1>3. DecodedFrames' = DecodedFrames /\ IdleDecoded' = IdleDecoded /\ Using' = Using
      /\ Leaving' = Leaving
  BY <1>2 DEF DecodedFrames, IdleDecoded, Using, UsingFrame, Leaving
<1>4. Contract!Come(AudioPacket)
  BY <1>2, <1>3 DEF Contract!Come, AudioPacket
<1>5. AudioPacket \in [media : {"Video", "Audio"}, id : {nextId, -1}]
  BY DEF AudioPacket
<1> QED
  BY <1>4, <1>5 DEF Contract!Next

(* A frame that is enqueued is that of a waiting packet, newer than all others. *)
LEMMA DeliverAligns == IndInv /\ DeliverFrame => Contract!Next
<1> SUFFICES ASSUME IndInv, DeliverFrame PROVE Contract!Next
  OBVIOUS
<1> DEFINE id == Head(pending)
<1>1. ~stopped
  BY DEF IndInv, DeliverFrame, PendingInv, TypeOK
<1>2. 1 \in 1 .. Len(pending) /\ id = pending[1] /\ id \in FrameIds
  BY DEF IndInv, DeliverFrame, PendingInv, TypeOK
<1>3. Low <= id /\ id < nextId /\ \A f \in DOMAIN frames : f < id
  BY <1>2 DEF IndInv, PendingInv
<1>4. PICK i \in 1 .. Len(packets) : packets[i].id = id /\ packets[i].media = "Video"
  BY <1>2, <1>3, QueuedIsWaiting
<1>5. PICK decoded \in BOOLEAN : EnqueueFrame(id, decoded)
  BY DEF DeliverFrame
<1>6. /\ UNCHANGED <<packets, nextId, worker, pub>>
      /\ frames' = [f \in DOMAIN frames \cup {id} |->
                       IF f = id
                       THEN [decoded |-> decoded, infer_state |-> "Idle", pos |-> nextPos]
                       ELSE frames[f]]
  BY <1>1, <1>5 DEF DeliverFrame, EnqueueFrame, controlVars
<1>7. id \notin DOMAIN frames
  BY <1>2, <1>3 DEF FrameIds
<1>8. /\ DOMAIN frames' = DOMAIN frames \cup {id}
      /\ DecodedFrames' = IF decoded THEN DecodedFrames \cup {id} ELSE DecodedFrames
      /\ IdleDecoded' = IF decoded THEN IdleDecoded \cup {id} ELSE IdleDecoded
  BY <1>6, <1>7 DEF DecodedFrames, IdleDecoded
<1>9. Using' = Using /\ Leaving' = Leaving
  BY <1>6 DEF Using, UsingFrame, Leaving
<1>10. Contract!Align(id, decoded)
  BY <1>3, <1>4, <1>6, <1>8, <1>9 DEF Contract!Align, Contract!Waiting
<1> QED
  BY <1>4, <1>10 DEF Contract!Next

(* Everything else the puller does is invisible. *)
LEMMA PullerInvisible ==
    OpenSource \/ StreamReady \/ MatchPending \/ DecodeDone \/ Reconnect \/ PullerGivesUp \/ PullerExit
        => UNCHANGED Contract!vars
<1> SUFFICES ASSUME OpenSource \/ StreamReady \/ MatchPending \/ DecodeDone \/ Reconnect \/ PullerGivesUp \/ PullerExit
             PROVE  UNCHANGED Contract!vars
  OBVIOUS
<1>1. UNCHANGED <<packets, nextId, frames, worker, pub>>
  BY DEF OpenSource, StreamReady, MatchPending, DecodeDone, Reconnect, PullerGivesUp, PullerExit, bufferVars
<1> QED
  BY <1>1, InvisibleFrames DEF Using, UsingFrame, Leaving

-----------------------------------------------------------------------------
(* The inference threads. *)

(* A thread at work is the only one. *)
LEMMA OneWorker ==
    ASSUME IndInv, NEW w \in Workers, worker[w].pc # "idle"
    PROVE  /\ Using = IF UsingFrame(w) THEN {worker[w].frame} ELSE {}
           /\ \A v \in Workers : v # w => worker[v].pc = "idle"
<1>1. \A v \in Workers : v # w => worker[v].pc = "idle"
  BY DEF IndInv, InferenceInv
<1>2. \A v \in Workers : UsingFrame(v) => v = w
  BY <1>1 DEF UsingFrame
<1> QED
  BY <1>1, <1>2 DEF Using

(* The same after a step of this thread. *)
LEMMA OneWorkerNext ==
    ASSUME IndInv, NEW w \in Workers, worker[w].pc # "idle",
           \A v \in Workers : v # w => worker'[v] = worker[v]
    PROVE  Using' = IF UsingFrame(w)' THEN {worker'[w].frame} ELSE {}
<1>1. \A v \in Workers : v # w => worker'[v].pc = "idle"
  BY OneWorker
<1>2. \A v \in Workers : UsingFrame(v)' => v = w
  BY <1>1 DEF UsingFrame
<1> QED
  BY <1>2 DEF Using

(* A frame that is taken for inference is the newest image, and its packet waits. *)
LEMMA AcquireBegins ==
    ASSUME IndInv, NEW w \in Workers, AcquireTask(w)
    PROVE  Contract!Next
<1> USE DEF IndInv
<1>1. PICK id \in IdleDecoded :
         /\ SelectFrameForInference(id)
         /\ worker' = [worker EXCEPT ![w] = [pc |-> "selected", frame |-> id, result |-> NoFrame]]
  BY DEF AcquireTask
<1>2. /\ UNCHANGED <<packets, nextId, pub>>
      /\ frames' = [f \in DOMAIN frames |->
                       IF f = id THEN [frames[f] EXCEPT !.infer_state = "Selected"]
                       ELSE IF IsInferenceTerminal(frames[f].infer_state) THEN frames[f]
                       ELSE [frames[f] EXCEPT !.infer_state = "Done"]]
  BY <1>1 DEF AcquireTask, SelectFrameForInference, pullerVars
<1>3. \A v \in Workers : worker[v].pc = "idle"
  BY DEF AcquireTask, InferenceInv
<1>4. Using = {}
  BY <1>3 DEF Using, UsingFrame
<1>5. Using' = {id}
  <2>1. /\ worker'[w] = [pc |-> "selected", frame |-> id, result |-> NoFrame]
        /\ \A v \in Workers : v # w => worker'[v] = worker[v]
    BY <1>1 DEF TypeOK
  <2>2. \A v \in Workers : UsingFrame(v)' => v = w
    BY <1>3, <2>1 DEF UsingFrame
  <2> QED
    BY <2>1, <2>2 DEF Using, UsingFrame
<1>6. DOMAIN frames' = DOMAIN frames /\ \A f \in DOMAIN frames : frames[f] \in FrameBundles
  BY <1>2 DEF TypeOK, BufferTypeOK
<1>7. \A f \in DOMAIN frames : frames'[f].decoded = frames[f].decoded /\ frames'[f].infer_state # "Idle"
  BY <1>2, <1>6 DEF FrameBundles, IsInferenceTerminal
<1>8. DecodedFrames' = DecodedFrames /\ IdleDecoded' = {}
  BY <1>6, <1>7 DEF DecodedFrames, IdleDecoded
<1>9. id \in DecodedFrames /\ id \in DOMAIN frames /\ id \in FrameIds /\ frames[id].infer_state = "Idle"
  BY DEF IdleDecoded, DecodedFrames, TypeOK, BufferTypeOK
<1>10. \A f \in DecodedFrames : f <= id
  <2> SUFFICES ASSUME NEW f \in DecodedFrames, ~(f <= id) PROVE FALSE
    OBVIOUS
  <2>1. f \in DOMAIN frames /\ f \in Int /\ id \in Int /\ id < f
    BY <1>9, BufferAssumption DEF DecodedFrames, TypeOK, BufferTypeOK, FrameIds
  <2>2. f \in IdleDecoded
    BY <1>9, <2>1 DEF FrameInv, IdleFramesNewest, IdleDecoded
  <2>3. frames[f].pos <= frames[id].pos
    BY <1>1, <2>2 DEF SelectFrameForInference, Selectable
  <2>4. frames[id].pos < frames[f].pos
    BY <1>9, <2>1 DEF FrameInv, OrderFollowsIds
  <2> QED
    BY <1>6, <1>9, <2>1, <2>3, <2>4 DEF FrameBundles
<1>11. Low <= id /\ id < nextId
  <2> SUFFICES ASSUME pub.pc = "release", pub.packet.id = id PROVE FALSE
    BY <1>9 DEF FrameInv
  <2>1. pub.packet = VideoPacket(id)
    BY <1>9 DEF HandInv, TypeOK, Packets, VideoPacket, AudioPacket
  <2>2. \E g \in DecodedFrames : g > id
    BY <1>9, <2>1 DEF WindowInv, PassedGates, DecodedFrames
  <2> QED
    BY <1>9, <1>10, <2>2, BufferAssumption DEF DecodedFrames, TypeOK, BufferTypeOK, FrameIds
<1>12. Contract!Waiting(id)
  BY <1>9, <1>11, QueuedIsWaiting DEF Contract!Waiting
<1>13. Leaving' = Leaving
  BY <1>2 DEF Leaving
<1>14. Contract!BeginUse(id)
  BY <1>2, <1>4, <1>5, <1>6, <1>8, <1>10, <1>12, <1>13 DEF Contract!BeginUse
<1> QED
  BY <1>14 DEF Contract!Next

(* Marking the frame in use changes no image and no frame that waits for inference. *)
LEMMA MarkingKeepsIdle ==
    ASSUME IndInv, NEW id, NEW st \in InferStates, st # "Idle",
           id \in InferringFrames \/ id \notin DOMAIN frames, SetInferState(id, st)
    PROVE  /\ DOMAIN frames' = DOMAIN frames /\ DecodedFrames' = DecodedFrames
           /\ IdleDecoded' = IdleDecoded /\ UNCHANGED packets
<1>1. /\ UNCHANGED packets
      /\ frames' = [f \in DOMAIN frames |->
                       IF f = id THEN [frames[f] EXCEPT !.infer_state = st] ELSE frames[f]]
  BY DEF SetInferState
<1>2. \A f \in DOMAIN frames : frames[f] \in FrameBundles
  BY DEF IndInv, TypeOK, BufferTypeOK
<1>3. id \in DOMAIN frames => frames[id].infer_state # "Idle"
  BY DEF InferringFrames, IsInferring
<1>4. \A f \in DOMAIN frames :
         /\ frames'[f].decoded = frames[f].decoded
         /\ frames'[f].infer_state = "Idle" <=> frames[f].infer_state = "Idle"
  BY <1>1, <1>2, <1>3 DEF FrameBundles
<1> QED
  BY <1>1, <1>4 DEF DecodedFrames, IdleDecoded

(* While the thread works with its frame the contract sees nothing. *)
LEMMA WorkingInvisible ==
    ASSUME IndInv, NEW w \in Workers,
           WorkerMarkRunning(w) \/ CheckStream(w) \/ Detect(w) \/ DetectorGone(w)
    PROVE  UNCHANGED Contract!vars
<1> USE DEF IndInv
<1>1. UsingFrame(w) /\ worker[w].pc # "idle"
  BY DEF WorkerMarkRunning, CheckStream, Detect, DetectorGone, UsingFrame
<1>2. worker[w].frame \in InferringFrames
  BY <1>1 DEF InferenceInv
<1>3. /\ \A v \in Workers : v # w => worker'[v] = worker[v]
      /\ worker'[w].frame = worker[w].frame /\ UsingFrame(w)'
  <2>1. CASE Detect(w)
    BY <2>1 DEF Detect, TypeOK, UsingFrame
  <2>2. CASE WorkerMarkRunning(w)
    BY <2>2 DEF WorkerMarkRunning, WorkerGoto, TypeOK, UsingFrame
  <2>3. CASE CheckStream(w)
    BY <2>3 DEF CheckStream, WorkerGoto, TypeOK, UsingFrame
  <2>4. CASE DetectorGone(w)
    BY <2>4 DEF DetectorGone, WorkerGoto, TypeOK, UsingFrame
  <2> QED
    BY <2>1, <2>2, <2>3, <2>4
<1>4. Using' = Using
  BY <1>1, <1>3, OneWorker, OneWorkerNext
<1>5. UNCHANGED <<nextId, pub>>
  BY DEF WorkerMarkRunning, CheckStream, Detect, DetectorGone, pullerVars
<1>6. /\ DOMAIN frames' = DOMAIN frames /\ DecodedFrames' = DecodedFrames
      /\ IdleDecoded' = IdleDecoded /\ UNCHANGED packets
  <2>1. CASE WorkerMarkRunning(w)
    BY <1>2, <2>1, MarkingKeepsIdle DEF WorkerMarkRunning, MarkInferenceRunning, InferStates
  <2>2. CASE ~WorkerMarkRunning(w)
    BY <2>2 DEF CheckStream, Detect, DetectorGone, bufferVars, DecodedFrames, IdleDecoded
  <2> QED
    BY <2>1, <2>2
<1> QED
  BY <1>4, <1>5, <1>6, Invisible DEF Leaving

(* The thread lets go of its frame with the result, or with the task dropped. *)
LEMMA LettingGoEnds ==
    ASSUME IndInv, NEW w \in Workers, WorkerMarkDone(w) \/ WorkerDrop(w)
    PROVE  Contract!Next
<1> USE DEF IndInv
<1>1. UsingFrame(w) /\ worker[w].pc # "idle"
  BY DEF WorkerMarkDone, WorkerDrop, UsingFrame
<1>2. worker[w].frame \in InferringFrames
  BY <1>1 DEF InferenceInv
<1>3. (\A v \in Workers : v # w => worker'[v] = worker[v]) /\ ~UsingFrame(w)'
  BY DEF WorkerMarkDone, WorkerDrop, WorkerGoto, TypeOK, UsingFrame
<1>4. Using # {} /\ Using' = {}
  BY <1>1, <1>3, OneWorker, OneWorkerNext
<1>5. UNCHANGED <<nextId, pub>>
  BY DEF WorkerMarkDone, WorkerDrop, pullerVars
<1>6. /\ DOMAIN frames' = DOMAIN frames /\ DecodedFrames' = DecodedFrames
      /\ IdleDecoded' = IdleDecoded /\ UNCHANGED packets
  <2>1. CASE WorkerMarkDone(w)
    <3>1. worker[w].result \in {worker[w].frame, NoFrame}
      BY <2>1 DEF WorkerMarkDone, InferenceInv
    <3>2. NoFrame \notin DOMAIN frames
      BY BufferAssumption DEF NoFrame, TypeOK, BufferTypeOK, FrameIds
    <3> QED
      BY <1>2, <2>1, <3>1, <3>2, MarkingKeepsIdle DEF WorkerMarkDone, MarkInferenceDone, InferStates
  <2>2. CASE WorkerDrop(w)
    BY <1>2, <2>2, MarkingKeepsIdle DEF WorkerDrop, ClearInferenceSelection, InferStates
  <2> QED
    BY <2>1, <2>2
<1>7. Contract!EndUse
  BY <1>4, <1>5, <1>6 DEF Contract!EndUse, Leaving
<1> QED
  BY <1>7 DEF Contract!Next

(* Caching the result and ending the task are invisible. *)
LEMMA EndingInvisible ==
    ASSUME IndInv, NEW w \in Workers, WorkerUpdateCached(w) \/ EndTask(w)
    PROVE  UNCHANGED Contract!vars
<1> USE DEF IndInv
<1>1. ~UsingFrame(w) /\ worker[w].pc # "idle"
  BY DEF WorkerUpdateCached, EndTask, UsingFrame
<1>2. (\A v \in Workers : v # w => worker'[v] = worker[v]) /\ ~UsingFrame(w)'
  <2>1. CASE WorkerUpdateCached(w)
    BY <2>1 DEF WorkerUpdateCached, WorkerGoto, TypeOK, UsingFrame
  <2>2. CASE EndTask(w)
    <3>1. worker' = [worker EXCEPT ![w] = [pc |-> "idle", frame |-> NoFrame, result |-> NoFrame]]
      BY <2>2 DEF EndTask, WorkerReset
    <3> QED
      BY <3>1 DEF TypeOK, UsingFrame
  <2> QED
    BY <2>1, <2>2
<1>3. Using' = Using
  BY <1>1, <1>2, OneWorker, OneWorkerNext
<1>4. UNCHANGED <<packets, nextId, frames, pub>>
  BY DEF WorkerUpdateCached, UpdateCachedInferenceResult, EndTask, pullerVars, bufferVars
<1> QED
  BY <1>3, <1>4, InvisibleFrames DEF Leaving

-----------------------------------------------------------------------------
(* The publish thread. *)

(* Up to the pop, and after the end, the contract sees nothing. *)
LEMMA PublisherInvisible ==
    ASSUME IndInv, WaitForPublishable \/ PeekPacket \/ TakeResult \/ PublisherTop \/ WaitTimesOut
    PROVE  UNCHANGED Contract!vars
<1>1. UNCHANGED <<packets, nextId, frames, worker>>
  BY DEF WaitForPublishable, PeekPacket, TakeResult, TakeCachedInferenceResult, PublisherTop, WaitTimesOut,
     bufferVars, pullerVars
<1>2. pub.pc # "release" /\ pub'.pc # "release"
  BY DEF IndInv, TypeOK, WaitForPublishable, PeekPacket, TakeResult, PublisherTop, WaitTimesOut, PubWaiting
<1> QED
  BY <1>1, <1>2, InvisibleFrames DEF Using, UsingFrame, Leaving

(* A popped packet is the oldest one; if it is a video packet its frame is there and
   not in use. *)
LEMMA PopLeaves == IndInv /\ PublisherPop => Contract!Next
<1> SUFFICES ASSUME IndInv, PublisherPop PROVE Contract!Next
  OBVIOUS
<1> USE DEF IndInv
<1>1. pub.pc = "pop" /\ packets # <<>> /\ pub.packet = Head(packets) /\ packets' = Tail(packets)
  BY DEF PublisherPop, HandInv, PopPacket
<1>2. UNCHANGED <<nextId, frames, worker>>
  BY DEF PublisherPop, PopPacket, pullerVars
<1>3. DecodedFrames' = DecodedFrames /\ IdleDecoded' = IdleDecoded /\ Using' = Using
  BY <1>2 DEF DecodedFrames, IdleDecoded, Using, UsingFrame
<1>4. Leaving = {}
  BY <1>1 DEF Leaving
<1>5. pub.packet \in Packets /\ pub \in [pc : PubPcs, packet : Packets]
  BY DEF TypeOK
<1>6. CASE Head(packets).media = "Video"
  <2> DEFINE h == pub.packet.id
  <2>1. h \in FrameIds /\ pub.packet = VideoPacket(h) /\ h >= 0
    BY <1>1, <1>5, <1>6, BufferAssumption DEF Packets, VideoPacket, AudioPacket, FrameIds
  <2>2. h \in DOMAIN frames /\ h \notin InferringFrames
    BY <1>1, <2>1 DEF WindowInv, PassedGates
  <2>3. h \notin Using
    BY <2>2, UsingFacts
  <2>4. pub'.pc = "release" /\ pub'.packet = pub.packet
    BY <1>1, <1>5, <1>6, <2>1 DEF PublisherPop
  <2>5. Leaving' = {h}
    BY <2>4 DEF Leaving
  <2>6. Contract!Leave
    BY <1>1, <1>2, <1>3, <1>4, <1>6, <2>2, <2>3, <2>5 DEF Contract!Leave
  <2> QED
    BY <2>6 DEF Contract!Next
<1>7. CASE Head(packets).media # "Video"
  <2>1. Head(packets).media = "Audio"
    BY <1>1, <1>5, <1>7 DEF Packets, VideoPacket, AudioPacket
  <2>2. Leaving' = {}
    BY <1>1, <1>7 DEF PublisherPop, PubWaiting, Leaving
  <2>3. Contract!Leave
    BY <1>1, <1>2, <1>3, <1>4, <2>1, <2>2 DEF Contract!Leave
  <2> QED
    BY <2>3 DEF Contract!Next
<1> QED
  BY <1>6, <1>7

(* The frame that is released follows its packet; another image remains. *)
LEMMA ReleaseFollows == IndInv /\ PublisherRelease => Contract!Next
<1> SUFFICES ASSUME IndInv, PublisherRelease PROVE Contract!Next
  OBVIOUS
<1> USE DEF IndInv
<1> DEFINE h == pub.packet.id
<1>1. /\ pub.pc = "release" /\ pub' = PubWaiting
      /\ frames' = [f \in DOMAIN frames \ {h} |-> frames[f]]
      /\ UNCHANGED <<packets, nextId, worker>>
  BY DEF PublisherRelease, ReleaseFrame, pullerVars
<1>2. pub.packet = VideoPacket(h) /\ h \in FrameIds /\ h \in Int
  BY <1>1, BufferAssumption DEF HandInv, TypeOK, Packets, VideoPacket, AudioPacket, FrameIds
<1>3. /\ h \in DOMAIN frames /\ h \notin InferringFrames
      /\ frames[h].decoded => \E g \in DecodedFrames : g > h
  BY <1>1, <1>2 DEF WindowInv, PassedGates
<1>4. Leaving = {h} /\ Leaving' = {}
  BY <1>1 DEF Leaving, PubWaiting
<1>5. Leaving \cap Using = {}
  BY <1>3, <1>4, UsingFacts
<1>6. DecodedFrames # {} => DecodedFrames \ Leaving # {}
  <2>1. CASE frames[h].decoded
    <3>1. PICK g \in DecodedFrames : g > h
      BY <1>3, <2>1
    <3>2. g # h
      BY <1>2, <3>1
    <3> QED
      BY <1>4, <3>1, <3>2
  <2>2. CASE ~frames[h].decoded
    BY <1>4, <2>2 DEF DecodedFrames
  <2> QED
    BY <2>1, <2>2
<1>7. /\ DOMAIN frames' = DOMAIN frames \ Leaving
      /\ DecodedFrames' = DecodedFrames \ Leaving
      /\ IdleDecoded' = IdleDecoded \ Leaving
  BY <1>1, <1>4 DEF DecodedFrames, IdleDecoded
<1>8. Using' = Using
  BY <1>1 DEF Using, UsingFrame
<1>9. Contract!Release
  BY <1>1, <1>4, <1>5, <1>6, <1>7, <1>8 DEF Contract!Release
<1> QED
  BY <1>9 DEF Contract!Next

-----------------------------------------------------------------------------
(* The config thread and stopStream are invisible. *)
LEMMA StopperInvisible ==
    ASSUME \/ ListStream \/ UpdateStreamRuntime \/ UnlistStream \/ SetStopFlag
           \/ StopProgress \/ StreamDown \/ UNCHANGED vars
    PROVE  UNCHANGED Contract!vars
<1>1. UNCHANGED <<packets, nextId, frames, worker, pub>>
  BY DEF ListStream, UpdateStreamRuntime, UnlistStream, SetStopFlag, StopProgress, StopCompute,
     ClosePublisher, RemoveFromScheduler,
     StopPuller, StopStreamBuffer, JoinPublisher, ReleaseDetector, StopBuffer, StreamDown, vars,
     bufferVars, pullerVars
<1> QED
  BY <1>1, InvisibleFrames DEF Using, UsingFrame, Leaving

(* Every step of the stream is a step of the contract or none. *)
LEMMA StepImplements == IndInv /\ [Next]_vars => [Contract!Next]_(Contract!vars)
<1> SUFFICES ASSUME IndInv, [Next]_vars PROVE Contract!Next \/ UNCHANGED Contract!vars
  OBVIOUS
<1>1. CASE Puller
  BY <1>1, PullVideoComes, PullAudioComes, DeliverAligns, PullerInvisible DEF Puller, PullerCompute
<1>2. CASE \E w \in Workers : Worker(w)
  BY <1>2, AcquireBegins, WorkingInvisible, LettingGoEnds, EndingInvisible DEF Worker
<1>3. CASE Publisher
  BY <1>3, PublisherInvisible, PopLeaves, ReleaseFollows DEF Publisher, PublisherCompute
<1>4. CASE \/ ListStream \/ UpdateStreamRuntime \/ UnlistStream \/ SetStopFlag
           \/ StopProgress \/ StreamDown \/ UNCHANGED vars
  BY <1>4, StopperInvisible
<1> QED
  BY <1>1, <1>2, <1>3, <1>4 DEF Next

(* The stream keeps its contract: packets leave in order and once, each with its
   frame, inference looks at ever newer images, and no image is taken away while it
   is used or while it is the only one. *)
THEOREM KeepsContract == Spec => ImplementsContract
<1>1. Init => Contract!Init
  BY ContractInit
<1>2. IndInv /\ [Next]_vars => [Contract!Next]_(Contract!vars)
  BY StepImplements
<1> QED
  BY <1>1, <1>2, Inductive, PTL DEF Spec, ImplementsContract, Contract!Spec
=============================================================================
