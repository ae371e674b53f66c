--------------------------- MODULE StreamPipeline ---------------------------
(***************************************************************************)
(* One stream of the pipeline: the threads that share its StreamBuffer.    *)
(*   - the puller thread (RTSPPuller::pullLoop), which enqueues packets    *)
(*     and, as the decoder delivers, the frames aligned with them;         *)
(*   - the inference threads (Pipeline::inferLoop), which get a frame from *)
(*     the scheduler's entry of this stream;                               *)
(*   - the publish thread (Pipeline::publishLoop);                         *)
(*   - the thread that executes Pipeline::stopStream.                      *)
(* A step is one critical section of the buffer, the scheduler or the      *)
(* detector mutex; what a thread does between two of them is its own.      *)
(***************************************************************************)
EXTENDS StreamBuffer

CONSTANTS Workers,        \* inference threads
          MaxAudio,       \* bound: audio packets read in one behaviour
          MaxReconnects   \* bound: RTSP read errors followed by a reconnect

(* publishLoop passes kMinVideoWatermark = 1: the gates are never switched off. *)
ASSUME PipelineAssumption == MaxAudio \in Nat /\ MaxReconnects \in Nat /\ Watermark > 0

VARIABLES
    puller,     \* [pc, match]: match is how many pending entries are still to be
                \* enqueued for the decoder output being handled
    pending,    \* pending_video_frames_: frame ids, oldest first
    nextId,     \* next_frame_id_
    audioRead,  \* audio packets read so far
    reconnects, \* reconnects so far
    worker,     \* worker[w] = [pc, frame, result]
    entry,      \* the scheduler's Entry of this stream
    pub,        \* [pc, packet] of the publish thread
    stopper,    \* life of the stream: built but not yet in streams_, up, erased from
                \* streams_, then the progress of stopStream
    pullerStop, \* RTSPPuller::stop_flag_
    detector    \* detector_runtime->detector is not null

pullerVars == <<puller, pending, nextId, audioRead, reconnects>>
controlVars == <<stopper, pullerStop, detector>>
vars == <<bufferVars, pullerVars, worker, entry, pub, controlVars>>

PullerPcs == {"open", "ready", "read", "decode", "deliver", "exited"}
WorkerPcs == {"idle", "selected", "running", "lock", "done", "cache", "complete", "drop", "cancel"}
PubPcs == {"loop", "wait", "peek", "take", "pop", "release", "exited"}
LivePcs == {"building", "up", "unlisted"}
StopperPcs == LivePcs \cup
    {"flagged", "removed", "joinPuller", "joinPublisher", "closing", "releaseDetector", "down"}

NoFrame == -1

(* The publish thread at the head of its loop, with no packet in hand. *)
PubWaiting == [pc |-> "loop", packet |-> AudioPacket]

(* StreamContext::stop_flag, the first thing stopStream sets. *)
StopFlag == stopper \notin LivePcs

TypeOK ==
    /\ BufferTypeOK
    /\ puller \in [pc : PullerPcs, match : Nat]
    /\ pending \in Seq(FrameIds)
    /\ nextId \in 0 .. MaxFrames
    /\ audioRead \in 0 .. MaxAudio
    /\ reconnects \in 0 .. MaxReconnects
    /\ worker \in [Workers -> [pc : WorkerPcs, frame : FrameIds \cup {NoFrame},
                               result : FrameIds \cup {NoFrame}]]
    /\ entry \in [registered : BOOLEAN, inflight : BOOLEAN]
    /\ pub \in [pc : PubPcs, packet : Packets]
    /\ stopper \in StopperPcs
    /\ pullerStop \in BOOLEAN
    /\ detector \in BOOLEAN

Init ==
    /\ BufferInit
    /\ puller = [pc |-> "open", match |-> 0]
    /\ pending = <<>>
    /\ nextId = 0
    /\ audioRead = 0
    /\ reconnects = 0
    /\ worker = [w \in Workers |-> [pc |-> "idle", frame |-> NoFrame, result |-> NoFrame]]
    /\ entry = [registered |-> TRUE, inflight |-> FALSE]
    /\ pub = PubWaiting
    /\ stopper = "building"
    /\ pullerStop = FALSE
    /\ detector \in BOOLEAN

-----------------------------------------------------------------------------
(* The puller thread. *)

(* openStream succeeds.  Until then the thread tries again and again; the camera's
   input has an interrupt callback that reads stop_flag_. *)
OpenSource ==
    /\ puller.pc = "open"
    /\ puller' = [puller EXCEPT !.pc = "ready"]
    /\ UNCHANGED <<bufferVars, pending, nextId, audioRead, reconnects, worker, entry, pub, controlVars>>

(* The stream-ready callback returns: it has opened the publisher's connection to
   the output server, which has neither a time limit nor an interrupt callback. *)
StreamReady ==
    /\ puller.pc = "ready"
    /\ puller' = [puller EXCEPT !.pc = "read"]
    /\ UNCHANGED <<bufferVars, pending, nextId, audioRead, reconnects, worker, entry, pub, controlVars>>

PullerReading == puller.pc = "read" /\ ~pullerStop

(* av_read_frame returns a video packet: it is enqueued, its metadata becomes
   pending and it is submitted to the decoder. *)
PullVideo ==
    /\ PullerReading
    /\ nextId < MaxFrames
    /\ EnqueuePacket(VideoPacket(nextId))
    /\ pending' = Append(pending, nextId)
    /\ nextId' = nextId + 1
    /\ puller' = [puller EXCEPT !.pc = "decode"]
    /\ UNCHANGED <<audioRead, reconnects, worker, entry, pub, controlVars>>

PullAudio ==
    /\ PullerReading
    /\ audioRead < MaxAudio
    /\ EnqueuePacket(AudioPacket)
    /\ audioRead' = audioRead + 1
    /\ UNCHANGED <<puller, pending, nextId, reconnects, worker, entry, pub, controlVars>>

(* takePendingVideoFrameMeta: a decoder output matches some pending entry by pts
   or dts, or, with neither set, the oldest.  The entries before it are enqueued
   as placeholders.  An output that matches nothing changes no state. *)
MatchPending ==
    /\ puller.pc = "decode"
    /\ \E k \in 1 .. Len(pending) : puller' = [pc |-> "deliver", match |-> k]
    /\ UNCHANGED <<bufferVars, pending, nextId, audioRead, reconnects, worker, entry, pub, controlVars>>

(* Faulty variant: the entries before the matched one get no placeholder. *)
DeliverWithoutPlaceholder ==
    /\ puller.pc = "deliver"
    /\ IF puller.match = 1
       THEN \E decoded \in BOOLEAN : EnqueueFrame(Head(pending), decoded)
       ELSE UNCHANGED bufferVars
    /\ pending' = Tail(pending)
    /\ puller' = [pc |-> IF puller.match = 1 THEN "decode" ELSE "deliver",
                  match |-> puller.match - 1]
    /\ UNCHANGED <<nextId, audioRead, reconnects, worker, entry, pub, controlVars>>

(* enqueuePendingFrame: a placeholder has no image; for the matched frame
   buildDecodedImage may fail. *)
DeliverFrame ==
    /\ puller.pc = "deliver"
    /\ \E decoded \in BOOLEAN :
          /\ decoded => puller.match = 1
          /\ EnqueueFrame(Head(pending), decoded)
    /\ pending' = Tail(pending)
    /\ puller' = [pc |-> IF puller.match = 1 THEN "decode" ELSE "deliver",
                  match |-> puller.match - 1]
    /\ UNCHANGED <<nextId, audioRead, reconnects, worker, entry, pub, controlVars>>

(* The decoder has no further output for this packet. *)
DecodeDone ==
    /\ puller.pc = "decode"
    /\ puller' = [puller EXCEPT !.pc = "read"]
    /\ UNCHANGED <<bufferVars, pending, nextId, audioRead, reconnects, worker, entry, pub, controlVars>>

(* A read error: closeStream and then openStream forget the pending entries, and
   the camera is opened again. *)
Reconnect ==
    /\ PullerReading
    /\ reconnects < MaxReconnects
    /\ reconnects' = reconnects + 1
    /\ pending' = <<>>
    /\ puller' = [puller EXCEPT !.pc = "open"]
    /\ UNCHANGED <<bufferVars, nextId, audioRead, worker, entry, pub, controlVars>>

(* The stream cannot be opened and reconnect_interval_s <= 0: the loop ends,
   although nobody has asked for it. *)
PullerGivesUp ==
    /\ puller.pc = "open" /\ ~pullerStop
    /\ puller' = [puller EXCEPT !.pc = "exited"]
    /\ UNCHANGED <<bufferVars, pending, nextId, audioRead, reconnects, worker, entry, pub, controlVars>>

(* Faulty variant: the loop goes on instead of ending. *)
PullerContinues ==
    /\ puller.pc \in {"open", "read"} /\ pullerStop
    /\ pending' = <<>>
    /\ UNCHANGED <<bufferVars, puller, nextId, audioRead, reconnects, worker, entry, pub, controlVars>>

PullerExit ==
    /\ puller.pc \in {"open", "read"} /\ pullerStop
    /\ puller' = [puller EXCEPT !.pc = "exited"]
    /\ pending' = <<>>
    /\ UNCHANGED <<bufferVars, nextId, audioRead, reconnects, worker, entry, pub, controlVars>>

-----------------------------------------------------------------------------
(* An inference thread. *)

WorkerGoto(w, pc) == worker' = [worker EXCEPT ![w].pc = pc]
WorkerReset(w) ==
    worker' = [worker EXCEPT ![w] = [pc |-> "idle", frame |-> NoFrame, result |-> NoFrame]]

(* Faulty variant: the entry is not marked as in flight. *)
AcquireWithoutInflight(w) ==
    /\ worker[w].pc = "idle"
    /\ entry.registered /\ ~entry.inflight
    /\ \E id \in IdleDecoded :
          /\ SelectFrameForInference(id)
          /\ worker' = [worker EXCEPT ![w] = [pc |-> "selected", frame |-> id, result |-> NoFrame]]
    /\ UNCHANGED <<entry, pullerVars, pub, controlVars>>

(* acquireTask: the scheduler selects a frame of this stream under its own lock. *)
AcquireTask(w) ==
    /\ worker[w].pc = "idle"
    /\ entry.registered /\ ~entry.inflight
    /\ \E id \in IdleDecoded :
          /\ SelectFrameForInference(id)
          /\ worker' = [worker EXCEPT ![w] = [pc |-> "selected", frame |-> id, result |-> NoFrame]]
    /\ entry' = [entry EXCEPT !.inflight = TRUE]
    /\ UNCHANGED <<pullerVars, pub, controlVars>>

WorkerMarkRunning(w) ==
    /\ worker[w].pc = "selected"
    /\ MarkInferenceRunning(worker[w].frame)
    /\ WorkerGoto(w, "running")
    /\ UNCHANGED <<pullerVars, entry, pub, controlVars>>

(* findStream and the check of stop_flag: a stream is registered with the
   scheduler before it is in streams_, and may have left streams_ already. *)
CheckStream(w) ==
    /\ worker[w].pc = "running"
    /\ WorkerGoto(w, IF stopper = "up" THEN "lock" ELSE "drop")
    /\ UNCHANGED <<bufferVars, pullerVars, entry, pub, controlVars>>

DetectorMutexFree == \A w \in Workers : worker[w].pc \notin {"done", "cache"}

(* detect() under the detector mutex.  Its early returns (not initialised, no
   usable image, inference skipped by the preprocessing, inference failed) give a
   result with frame_id -1. *)
Detect(w) ==
    /\ worker[w].pc = "lock"
    /\ DetectorMutexFree
    /\ detector
    /\ \E result \in {worker[w].frame, NoFrame} :
          worker' = [worker EXCEPT ![w].pc = "done", ![w].result = result]
    /\ UNCHANGED <<bufferVars, pullerVars, entry, pub, controlVars>>

DetectorGone(w) ==
    /\ worker[w].pc = "lock"
    /\ DetectorMutexFree
    /\ ~detector
    /\ WorkerGoto(w, "drop")
    /\ UNCHANGED <<bufferVars, pullerVars, entry, pub, controlVars>>

WorkerMarkDone(w) ==
    /\ worker[w].pc = "done"
    /\ MarkInferenceDone(worker[w].result)
    /\ WorkerGoto(w, "cache")
    /\ UNCHANGED <<pullerVars, entry, pub, controlVars>>

WorkerUpdateCached(w) ==
    /\ worker[w].pc = "cache"
    /\ UpdateCachedInferenceResult(worker[w].result)
    /\ WorkerGoto(w, "complete")
    /\ UNCHANGED <<pullerVars, entry, pub, controlVars>>

WorkerDrop(w) ==
    /\ worker[w].pc = "drop"
    /\ ClearInferenceSelection(worker[w].frame, "Dropped")
    /\ WorkerGoto(w, "cancel")
    /\ UNCHANGED <<pullerVars, entry, pub, controlVars>>

(* completeTask and cancelTask have the same body. *)
EndTask(w) ==
    /\ worker[w].pc \in {"complete", "cancel"}
    /\ entry' = [entry EXCEPT !.inflight = IF entry.registered THEN FALSE ELSE entry.inflight]
    /\ WorkerReset(w)
    /\ UNCHANGED <<bufferVars, pullerVars, pub, controlVars>>

-----------------------------------------------------------------------------
(* The publish thread. *)

(* The head of the loop reads the stop flag of the stream. *)
PublisherTop ==
    /\ pub.pc = "loop"
    /\ pub' = [pub EXCEPT !.pc = IF StopFlag THEN "exited" ELSE "wait"]
    /\ UNCHANGED <<bufferVars, pullerVars, worker, entry, controlVars>>

(* waitForPublishable returns true. *)
WaitForPublishable ==
    /\ pub.pc = "wait"
    /\ ~stopped /\ CanPublish
    /\ pub' = [pub EXCEPT !.pc = "peek"]
    /\ UNCHANGED <<bufferVars, pullerVars, worker, entry, controlVars>>

(* It returns false: the buffer is stopped, or 200 ms have passed. *)
WaitTimesOut ==
    /\ pub.pc = "wait"
    /\ stopped \/ ~CanPublish
    /\ pub' = PubWaiting
    /\ UNCHANGED <<bufferVars, pullerVars, worker, entry, controlVars>>

(* peekPacket.  An audio packet goes straight to writePacket. *)
PeekPacket ==
    /\ pub.pc = "peek"
    /\ packets # <<>>
    /\ pub' = [pc |-> IF Head(packets).media = "Video" THEN "take" ELSE "pop",
               packet |-> Head(packets)]
    /\ UNCHANGED <<bufferVars, pullerVars, worker, entry, controlVars>>

(* The result for the SEI message. *)
TakeResult ==
    /\ pub.pc = "take"
    /\ TakeCachedInferenceResult(pub.packet.id)
    /\ pub' = [pub EXCEPT !.pc = "pop"]
    /\ UNCHANGED <<pullerVars, worker, entry, controlVars>>

(* writePacket, which may wait for the output server without limit, has returned,
   well or not, and so has the recorder: the packet is popped. *)
PublisherPop ==
    /\ pub.pc = "pop"
    /\ PopPacket
    /\ pub' = IF pub.packet.media = "Video" /\ pub.packet.id >= 0
              THEN [pub EXCEPT !.pc = "release"] ELSE PubWaiting
    /\ UNCHANGED <<pullerVars, worker, entry, controlVars>>

PublisherRelease ==
    /\ pub.pc = "release"
    /\ ReleaseFrame(pub.packet.id)
    /\ pub' = PubWaiting
    /\ UNCHANGED <<pullerVars, worker, entry, controlVars>>

-----------------------------------------------------------------------------
(* The config thread, and Pipeline::stopStream. *)

StopperGoto(from, to) == stopper = from /\ stopper' = to

(* applyConfigBatch puts the stream it has built into streams_. *)
ListStream ==
    /\ StopperGoto("building", "up")
    /\ UNCHANGED <<bufferVars, pullerVars, worker, entry, pub, pullerStop, detector>>

(* updateStreamRuntime: the detector is replaced under its mutex; a configuration
   without algorithms, or a failed init, leaves none. *)
UpdateStreamRuntime ==
    /\ stopper = "up"
    /\ DetectorMutexFree
    /\ detector' = ~detector
    /\ UNCHANGED <<bufferVars, pullerVars, worker, entry, pub, stopper, pullerStop>>

(* The stream is erased from streams_ before it is stopped. *)
UnlistStream ==
    /\ StopperGoto("up", "unlisted")
    /\ UNCHANGED <<bufferVars, pullerVars, worker, entry, pub, pullerStop, detector>>

(* stopStream, or requestAsyncStopStream, which sets the flag first. *)
SetStopFlag ==
    /\ \E from \in LivePcs : StopperGoto(from, "flagged")
    /\ UNCHANGED <<bufferVars, pullerVars, worker, entry, pub, pullerStop, detector>>

RemoveFromScheduler ==
    /\ StopperGoto("flagged", "removed")
    /\ entry' = [entry EXCEPT !.registered = FALSE]
    /\ UNCHANGED <<bufferVars, pullerVars, worker, pub, pullerStop, detector>>

StopPuller ==
    /\ StopperGoto("removed", "joinPuller")
    /\ pullerStop' = TRUE
    /\ UNCHANGED <<bufferVars, pullerVars, worker, entry, pub, detector>>

(* The puller has been joined; buffer->stop(). *)
StopStreamBuffer ==
    /\ StopperGoto("joinPuller", "joinPublisher")
    /\ puller.pc = "exited"
    /\ StopBuffer
    /\ UNCHANGED <<pullerVars, worker, entry, pub, pullerStop, detector>>

JoinPublisher ==
    /\ StopperGoto("joinPublisher", "closing")
    /\ pub.pc = "exited"
    /\ UNCHANGED <<bufferVars, pullerVars, worker, entry, pub, pullerStop, detector>>

(* publisher->close(), which writes a trailer to the output server, and the recorder's
   and the snapshotter's close() have returned. *)
ClosePublisher ==
    /\ StopperGoto("closing", "releaseDetector")
    /\ UNCHANGED <<bufferVars, pullerVars, worker, entry, pub, pullerStop, detector>>

ReleaseDetector ==
    /\ StopperGoto("releaseDetector", "down")
    /\ DetectorMutexFree
    /\ detector' = FALSE
    /\ UNCHANGED <<bufferVars, pullerVars, worker, entry, pub, pullerStop>>

(* The stream is down and no inference thread works for it any more. *)
StreamDown ==
    /\ stopper = "down"
    /\ \A w \in Workers : worker[w].pc = "idle"
    /\ UNCHANGED vars

-----------------------------------------------------------------------------
PullerCompute == MatchPending \/ DeliverFrame \/ DecodeDone \/ PullerExit

Puller ==
    \/ OpenSource \/ StreamReady \/ PullVideo \/ PullAudio
    \/ Reconnect \/ PullerGivesUp \/ PullerCompute

Worker(w) ==
    \/ AcquireTask(w) \/ WorkerMarkRunning(w) \/ CheckStream(w)
    \/ Detect(w) \/ DetectorGone(w)
    \/ WorkerMarkDone(w) \/ WorkerUpdateCached(w)
    \/ WorkerDrop(w) \/ EndTask(w)

PublisherCompute ==
    \/ PublisherTop \/ WaitForPublishable \/ WaitTimesOut \/ PeekPacket \/ TakeResult
    \/ PublisherRelease

Publisher == PublisherCompute \/ PublisherPop

StopCompute ==
    \/ RemoveFromScheduler \/ StopPuller \/ StopStreamBuffer
    \/ JoinPublisher \/ ReleaseDetector

StopProgress == StopCompute \/ ClosePublisher

Next ==
    \/ Puller
    \/ \E w \in Workers : Worker(w)
    \/ Publisher
    \/ ListStream \/ UpdateStreamRuntime \/ UnlistStream
    \/ SetStopFlag
    \/ StopProgress
    \/ StreamDown

Spec == Init /\ [][Next]_vars

(* Threads are scheduled fairly, and a stream that has left streams_ is stopped.
   Nothing is assumed of the network: the camera may send no packet and never be
   opened (OpenSource, PullVideo, PullAudio), and the output server may keep a call of
   the publisher waiting for ever (StreamReady, PublisherPop, ClosePublisher).  Nobody
   has to stop the stream. *)
Fairness ==
    /\ WF_vars(PullerCompute)
    /\ \A w \in Workers : WF_vars(Worker(w))
    /\ WF_vars(PublisherCompute)
    /\ WF_vars(StopCompute)
    /\ WF_vars(stopper = "unlisted" /\ SetStopFlag)

FairSpec == Spec /\ Fairness

-----------------------------------------------------------------------------
(* Properties. *)

(* The publish thread is past waitForPublishable with a video packet in hand. *)
Publishing == pub.pc \in {"take", "pop", "release"} /\ pub.packet.media = "Video"

(* The worker's frame is in use: selected and not yet marked Done or Dropped. *)
UsingFrame(w) == worker[w].pc \in {"selected", "running", "lock", "done", "drop"}

(* A frame an inference thread is using stays in the buffer: the publish thread
   never releases it, although waitForPublishable, popPacket and releaseFrame are
   three critical sections and a frame may be selected between them. *)
InUseFrameKept == \A w \in Workers : UsingFrame(w) => worker[w].frame \in DOMAIN frames

(* The packet being published is never the packet of a frame in inference. *)
NotPublishingInferring ==
    Publishing /\ pub.packet.id \in DecodedFrames
        => ~IsInferring(frames[pub.packet.id].infer_state)

(* Gate 2: no frame is enqueued after its packet has left: every frame of the
   buffer belongs to a queued packet or to the packet whose frame is about to be
   released, so frames_ cannot leak. *)
FramesHavePackets ==
    \A id \in DOMAIN frames :
        \/ \E i \in 1 .. Len(packets) : packets[i] = VideoPacket(id)
        \/ pub.pc = "release" /\ pub.packet.id = id

(* Gate 3: once the buffer holds a decoded frame it always holds one, so
   inference has something to select from. *)
DecodedFrameRemains == [][DecodedFrames # {} => DecodedFrames' # {}]_vars

(* Gate 4: a pop of a video packet leaves at least Watermark video packets. *)
PopKeepsWatermark == [][videoCount' < videoCount => videoCount' >= Watermark]_vars

(* frame_order_ is in frame_id order although frames come from the decoder, so
   the last Idle frame is the newest one. *)
OrderFollowsIds ==
    \A f, g \in DOMAIN frames : f < g => frames[f].pos < frames[g].pos

(* Inference moves forward: a frame is only selected if it is newer than every
   frame selected or skipped before it that is still in the buffer. *)
IdleFramesNewest ==
    \A f, g \in DecodedFrames :
        f < g /\ frames[f].infer_state = "Idle" => frames[g].infer_state = "Idle"

(* What the liveness properties assume of the output server, of which the code can
   enforce nothing: its answers let writePacket, configure and close return. *)
WritesReturn == []<>(pub.pc # "pop")
OpensReturn == []<>(puller.pc # "ready")
ClosesReturn == []<>(stopper # "closing")

(* A queued video packet with a newer decoded frame in the buffer, and enough
   packets behind it for the watermark, is eventually published, whatever
   inference does meanwhile, unless the stream is stopped or the output server keeps
   a write waiting for ever. *)
Queued(id) == \E i \in 1 .. Len(packets) : packets[i] = VideoPacket(id)
Followed(id) == \E j \in DecodedFrames : j > id /\ j >= id + Watermark
PublishProgress ==
    WritesReturn => \A id \in FrameIds : Queued(id) /\ Followed(id) ~> ~Queued(id) \/ StopFlag

(* stopStream ends: no join in it waits for ever, whatever the camera does, provided
   that each call of the publisher returns.  No part of that provision can be left
   out: the writes and the opening keep the joins waiting, the closing stopStream
   itself. *)
StopTerminates ==
    WritesReturn /\ OpensReturn /\ ClosesReturn => (StopFlag ~> stopper = "down")

(* The frames inference threads are using, and the video packet that has been popped
   and whose frame is still to be released. *)
Using == {worker[w].frame : w \in {v \in Workers : UsingFrame(v)}}
Leaving == IF pub.pc = "release" THEN {pub.packet.id} ELSE {}

(* What the stream promises to the outside: a step of any of the threads is one of
   the contract's steps or none at all. *)
Contract == INSTANCE StreamContract WITH
    queue   <- packets,
    next    <- nextId,
    aligned <- DOMAIN frames,
    images  <- DecodedFrames,
    fresh   <- IdleDecoded,
    using   <- Using,
    leaving <- Leaving

(* Packets leave in order and once, each with its frame; inference goes forward in
   time; no image is released while it is used or while it is the only one. *)
ImplementsContract == Contract!Spec

-----------------------------------------------------------------------------
(* The inductive invariant behind the safety properties above. *)

(* frame_id of the oldest video packet still queued. *)
Low == nextId - videoCount

(* The video packets queued are those with ids Low .. nextId - 1, in order. *)
QueueInv ==
    /\ videoCount <= nextId
    /\ \A i \in 1 .. Len(packets) :
          packets[i].media = "Video" => Low <= packets[i].id /\ packets[i].id < nextId
    /\ \A i, j \in 1 .. Len(packets) :
          i < j /\ packets[i].media = "Video" /\ packets[j].media = "Video"
              => packets[i].id < packets[j].id
    /\ \A id \in FrameIds : Low <= id /\ id < nextId
          => \E i \in 1 .. Len(packets) : packets[i] = VideoPacket(id)

(* What the publish thread holds is the head of the queue, until it pops it. *)
HandInv ==
    /\ pub.pc \in {"peek", "take", "pop"} => packets # <<>>
    /\ pub.pc \in {"take", "pop"} => pub.packet = Head(packets)
    /\ pub.pc \in {"take", "release"} => pub.packet.media = "Video"
    /\ pub.pc = "release" => pub.packet.id = Low - 1

(* Pending ids are in order, not yet published, newer than every frame. *)
PendingInv ==
    /\ \A i \in 1 .. Len(pending) : Low <= pending[i] /\ pending[i] < nextId
    /\ \A i, j \in 1 .. Len(pending) : i < j => pending[i] < pending[j]
    /\ \A i \in 1 .. Len(pending) : \A f \in DOMAIN frames : f < pending[i]
    /\ puller.pc = "deliver" => puller.match >= 1 /\ puller.match <= Len(pending)
    /\ stopped => puller.pc = "exited"

FrameInv ==
    /\ \A f \in DOMAIN frames :
          /\ f < nextId
          /\ Low <= f \/ (pub.pc = "release" /\ pub.packet.id = f)
          /\ frames[f].pos < nextPos
    /\ OrderFollowsIds
    /\ IdleFramesNewest

(* One inference in flight, on a decoded frame of the buffer; at most one frame is
   marked Selected or Running. *)
InferenceInv ==
    /\ \A v, w \in Workers : worker[v].pc # "idle" /\ worker[w].pc # "idle" => v = w
    /\ entry.registered /\ ~entry.inflight => \A w \in Workers : worker[w].pc = "idle"
    /\ \A w \in Workers : UsingFrame(w) => worker[w].frame \in InferringFrames
    /\ \A w \in Workers : worker[w].pc = "done" => worker[w].result \in {worker[w].frame, NoFrame}
    /\ \A f, g \in InferringFrames : f = g

(* The video packet that has passed the gates. *)
PassedGates(h) ==
    \/ pub.pc = "peek" /\ Head(packets) = VideoPacket(h)
    \/ pub.pc \in {"take", "pop", "release"} /\ pub.packet = VideoPacket(h)

(* The gates keep holding until the frame of that packet is released. *)
WindowInv ==
    \A h \in FrameIds : PassedGates(h) =>
        /\ h \in DOMAIN frames
        /\ h \notin InferringFrames
        /\ frames[h].decoded => \E g \in DecodedFrames : g > h
        /\ IF pub.pc = "release" THEN videoCount >= Watermark ELSE videoCount > Watermark

IndInv ==
    /\ TypeOK
    /\ QueueInv
    /\ HandInv
    /\ PendingInv
    /\ FrameInv
    /\ InferenceInv
    /\ WindowInv
=============================================================================
