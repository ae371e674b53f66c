# TLA+ models of media-agent

media-agent pulls RTSP streams, decodes them, runs inference on the decoded
frames, publishes the packets again with the results attached, records and
reports alarms, and is controlled over a socket by a platform process. This
directory specifies the parts of it that are hard to test: what its threads do
to each other. The modules are checked with TLC on small instances; the safety of
all the state machines, and the refinement of the contract of a stream, are also
proved with TLAPS for every instance.

Source paths below are relative to the code directory `src/` of the repository
(`pipeline/Pipeline.cpp` is `src/pipeline/Pipeline.cpp` there).

## 1. The system

### Threads

| thread | code | touches |
|---|---|---|
| main | `Pipeline::start`, `Pipeline::stop` | everything, once at each end |
| config | `Pipeline::mainLoop` | `configs_`, `streams_`, builds and stops streams |
| socket send / receive | `SocketSender::sendLoop`, `recvLoop` | queue, `fd_`; the receive thread calls `handleSocketConfig` |
| heartbeat | `Pipeline::heartbeatLoop` | pushes to the queue |
| inference (several) | `Pipeline::inferLoop` | scheduler, every stream's buffer, detector, recorder, queue |
| puller (per stream) | `RTSPPuller::pullLoop` | buffer; its ready callback may ask for the stop of its own stream |
| publisher (per stream) | `Pipeline::publishLoop` | buffer, recorder, RTSP output |

### Components

| component | state | operations | what makes it correct |
|---|---|---|---|
| StreamBuffer | packet queue, frames with an inference state, `frame_order_`, cached results, `stopped_` | enqueue packet/frame, select, mark, publishable?, pop, release, cached result | a frame in use is never released; frames and packets leave together; inference goes forward in time; a decoded frame and a watermark of packets stay |
| RTSPPuller | connection, pending metadata, next frame id | read, decode and align, reconnect, stop | every packet gets its frame or a placeholder, in order |
| inference and publish loops | task, packet in hand | `inferLoop`, `publishLoop`, `stopStream` | progress of publishing, end of every stop |
| InferScheduler | entries by stream id, `order_`, `cursor_` | upsert, remove, acquire, complete/cancel, stop | one inference per stream, no stream skipped or starved |
| Pipeline lifecycle | `configs_`, pending flag, `streams_`, pending stops, contexts | `handleSocketConfig`, `mainLoop`, `applyConfigBatch`, `buildStreamContext`, `requestAsyncStopStream`, `stop` | no configuration and no stop is forgotten, one running context per stream, nothing left after stop |
| ConfigFilter | none; `configs_` and the configuration of each stream around it | `buildMergedStreams`, comparisons | the declared merge, applied completely and with least disturbance |
| Recorder | tracks, GOP cache, deadline, open file | configure, trigger, append, close | contiguous recordings of one source, from a key frame to the latest end asked for, always finalised |
| RtspPublisher | URL, tracks, session | configure, write (reopening once), close | has the tracks of the source, no session after the stop |
| SeiInjector | none; `video_nal_length_size` of the stream around it | build the NAL unit, escape, frame, put in front | a decoder finds message and picture, in the codec and framing of the packet |
| detector steps, tracker | active algorithms, tracker and its settings, last alarm by track and by class | `detect`, reconfigure | no alarm repeated within the window, none lost to another object |
| Snapshotter | name of the last snapshot, time of the last one | throttle, save, close | an alarm names a recent snapshot or none |
| IPC (queue, SocketSender, IpcClient) | bounded queue, `fd_`, counters | push, send, receive, acknowledge, stop | framing, accounting, no silent loss of a configuration, sending resumes |
| Statistics, MppDecoder, numerical work of detector and tracker, MessageMapper, start-up | | | not modelled, see section 8 |

`PROJECT.json` lists every component with its status, every definition with the
lines it models (`map`), and the hazards of the code with the properties that
cover them (`hazards`).

### What is hard

The publish thread decides under one lock, takes a packet under a second and
releases the frame under a third, while the decoder and the inference threads
work in between. The scheduler finds streams by id, but a stream may be removed
and registered again while an inference of its old self is running. Streams are
stopped by the config thread, the main thread or at the request of their own
puller. `fd_` is shared by two threads that close it under each other.
Configurations arrive while the previous ones are being applied. A camera that
reconnects with other tracks reconfigures publisher and recorder while packets
of the old opening are still queued for them. The detector's memory of alarms
outlives the tracker whose numbers it is keyed by.

## 2. Modules

| module | models | extends |
|---|---|---|
| `StreamBuffer` | `pipeline/StreamBuffer.cpp`: one operator per method | |
| `StreamPipeline` | one stream: puller, inference threads, publish thread, `stopStream` | `StreamBuffer` |
| `StreamContract` | what one stream promises, without threads, locks and inference states; `StreamPipeline` implements it | |
| `StreamPipelineProofs` | theorems about `StreamPipeline` | `StreamPipeline` |
| `StreamContractProofs` | the refinement proof | `StreamPipelineProofs` |
| `InferScheduler` | `pipeline/InferScheduler.cpp` with several streams and workers | |
| `PipelineLifecycle` | configuration, start, asynchronous stop and shutdown | |
| `ConfigFilter` | `pipeline/ConfigFilter.cpp` as operators | |
| `StreamConfiguration` | what `applyConfigBatch` makes of the merged configuration | `ConfigFilter` |
| `AlarmRecorder` | `stream/Recorder.cpp`: one operator per method | |
| `RtspPublisher` | `stream/RtspPublisher.cpp`: one operator per method | |
| `StreamOutput` | the threads around publisher, SEI and recorder: stream-ready callback, what `publishLoop` does with a packet, alarms, `stopStream` | `AlarmRecorder`, `RtspPublisher` |
| `SeiInjector` | `stream/SeiInjector.cpp` as operators on sequences of bytes | |
| `AlarmPath` | `detector/AlgoDetectorWorkflow.cpp` and the snapshot of an alarm | |
| `SocketSender` | `ipc/SocketSender.cpp`, `ipc/IpcClient.cpp`, `common/ThreadSafeQueue.h`, and the peer | |
| `InferSchedulerProofs`, `PipelineLifecycleProofs`, `StreamOutputProofs`, `AlarmPathProofs`, `StreamConfigurationProofs`, `SocketSenderProofs` | theorems about the module of that name | that module |
| `MC...` | the instances given to TLC | |

One action is one critical section: two calls that each take the lock are two
actions, and other threads may step between them. Where an action covers more
than that, the state it touches belongs to one thread.

**StreamPipeline.** `frames` is `frames_` with `frame_order_` as a position;
`packets` and `videoCount` are the queue and `video_packet_count_`. The puller
reads a packet (`PullVideo`, `PullAudio`), then the decoder delivers any pending
frame (`MatchPending`), and the frames of the entries before it are enqueued as
placeholders (`DeliverFrame`, one step each). A worker goes through
`AcquireTask`, `WorkerMarkRunning`, `CheckStream`, `Detect` (its early returns
give a result without a frame id, as `FrameInferenceResult{}` does),
`WorkerMarkDone`, `WorkerUpdateCached` and `EndTask`; the publish thread through
`PublisherTop` (the stop flag), `WaitForPublishable` or `WaitTimesOut`,
`PeekPacket`, `TakeResult`, `PublisherPop` (the write to the output server has
returned) and `PublisherRelease`. The puller opens its source (`OpenSource`, or
`PullerGivesUp`) and calls back with it (`StreamReady`: the publisher has been
configured). `stopper` is the progress of `stopStream`, `ClosePublisher` being the
return of the publisher's `close()`. The three places where a thread is inside a
call to the output server (`pub.pc = "pop"`, `puller.pc = "ready"`,
`stopper = "closing"`) are states of their own, because `RtspPublisher` sets neither
a time limit nor an interrupt callback. The gates of
`canPublishLocked` are `InferenceGate`, `FrameGate` and the rest of
`CanPublish`. `skills/modules/pipeline.md` describes the first gate as waiting
for the earliest decoded frame to be `Done` or `Dropped`; the code waits only
for a frame that is `Selected` or `Running`, and so does the model.

**InferScheduler.** Buffers are numbered per stream (`generation`), so that a
restart under the same id can be told apart from the old stream.

**PipelineLifecycle.** The config thread's wait is split into the test of the
predicate and the blocking, since `stop()` notifies without the mutex. Contexts
are numbered in the order they are built. A merged configuration is a transport
part and a runtime part per stream.

**ConfigFilter and StreamConfiguration.** The fields
`TransportStreamConfigView` compares are one value; a batch is applied in one
step, because only contents matter here. `built` and `detector.made` tell
instances of a context and of a detector apart.

**StreamContract.** Seven variables: the packets that wait, the number of the
next one, the frames that have come (`aligned`), those with an image, those
inference may still look at, the one it looks at, the packet that has left and
not yet taken its frame along. `StreamPipeline` instantiates it as `Contract`:

| contract | StreamPipeline |
|---|---|
| `queue`, `next` | `packets`, `nextId` |
| `aligned` | `DOMAIN frames` |
| `images` | `DecodedFrames` |
| `fresh` | `IdleDecoded` |
| `using` | `Using`: the frames of the workers from selection to `markInferenceDone` or the drop |
| `leaving` | `Leaving`: the packet in hand between `popPacket` and `releaseFrame` |

Pending metadata, caches, reconnects, the stop and the waiting of every thread
are hidden.

**AlarmRecorder, RtspPublisher and StreamOutput.** A source packet is its track,
its key flag and the number of the opening it was read from; `done` is how many
have been published, so the rest is the queue, and `StreamOutput` lets its head
be published at any time (the gates are the subject of `StreamPipeline`). A file
is the sequence of packets written to it. An opening is a layout of tracks; the
callback's three effects (NAL length size, publisher, recorder) are three steps,
with the publish thread in between. `promised` and `clearedAt` are history
variables. `LooksAnnexB` is what `isAnnexB` may answer for a packet: it is a test
of the first bytes, which a length can imitate.

**SeiInjector.** Pure operators; `SeiReadable`, in `MCStreamOutput`, compares
them with what a decoder does, written down independently, over all messages of
up to 5 bytes from {0, 1, 3, 4} and all lengths up to 600.

**AlarmPath.** One inference at a time (the detector mutex); the frame's objects
arrive in any order. `ma_tracker_process` is any assignment of tracks that keeps
an object on its track and gives no track to two objects. Alarms are keyed by
track or class as in the code. The history `alarms` of what was reported outlives
the detector: when other algorithms replace it and its table, the alarms so far are
marked `replaced`. Reading the snapshot's name while `close()` clears
it gives the name, nothing or `Torn`. Monotonic and wall-clock time run alike.

**SocketSender.** An outgoing message on the wire is a header and a body; an incoming
frame is the magic number, the length and `PayloadLen` pieces of payload. `conn[i]` is
the i-th connection with what was written and what is to be read. The receive thread
takes piece after piece, each from the connection `fd_` stands for at that time, and
ends a payload when it has as many as the length said (`Whole`): a payload begun on
one connection goes on with the bytes of the next, header words and whole frames
included, and may also be left waiting there in the middle. `swallowed` is the
history of the frames that lost a piece in this way. A failed read tests the stop
flag and closes the socket in two steps (`ReceiverFails`, `ReceiverDisconnect`). A descriptor that
was closed may be the next connection's when it is used. Peer actions (listen, send, close) are modelled
from the way the code uses them.

## 3. Runs

| run | instance | result |
|---|---|---|
| `sp_safety` | 3 frames, 2 workers, 1 audio packet or 1 reconnect; 1.2M states | passes |
| `sp_live` | 3 frames, 1 worker, no reconnect; fairness | passes |
| `sp_reconnect` | as before, 1 reconnect | **violated**: `PublishProgress` |
| `sched` | 3 streams, 2 workers, each stream registered once; fairness | passes |
| `sched_restart` | 1 stream registered twice, 2 workers | **violated**: `OneInFlight` |
| `lifecycle` | 1 stream, 2 transports, 2 runtimes, 2 configurations, 2 publisher failures; fairness | passes |
| `lifecycle_restart` | 2 transports, 2 configurations | **violated**: `OnePullPerStream` |
| `lifecycle_stop` | 1 configuration; fairness | **violated**: `StopCompletes` |
| `output` | 3 packets, 2 openings, 3 layouts, 3 ticks; 5.1M states | passes |
| `alarm` | 2 objects of one class, 3 configurations, 2 changes, 4 ticks; 1.0M states | passes |
| `ipc` | queue of 1, 1 producer, 2 incoming frames with payloads of 3 pieces and 1, 1 peer fault; fairness; 0.8M states | passes |
| `config` | 2 tasks, 2 streams, 9 configurations, 3 received | passes |

**sp_safety.** A frame an inference thread uses stays in the buffer
(`InUseFrameKept`); the packet being published is not that of a frame in
inference (`NotPublishingInferring`); frames do not outlive their packets
(`FramesHavePackets`); frames are inferred in order (`IdleFramesNewest`); the
last decoded frame stays (`DecodedFrameRemains`). `IndInv` is the inductive
invariant of the proofs, the type invariant and the watermark included.
`ImplementsContract` is the refinement: every step is a step of `StreamContract`
or changes nothing it sees.

**sp_live.** A packet with a newer decoded frame behind it is published whatever
inference does, detector failures included, if no write to the output server waits
for ever (`PublishProgress`, under `WritesReturn`). `stopStream` ends whatever the
camera does, if the writes, the opening and the closing of the output return
(`StopTerminates`, under `WritesReturn`, `OpensReturn` and `ClosesReturn`). The code
does not see to any of the three: with a server that accepts and then stalls, the
join of `stopStream` waits as long as the server does, and the config thread with it.

**sp_reconnect.** `closeStream` and `openStream` clear the pending metadata of
packets that are already queued. These packets never get a frame, gate 2 refuses
the first of them for ever, and the stream publishes nothing more.

**sched / sched_restart.** The scheduler is fair and exact as long as a stream is
not registered again while an inference of its old context runs: the end of that
inference then clears the in-flight flag of the new entry, and two inferences run
on the new stream.

**lifecycle.** With nothing left to do the config thread has the streams the last
configuration asks for (`Converged`), every entry of the scheduler is that of the
listed context of its stream (`EntryOfListed`), every configuration is applied and
every asynchronous stop served, unless `stop()` takes over. `EntryOfListed` excludes
entries of replaced contexts and no more. A listed stream may have no entry: a context
that asked for its own stop is unlisted at once but stopped later, if a batch comes in
between its successor is started first, and the late `removeStream(stream_id)` takes
the successor's entry away. And the listed context may have been asked to stop
between the test of its flag and its insertion. The run allows a transport change, whose double start is the subject of
`lifecycle_restart`: the stream is pushed on `streams_to_start` when it is erased
and again when it is not found.

**lifecycle_stop.** `stop()` should end with every stream down. It sets its flag
and notifies without the mutex, so the notification is lost between the config
thread's test of the predicate and its wait, and the join waits for ever. A
context that is inserted after `stop()` has swapped `streams_` is the other way
to violate the property: it is never stopped.

**output.** The camera is opened again with other tracks while packets of the
earlier opening are queued. The cache is the current group of pictures
(`CacheIsCurrentGop`); a recording is a contiguous run of packets, pre-roll and
live packets joined, from a key frame if one was seen (`RecordingContiguous`);
one that begins with a packet of the new source has no packet of another
(`RecordingOfOneSource`); it ends at the latest end asked for, whatever order
alarms and packets come in (`RecordedAsPromised`). Publisher and recorder have
the tracks of the opening being read, or the stream is being stopped
(`OutputsFollowSource`). An SEI has codec and framing of its packet
(`SeiFitsPacket`, for packets of the current opening: an older packet still in
the queue may get the length size of the newer opening, which the code stores per
stream) and can be read (`SeiReadable`). After the stop there is no session, and
a recording an alarm opens after the recorder's `close()` goes with the context
(`NothingLeftOpen`). A packet of the old opening may be the beginning of a
recording with the new tracks when its track index exists there too; the premise
of `RecordingOfOneSource` is exact about that.

**alarm.** Alarms for one track or class are apart by the smallest window in force
between them (`NoAlarmFlood`), with one exception: when the algorithms of the stream
change, `updateStreamRuntime` makes a new detector with an empty table, and each key
may give one alarm before its window is over. An object is passed over only for its own alarm, or
its class's if it has no track (`SuppressedByOwnAlarm`), except in the window
after a tracker was made anew: its numbers start again while the entries of the
former one remain. The snapshot an alarm names is younger than the throttle's
interval, failures in between included (`SnapshotFresh`).

**ipc.** What the peer can read is framed and in order, every accepted message is
queued, sent, lost with a failure or dropped by a full queue and counted as such.
On a connection the agent has not given up a configuration is lost in one way only
(`IncomingNotLost`): a payload that was begun on an earlier connection took a piece of
it. Such a payload can take whole frames; it does not parse, `onRecv` leaves it at
that, and the thread is in step with the new connection, which lives on without them.
Every other loss, a bad header among them, closes the connection. If the peer is there,
accepts and reads, the connection comes back and stays once the faults have ended and
the queue is emptied again and again (`QueueServed`); a peer that stops reading without
closing holds the send thread in `send()` as long as it likes.

**config.** `buildMergedStreams` agrees with a declarative definition without
folds (`MergeReference`): the entry with the highest `config_id` decides transport
and interval, the last tracker named holds, each algorithm id appears once, and what
is merged is enabled and under its own id. When nothing is pending,
every running stream has that configuration, and its detector was made from those
algorithms or does not exist (`ConfigurationEffective`). A stream is rebuilt only
for its transport, a detector only for its algorithms (`LeastDisturbance`). The
order is that of `config_id`, not of arrival, although the log calls the winner
the latest; a detector that failed to load is not tried again until the
algorithms change.

Each passing property has a faulty variant of a definition, kept beside it in the
module (`InferenceGateOpen`, `SelectKeepsOthers`, `CursorStays`, ...), with which
the run finds a violation; `PROJECT.json` pairs them under `mutants`.

## 4. Bounds

Three frames are needed for one in inference, one being published and one newer
that decodes in between; a second worker shows that the in-flight flag excludes
it. Three streams let a cursor skip one. Two configurations replace each other
while one is applied; two failures meet both of the contexts a change of transport
builds. Three packets over two openings hold a key frame, a packet behind it and
one of another opening; the layouts differ in codec, framing and number of
tracks; three ticks let a deadline be set, extended and reached. In `alarm` two
objects compete for one class entry and for the first track number, and four
ticks outlast every window. In `ipc` one message and one acknowledgement compete
for one place in the queue, and two frames on two connections allow a
frame to begin on the first and continue on the second; the payload of the first
frame is as long as the whole of the second, so that it can swallow it and leave the
thread in step, or be left waiting in the middle of it. Three receptions for two
tasks let the second task conflict with the first and either be replaced.

`MaxFrames`, `MaxAudio`, `MaxReconnects`, `MaxGeneration`, `MaxConfigs`,
`MaxAsyncStops`, `MaxPackets`, `MaxOpenings`, `MaxTime`, `MaxTrackId`,
`MaxUpdates`, `MaxMessages`, `MaxFaults` and `MaxDisturbances` bound what the code leaves unbounded. Deadlock
checking is off in `ipc` and `config` only: with the bounds used up the agent
waits for a peer or a platform that need not speak again. Workers are
interchangeable in `sp_safety` and objects in `alarm`; these use symmetry.
`sp_safety` has an audio packet or a reconnect, not both (`Bounded`): the proofs,
which have no bounds, cover the combination.

## 5. Fairness

Only what the scheduling of threads gives: a thread that can take its next step
takes it in the end. The waits of `acquireTask` (200 ms), `waitForPublishable`
and the send thread's queue have time limits, so these threads return to their
tests without a notification. `config_cv_` has none, and its wake-ups are
modelled. In `PipelineLifecycle` the main thread is strongly fair: it waits for
`config_mutex_`, which the config thread keeps taking. Nothing is assumed of
cameras, peers, signals, configurations, failures or spurious wake-ups.

Calls that may wait for another process without limit are not fair. In
`StreamPipeline` these are the calls of `RtspPublisher` (`PublisherPop`, `StreamReady`,
`ClosePublisher`) besides opening and reading the camera; in `SocketSender`
`connect()` and `send()`, which return by themselves only when they fail
(`SendCompute`). What a liveness property needs of them is a premise of the property
(`WritesReturn`, `OpensReturn`, `ClosesReturn`; `PeerServes`), where a reader sees it.
Reading the camera has FFmpeg's interrupt callback, which the stop makes return.

## 6. Proofs

The theorems hold for all values of the constants that satisfy the assumptions of
the modules, which TLC evaluates on every run:

* `BufferAssumption`, `PipelineAssumption`: the bounds are natural numbers, `Pts`
  gives every frame an integer, `Watermark > 0` (`publishLoop` passes 1; with 0
  the gates are off);
* `SchedulerAssumption`: a stream may be built at least once;
* `LifecycleAssumption`: the number of streams and the bounds are natural numbers;
* `RecorderAssumption`: durations are positive, and an opening has exactly one
  video track besides any audio (`buildInputStreamSpecs` takes the one video
  stream `openStream` insists on);
* `OutputAssumption`: bounds;
* `AlarmAssumption`: the throttle's interval and the default window are positive, a
  dedup interval is any integer (0 and less mean the default), and the settings of a
  tracker differ from there being none;
* `ConfigurationAssumption`: `config_id`s are integers;
* `SenderAssumption`: the queue has at least one place, and every payload at least one
  piece (the code refuses length 0).

No theorem bounds the number of threads, streams, workers, objects or
configurations. A theorem about a specification has the form `Spec => []Inv` or
`Spec => [][A]_vars`; where an invariant is not inductive, the conjuncts that make
it so are given below. Three theorems have a further hypothesis about the behaviour:
two name the condition under which a property holds that a run finds violated, one
rests on a fact about data that only TLC checks.

### One stream (`StreamPipelineProofs`, `StreamContractProofs`)

| theorem | shows |
|---|---|
| `Inductive` | `Spec => []IndInv` |
| `TypeCorrect` | `Spec => []TypeOK` |
| `InUseFramesAreKept` | `Spec => []InUseFrameKept` |
| `PublishedNotInferring` | `Spec => []NotPublishingInferring` |
| `FramesBelongToPackets` | `Spec => []FramesHavePackets` |
| `IdleFramesAreNewest` | `Spec => []IdleFramesNewest` |
| `DecodedFrameAlwaysRemains` | `Spec => DecodedFrameRemains` |
| `PopsKeepWatermark` | `Spec => PopKeepsWatermark` |
| `KeepsContract` | `Spec => ImplementsContract` |

The safety properties are not inductive: that a frame is not released while in
use depends on what the publish thread found two critical sections earlier.
`IndInv` is the conjunction of

* `QueueInv`: the video packets queued are exactly those with ids
  `nextId - videoCount .. nextId - 1`, in order;
* `HandInv`: until it pops, the publish thread holds the head of the queue;
* `PendingInv`: pending entries are in order, belong to queued packets and are
  newer than every frame;
* `FrameInv`: frames belong to queued packets or to the one being released,
  `frame_order_` follows ids, Idle frames are the newest;
* `InferenceInv`: at most one inference, on a decoded frame of the buffer, and
  at most one frame Selected or Running;
* `WindowInv`: the gates the packet has passed keep holding until its frame is
  released: the frame exists, is not in inference, a newer decoded frame exists,
  the watermark holds.

`WindowInv` is the heart. A frame cannot be selected inside the window because
selection takes the newest Idle frame, a decoded packet passes gate 3 only if a
newer decoded frame exists, and selection closes the skipped ones; that needs
the order in `FrameInv`, which needs `PendingInv` and `QueueInv`. The proof has a
lemma per action; lemmas `...Frame` dispose of the parts an action does not
touch.

`KeepsContract` shows that `Init` maps to the contract's `Init` and that every
step, from a state with `IndInv`, is one of its steps or a stutter
(`StepImplements`): a lemma per visible step (`PullVideoComes`, `DeliverAligns`,
`AcquireBegins`, `LettingGoEnds`, `PopLeaves`, `ReleaseFollows`), and `...Invisible`
for the actions that leave the seven mapped variables alone. The guards of the contract are where the invariant
is needed: that the packet leaving has its frame and is not in use, and that an
image remains, are `WindowInv`; that a frame is newer than all before it is
`PendingInv`; that the selected image is the newest and its packet still waiting
is `FrameInv` with `QueueInv`.

### The scheduler (`InferSchedulerProofs`)

| theorem | shows |
|---|---|
| `OrderIsConsistent` | `Spec => []OrderConsistent` |
| `WaitIsBounded` | `Spec => []BoundedWait` |
| `OneInFlightUnlessRestarted` | `Spec /\ [][NoRestartInFlight]_vars => []OneInFlight /\ []InflightExact` |
| `OneInFlightOfOneContext` | `MaxGeneration = 1` implies `Spec => []OneInFlight /\ []InflightExact` |

`OrderConsistent` is inductive. `BoundedWait` follows from `Approaching`: the times
a stream was passed over and its distance from the cursor together stay below
the number of streams, because passing over a stream moves the cursor towards it,
and a removal starts the count anew. `OneInFlight` is false in general
(`sched_restart`); `OneInFlightUnlessRestarted` names the condition under which it
holds: no context of a stream is built while a worker still has a task of the
former one. Its invariant, `Exclusive`, says that the flags are exact, that no two
workers have tasks of one stream, and that an entry has a buffer of its own stream.
The condition is met when each id is used once, the instance of `sched`.

### The life of the streams (`PipelineLifecycleProofs`)

| theorem | shows |
|---|---|
| `TypeCorrect` | `Spec => []TypeOK` |
| `EntriesOfListedStreams` | `Spec => []EntryOfListed` |
| `StreamsConverge` | `Spec => []Converged` |
| `PulledOnceUnlessMoved` | `Spec /\ [][TransportsKept]_vars => []OnePullPerStream` |

The properties speak of the moments when the config thread has caught up, or of
contexts that run; between them `streams_`, the scheduler and the contexts disagree,
and the invariants say who is about to make the disagreement good. All but the types
hold until `stop()` is called.

* `Control`, for the types: which thread has which list of work in which part of the
  batch, and that only wanted streams are started.
* `Registered`: a scheduler entry belongs to a context of its stream that is listed,
  about to be inserted, or bound to be stopped (its puller is asking for that, it is
  in `pending_stop_streams_`, or it is in the config thread's list). `removeStream`
  and `upsertStream` go by id, so the context that is being added must own the entry
  (`NewEntry`), the stop of a replaced context must come before it, and what is still
  to be updated, which registers it again, must be listed or bound to be stopped
  (`UpdatesKept`).
* `Settled`: unless a configuration is pending, the batch was taken from the last
  one; after the comparison what is listed is as desired, and a desired stream that is
  not listed is still in the list of streams to start, is being added, or had a
  context stopped. A stream whose transport changed is in that list twice; the second
  start replaces the context of the first, and `Settled` holds all the same.
* `Once`: a context that runs is listed, being added or in the config thread's list of
  stops, in that list only while its stream is not listed; and each stream is in the
  list of streams to start once, and not listed. The last part is what a change of
  transport breaks. `OnePullPerStream` is false in general (`lifecycle_restart`);
  `PulledOnceUnlessMoved` shows that there is no other way to two contexts of a stream
  that nobody has asked to stop: it assumes only that no comparison finds a listed
  stream with another transport (`TransportsKept`), and leaves configurations, failures
  of publishers and their interleaving free. It says nothing of contexts that were asked
  to stop: one that unlisted itself may still be pulling when its successor starts.

### The outputs (`StreamOutputProofs`)

| theorem | shows |
|---|---|
| `OutputTypes` | `Spec => []TypeOK` |
| `StopLeavesNothingOpen` | `Spec => []NothingLeftOpen` |
| `OutputsFollow` | `Spec => []OutputsFollowSource` |
| `SeiFits` | `Spec => []SeiFitsPacket` |
| `PrerollIsCurrentGop` | `Spec => []CacheIsCurrentGop` |
| `RecordingsAreContiguous` | `Spec => []RecordingContiguous` |
| `RecordingsOfOneSource` | `Spec => []RecordingOfOneSource` |
| `RecordingsLastAsPromised` | `Spec => RecordedAsPromised` |

`TypedControl` adds to the types where the threads are with respect to each other.
`Following` relates source and outputs: a packet has a track of its opening, the
queue is in the order of the openings and has nothing of an opening whose callback
is not through, the callback's earlier effects stand while it makes the later ones,
and packets since the recorder's tracks last changed have these tracks. `SeiOfPacket`
keeps what the SEI was made for until it is written. `Recording` treats cache and open
file together: a file without a packet was opened with an empty cache that is still
empty, which is why pre-roll and live packets join; no packet of it was published
before the tracks changed. `Timed`: an open recording's deadline is the latest end
asked for, and no deadline is later than an alarm of now would make it.

### Alarms (`AlarmPathProofs`)

| theorem | shows |
|---|---|
| `AlarmTypes` | `Spec => []TypeOK` |
| `SnapshotsAreFresh` | `Spec => []SnapshotFresh` |
| `NoFloodOfAlarms` | `Spec => NoAlarmFlood` |
| `AlarmsAreOwn` | `Spec => []SuppressedByOwnAlarm` |

`Fresh`: the name that is kept is that of the last snapshot that was saved.
`Remembered`: an alarm that still counts, and whose detector was not replaced since
(`Own`), has its entry, which the present window does not prune, since the window that
counts is the smallest since. `Owned`: an entry of a
class is the alarm of an object of the class, one of a track that of the object on it
or older than the tracker, and no two objects share a track.

### Configuration (`StreamConfigurationProofs`)

| theorem | shows |
|---|---|
| `ConfigurationTakesEffect` | `Spec => []ConfigurationEffective` |
| `StreamsLeastDisturbed` | `Spec /\ []MergeReference => LeastDisturbance` |

By `Effective`, the
parts of a context (transport, runtime and detector configuration, algorithms of the
detector) were set from one configuration, and the copy being applied is `configs_`
unless more is pending. Of the merge only its type is used.

`LeastDisturbance` needs one fact about the merge's contents: a merged configuration
is enabled and carries the id it is found under, since the comparisons of
`ConfigFilter.cpp` look at these fields too, and a difference in them would stop or
update a stream whose transport is the same. That is part of `MergeReference`, which
is about what folds compute and so enters as a hypothesis; the run `config` checks it.
`Named` carries the fact on to the copy that is applied and to the streams built from
it.

### The connection (`SocketSenderProofs`)

| theorem | shows |
|---|---|
| `SenderTypes` | `Spec => []TypeOK` |
| `MessagesAccounted` | `Spec => []Accounted` |
| `WritesAreFramed` | `Spec => []OutgoingFramed` |
| `ConfigurationsNotLost` | `Spec => []IncomingNotLost` |

One inductive invariant, `Linked`, serves all four:

* `Shape`: the pieces in hand are as many as the place in the loop says;
* `Sockets`: only the last connection can be open, and `fd_` stands for it or is
  about to be set to it;
* `Queued`: what waits is the end of what was accepted, the counters add up, no
  number is given out twice;
* `Written`: frames are whole on every connection, messages begin in the order of
  the queue over all of them, the open connection ends with what has been written of
  the message in hand, or the send thread is about to close it;
* `Ordered`: what waits to be read is in the order it was sent and comes after all
  that was read or delivered, so nothing is delivered twice (which also bounds the
  numbers, and so the types);
* `NoGaps`: what waits on a connection that lives is all that was sent on it from some
  piece on;
* `InStep`: while a payload is read from the connection its header came from, the thread
  holds all that has been read of that frame;
* `Reading`: of a frame on a connection that lives which was neither delivered nor
  swallowed, the thread holds what has been read (`First`, `Middle`, `Entire`), or it
  will close this very connection (`Leaving`).

`Reading` is where the hazard lies. `fd_` is read for each `recv()`, so the pieces of a
frame may be taken for the length or the payload of a frame of an earlier connection.
In place of the length the header is refused, the thread calls `disconnectSocket()`,
and by `Sockets` the connection it closes is the one whose frame was spoiled. In place
of a payload they are swallowed, as many as that payload still wants. If it ends inside
a frame, the rest of that frame is taken for a header and the connection is closed; if
it ends between two frames, nothing is noticed. The invariant therefore has to say what holds of the frames that were *not* swallowed,
and `InStep` that a payload read from its own connection swallows nothing. The type of `sent_count_`, `failed_count_` and
`drop_count_` needs `Queued`: they are bounded because they add up.

### Only model-checked

* Liveness and everything that mentions fairness or ENABLED: out of the prover's
  reach. The four violations.
* `MergeReference` and `SeiReadable`: they depend on what folds compute, which is
  induction over data.

No module declares a RECURSIVE operator.

## 7. Plan

Done, in this order: `StreamBuffer`, `StreamPipeline` and its proofs,
`InferScheduler`, `PipelineLifecycle`, `AlarmRecorder`, `SocketSender`,
`ConfigFilter` with `StreamConfiguration`; then `StreamContract` with the
refinement and its proof, `RtspPublisher`, `SeiInjector` and `StreamOutput` (the
composition of the outputs), `AlarmPath`.

Next, models: the liveness of `SocketSender::stop`, which can wait for `recv()` on
a connection stored after it disconnected; two contexts of one stream, where a
worker looks up the new context with a frame of the old buffer.

Proofs done since: `InferScheduler`, `StreamOutput`, `AlarmPath`,
`StreamConfiguration`, `SocketSender`, `PipelineLifecycle`. Every invariant and every
action property of a passing run is now stated by a theorem, except `MergeReference`
and `SeiReadable`, which are induction over data (`LeastDisturbance` is proved from
the first of them).

## 8. Not modelled

* FFmpeg, MPP, RKNN and driver calls: reduced to succeeding or failing where a
  state change depends on them. Failed allocations and clones of packets and
  images are left out.
* Contents: images, detections, boxes, the items of an SEI message, JPEG, protocol
  messages, file names, time stamps inside files and wall-clock time. Two
  recordings that begin within one second share a name; this needs the clock and
  is listed as a hazard.
* The recorder is always configured: an empty `alarm_record_dir`, with which
  `configureStreamRecorder` leaves it out, is not modelled.
* In `StreamPipeline` a stream stops by its own flag. `publishLoop` also tests the
  flag of the pipeline, which ends the thread earlier and changes nothing that
  `stopStream` waits for.
* In `SocketSender` the two words of a header are read whole, a header word is a header
  word wherever it is read, and no piece of a payload looks like one.
* What inference finds and how tracks are matched: numerical.
* The worker's lookup by id in `StreamPipeline` finds this stream or nothing;
  finding a new context of the same id is in the plan.
* `Statistics`: counters that only reach the log, nothing reads them back.
  `MppDecoder`: driver calls; `StreamPipeline` keeps what it may deliver.
  `MessageMapper`: stateless. Command line, configuration file and logging:
  sequential, before any thread exists.
* Whether a packet carries its own inference result: results are matched by
  presentation time and expire by age (any of them may have expired when one is
  looked up), and the code promises no more than a best effort.
