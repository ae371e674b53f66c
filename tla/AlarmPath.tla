----------------------------- MODULE AlarmPath -----------------------------
(***************************************************************************)
(* From a frame to the alarms of one stream: the steps around inference    *)
(* (src/detector/AlgoDetectorWorkflow.cpp: active algorithms, tracking,    *)
(* deduplication) and the snapshot that goes with an alarm                 *)
(* (Pipeline::triggerAlarmSnapshot, Snapshotter).  The inference threads   *)
(* take turns: all of it runs under the detector mutex of the stream.  The *)
(* config thread changes the configuration under the same mutex; the       *)
(* thread in stopStream closes the snapshotter without it.  The recording  *)
(* an alarm triggers is in AlarmRecorder.                                  *)
(***************************************************************************)
EXTENDS Integers, Sequences, FiniteSets, Functions

CONSTANTS Objects,          \* the things in front of the camera
          ClassOf,          \* ClassOf[o]: class_id the model gives object o
          Configs,          \* values of the runtime part of a StreamConfig
          DefaultWindow,    \* kDefaultAlarmDedupIntervalMs
          SnapshotInterval, \* kAlarmSnapshotMinIntervalMs
          MaxTrackId,       \* bound: tracks of one tracker
          MaxTime,          \* bound: the clock
          MaxUpdates        \* bound: changes of the configuration

(* A configuration: its algorithms, each with the dates between which it is active
   (0 is unset); the tracker settings; and alarm_dedup_interval_s. *)
NoTracker == "off"

ASSUME AlarmAssumption ==
    /\ DOMAIN ClassOf = Objects
    /\ \A c \in Configs : c.interval \in Int /\ c.tracker # "none"
    /\ DefaultWindow \in Nat \ {0} /\ SnapshotInterval \in Nat \ {0}
    /\ MaxTrackId \in Nat /\ MaxTime \in Nat \ {0} /\ MaxUpdates \in Nat

VARIABLES
    now,          \* the clock; monotonic and wall-clock time run alike
    cfg,          \* detector_runtime->config
    tracker,      \* [cfg, up]: active_tracker_config_ ("none" unless
                  \* tracker_initialized_for_config_), tracker_ is not null
    trackOf,      \* the track each object is followed under (inside the tracker)
    lastAlarm,    \* last_alarm_by_object_id_mono_ms_ and last_alarm_by_class_id_mono_ms_
    task,         \* the inference in progress, see Tasks
    snapshot,     \* snapshot_file_name_, as the time of the alarm it was taken for
    lastTrigger,  \* last_snapshot_trigger_mono_ms
    stopping,     \* "up", "clearing": inside Snapshotter::close(), "closed", "down"
    updates,      \* changes of the configuration so far
    lastOf,       \* history: time of the last alarm of each object
    madeAt,       \* history: when the tracker was made
    alarms        \* history: key -> [at, window, replaced]: its last alarm, the smallest
                  \* window in force since and whether the detector has been replaced
                  \* since, as long as that window is not over

detectorVars == <<tracker, trackOf, lastAlarm>>
historyVars == <<lastOf, madeAt, alarms>>
vars == <<now, cfg, detectorVars, task, snapshot, lastTrigger, stopping, updates, historyVars>>

NoName == 0
Torn == -1     \* what a read of the name during clear() may give
Never == -1
NoTrack == 0

Keys == ({"object"} \X (1 .. MaxTrackId)) \cup ({"class"} \X Range(ClassOf))
Tasks == [pc : {"idle", "detected", "snapshot", "locked", "report"},
          time : 0 .. MaxTime,           \* infer_done_mono_ms, then now_mono_ms
          keys : SUBSET Keys,            \* the entries alarm_objects are given under
          suppressed : SUBSET Objects,   \* objects that are not in alarm_objects
          tracked : SUBSET Objects,      \* objects with an object_id
          name : (0 .. MaxTime) \cup {Torn}]   \* snapshot_name

TypeOK ==
    /\ now \in 1 .. MaxTime
    /\ cfg \in Configs
    /\ tracker \in [cfg : {c.tracker : c \in Configs} \cup {"none"}, up : BOOLEAN]
    /\ trackOf \in [Objects -> 0 .. MaxTrackId]
    /\ DOMAIN lastAlarm \subseteq Keys /\ \A k \in DOMAIN lastAlarm : lastAlarm[k] \in 1 .. now
    /\ task \in Tasks
    /\ snapshot \in 0 .. MaxTime
    /\ lastTrigger \in 0 .. now
    /\ stopping \in {"up", "clearing", "closed", "down"}
    /\ updates \in 0 .. MaxUpdates
    /\ lastOf \in [Objects -> {Never} \cup 1 .. now]
    /\ madeAt \in {Never} \cup 1 .. now
    /\ tracker.up => tracker.cfg \notin {"none", NoTracker}
    /\ DOMAIN alarms \subseteq Keys

Idle == [pc |-> "idle", time |-> 0, keys |-> {}, suppressed |-> {}, tracked |-> {},
         name |-> NoName]
NoTracks == [o \in Objects |-> NoTrack]
NoKeys == [k \in {} |-> 0]

Init ==
    /\ now = 1
    /\ cfg \in Configs
    /\ tracker = [cfg |-> "none", up |-> FALSE]
    /\ trackOf = NoTracks
    /\ lastAlarm = NoKeys
    /\ task = Idle
    /\ snapshot = NoName
    /\ lastTrigger = 0
    /\ stopping = "up"
    /\ updates = 0
    /\ lastOf = [o \in Objects |-> Never]
    /\ madeAt = Never
    /\ alarms = NoKeys

-----------------------------------------------------------------------------
(* Before inference. *)

IsAlgorithmActiveNow(algorithm) ==
    /\ algorithm.start > 0 => algorithm.start <= now
    /\ algorithm.end > 0 => now <= algorithm.end

(* With no active algorithm detect() returns at once, and nothing is tracked. *)
ShouldInfer == \E i \in DOMAIN cfg.algorithms : IsAlgorithmActiveNow(cfg.algorithms[i])

-----------------------------------------------------------------------------
(* Tracking. *)

(* Faulty variant: the tracker is not released. *)
TrackingOffKeeps ==
    /\ cfg.tracker = NoTracker
    /\ tracker' = [tracker EXCEPT !.cfg = "none"]
    /\ trackOf' = NoTracks
    /\ UNCHANGED madeAt

TrackingOff ==
    /\ cfg.tracker = NoTracker
    /\ tracker' = [cfg |-> "none", up |-> FALSE]
    /\ trackOf' = NoTracks
    /\ UNCHANGED madeAt

(* ensureTrackerLocked() with other settings: a new tracker, which follows nothing
   yet and numbers its tracks from the start.  If its type is unknown or its init()
   fails, it is not tried again before the settings change. *)
NewTracker ==
    /\ cfg.tracker # NoTracker /\ tracker.cfg # cfg.tracker
    /\ \E made \in BOOLEAN : tracker' = [cfg |-> cfg.tracker, up |-> made]
    /\ madeAt' = now

SameTracker ==
    /\ cfg.tracker # NoTracker /\ tracker.cfg = cfg.tracker
    /\ UNCHANGED <<tracker, madeAt>>

(* ma_tracker_process on the objects of a frame: the tracks of the matched ones.
   An object stays on its track for the life of the tracker, a new one gets a
   number of its own; the call may also fail and match nothing. *)
FollowObjects(matched, followed) ==
    trackOf' \in {t \in [Objects -> 0 .. MaxTrackId] :
        /\ \A o \in Objects : (o \notin matched \/ followed[o] # NoTrack) => t[o] = followed[o]
        /\ \A o \in matched : t[o] # NoTrack
        /\ \A o, p \in Objects : t[o] = t[p] /\ t[o] # NoTrack => o = p}

(* TrackingPostprocessStep::run on a frame with objects. *)
Tracking(matched) ==
    \/ TrackingOff /\ matched = {}
    \/ NewTracker /\ (tracker'.up \/ matched = {}) /\ FollowObjects(matched, NoTracks)
    \/ SameTracker /\ (tracker.up \/ matched = {}) /\ FollowObjects(matched, trackOf)

-----------------------------------------------------------------------------
(* Deduplication. *)

AlarmDedupWindow == IF cfg.interval <= 0 THEN DefaultWindow ELSE cfg.interval

(* Faulty variants: an entry is forgotten one time unit early; objects on a track are
   told apart by their class. *)
PruneEarly(window) ==
    Restrict(lastAlarm, {k \in DOMAIN lastAlarm : lastAlarm[k] > now - window + 1})
KeyByClass(o, id) == <<"class", ClassOf[o]>>

(* pruneExpiredEntries(). *)
PruneExpiredEntries(window) ==
    Restrict(lastAlarm, {k \in DOMAIN lastAlarm : lastAlarm[k] > now - window})

(* The entry an object is deduplicated by: its track, otherwise its class. *)
KeyOf(o, id) ==
    IF cfg.tracker # NoTracker /\ id > 0 THEN <<"object", id>> ELSE <<"class", ClassOf[o]>>

(* shouldKeepObject() for each object of the frame in turn: an alarm is given unless
   there is a recent entry, which an earlier object of the frame may have made. *)
KeptObjects(frame, keyOf, entries, window) ==
    {frame[i] : i \in {j \in DOMAIN frame :
        LET key == keyOf[frame[j]] IN
        /\ key \in DOMAIN entries => now - entries[key] >= window
        /\ \A h \in 1 .. j - 1 : keyOf[frame[h]] # key}}

(* detect() on a frame with objects, in the order in which the model reports them. *)
Detect(frame) ==
    /\ task.pc = "idle" /\ stopping # "down"
    /\ ShouldInfer
    /\ \E matched \in SUBSET Range(frame) :
          /\ Tracking(matched)
          /\ LET keyOf == [o \in Range(frame) |-> KeyOf(o, IF o \in matched THEN trackOf'[o] ELSE 0)]
                 entries == PruneExpiredEntries(AlarmDedupWindow)
                 kept == KeptObjects(frame, keyOf, entries, AlarmDedupWindow)
                 keys == {keyOf[o] : o \in kept}
             IN  /\ lastAlarm' = [k \in DOMAIN entries \cup keys |->
                                      IF k \in keys THEN now ELSE entries[k]]
                 /\ task' = [Idle EXCEPT !.pc = "detected", !.time = now, !.keys = keys,
                                 !.suppressed = Range(frame) \ kept, !.tracked = matched]
                 /\ lastOf' = [o \in Objects |-> IF o \in kept THEN now ELSE lastOf[o]]
                 /\ alarms' = [k \in DOMAIN alarms \cup keys |->
                                   IF k \in keys
                                   THEN [at |-> now, window |-> AlarmDedupWindow, replaced |-> FALSE]
                                   ELSE alarms[k]]
    /\ UNCHANGED <<now, cfg, snapshot, lastTrigger, stopping, updates>>

-----------------------------------------------------------------------------
(* The snapshot. *)

Goto(pc) == task' = [task EXCEPT !.pc = pc]
ReportName(name) == task' = [task EXCEPT !.pc = "report", !.name = name]

(* inferLoop after detect(): alarms are triggered with a time of their own. *)
TriggerAlarm ==
    /\ task.pc = "detected"
    /\ task' = IF task.keys = {} THEN Idle
                ELSE [Idle EXCEPT !.pc = "snapshot", !.time = now]
    /\ UNCHANGED <<now, cfg, detectorVars, snapshot, lastTrigger, stopping, updates, historyVars>>

Throttled == lastTrigger > 0 /\ task.time - lastTrigger < SnapshotInterval

(* triggerAlarmSnapshot() before its lock: the name is read while stopStream may be
   clearing it. *)
SnapshotThrottled ==
    /\ task.pc = "snapshot" /\ Throttled
    /\ \/ ReportName(snapshot)
       \/ stopping = "clearing" /\ \E name \in {NoName, Torn} : ReportName(name)
    /\ UNCHANGED <<now, cfg, detectorVars, snapshot, lastTrigger, stopping, updates, historyVars>>

SnapshotLock ==
    /\ task.pc = "snapshot" /\ ~Throttled
    /\ stopping # "clearing"
    /\ Goto("locked")
    /\ UNCHANGED <<now, cfg, detectorVars, snapshot, lastTrigger, stopping, updates, historyVars>>

(* saveJpeg() succeeds: the file is written under a hidden name and renamed. *)
SnapshotSaved ==
    /\ task.pc = "locked" /\ ~Throttled
    /\ snapshot' = task.time
    /\ lastTrigger' = task.time
    /\ ReportName(task.time)
    /\ UNCHANGED <<now, cfg, detectorVars, stopping, updates, historyVars>>

(* Faulty variant: the time is stored before the snapshot is taken. *)
SnapshotFailsLate ==
    /\ task.pc = "locked" /\ ~Throttled
    /\ lastTrigger' = task.time
    /\ ReportName(NoName)
    /\ UNCHANGED <<now, cfg, detectorVars, snapshot, stopping, updates, historyVars>>

(* saveJpeg() fails.  If the encoder is set up anew for another image size the old
   one is closed first, and the name of the last snapshot is forgotten with it. *)
SnapshotFails ==
    /\ task.pc = "locked" /\ ~Throttled
    /\ snapshot' \in {snapshot, NoName}
    /\ ReportName(NoName)
    /\ UNCHANGED <<now, cfg, detectorVars, lastTrigger, stopping, updates, historyVars>>

(* One AlarmInfo for each class among the objects, with the name of the snapshot. *)
PushAlarms ==
    /\ task.pc = "report"
    /\ task' = Idle
    /\ UNCHANGED <<now, cfg, detectorVars, snapshot, lastTrigger, stopping, updates, historyVars>>

-----------------------------------------------------------------------------
(* The other threads. *)

DetectorMutexFree == task.pc = "idle"

(* The alarms that still count if the window is now this one. *)
NarrowedAlarms(window, replaced) ==
    [k \in {k \in DOMAIN alarms : now - alarms[k].at < window} |->
        [at |-> alarms[k].at,
         window |-> IF window < alarms[k].window THEN window ELSE alarms[k].window,
         replaced |-> replaced \/ alarms[k].replaced]]

(* updateStreamRuntime(): other algorithms mean another detector, which remembers
   nothing; any other change reaches the detector there is. *)
UpdateStreamRuntime(c) ==
    /\ stopping = "up" /\ DetectorMutexFree
    /\ updates < MaxUpdates
    /\ updates' = updates + 1
    /\ cfg' = c
    /\ IF c.algorithms # cfg.algorithms
       THEN /\ tracker' = [cfg |-> "none", up |-> FALSE]
            /\ trackOf' = NoTracks
            /\ lastAlarm' = NoKeys
       ELSE UNCHANGED detectorVars
    /\ alarms' = NarrowedAlarms(AlarmDedupWindow', c.algorithms # cfg.algorithms)
    /\ UNCHANGED <<now, task, snapshot, lastTrigger, stopping, lastOf, madeAt>>

(* stopStream(): the snapshotter is closed under snapshot_mutex, then the detector
   is released under its own. *)
CloseBegin ==
    /\ stopping = "up" /\ task.pc # "locked"
    /\ stopping' = "clearing"
    /\ UNCHANGED <<now, cfg, detectorVars, task, snapshot, lastTrigger, updates, historyVars>>

CloseEnd ==
    /\ stopping = "clearing"
    /\ stopping' = "closed"
    /\ snapshot' = NoName
    /\ UNCHANGED <<now, cfg, detectorVars, task, lastTrigger, updates, historyVars>>

ReleaseDetector ==
    /\ stopping = "closed" /\ DetectorMutexFree
    /\ stopping' = "down"
    /\ UNCHANGED <<now, cfg, detectorVars, task, snapshot, lastTrigger, updates, historyVars>>

Tick ==
    /\ now < MaxTime
    /\ now' = now + 1
    /\ alarms' = Restrict(alarms, {k \in DOMAIN alarms : now' - alarms[k].at < alarms[k].window})
    /\ UNCHANGED <<cfg, detectorVars, task, snapshot, lastTrigger, stopping, updates, lastOf, madeAt>>

Down == stopping = "down" /\ UNCHANGED vars

(* The objects of a frame, in any order and each at most once. *)
Frames == UNION {{f \in [1 .. n -> Objects] : IsInjective(f)} : n \in 1 .. Cardinality(Objects)}

Next ==
    \/ \E frame \in Frames : Detect(frame)
    \/ TriggerAlarm
    \/ SnapshotThrottled \/ SnapshotLock \/ SnapshotSaved \/ SnapshotFails
    \/ PushAlarms
    \/ \E c \in Configs \ {cfg} : UpdateStreamRuntime(c)
    \/ CloseBegin \/ CloseEnd \/ ReleaseDetector
    \/ Tick
    \/ Down

Spec == Init /\ [][Next]_vars

-----------------------------------------------------------------------------
(* Properties. *)

(* Two alarms for one track of a tracker, or for one class, are apart by at least the
   smallest window in force between them, although entries are pruned by the window
   of the day and the window and the tracker change at any time.  The one exception:
   other algorithms between the two have replaced the detector, and the table of
   alarms with it, so that each key may give one alarm early after such a change. *)
NoAlarmFlood ==
    [][task.pc = "idle" /\ task'.pc = "detected" =>
         \A k \in task'.keys \cap DOMAIN alarms : alarms[k].replaced]_vars

(* No alarm is lost to another object: an object on a track is passed over only
   because of its own alarm within the window, an object without one because of an
   alarm of its class.  The one exception is the window after a tracker has been
   made, whose numbers may be those of the entries the former tracker left. *)
SuppressedByOwnAlarm ==
    task.pc = "detected" =>
        \A o \in task.suppressed :
            LET recent(t) == t # Never /\ task.time - t < AlarmDedupWindow IN
            IF o \in task.tracked THEN recent(lastOf[o]) \/ recent(madeAt)
            ELSE \E p \in Objects : ClassOf[p] = ClassOf[o] /\ recent(lastOf[p])

(* The snapshot an alarm names was taken within the interval before it, whatever
   failed in between; only during stopStream may the name be gone or spoiled. *)
SnapshotFresh ==
    task.pc = "report" /\ stopping = "up" /\ task.name # NoName =>
        task.name # Torn /\ task.time - task.name < SnapshotInterval
=============================================================================
