-------------------------- MODULE AlarmPathProofs --------------------------
(***************************************************************************)
(* Proofs about the alarms of one stream and their snapshots, for any      *)
(* objects, classes, configurations and intervals.                         *)
(***************************************************************************)
EXTENDS AlarmPath, NaturalsInduction, WellFoundedInduction, TLAPS

-----------------------------------------------------------------------------
(* What detect() does, with names for its intermediate results. *)

KeyMap(frame, matched) ==
    [o \in Range(frame) |-> KeyOf(o, IF o \in matched THEN trackOf'[o] ELSE 0)]
Entries == PruneExpiredEntries(AlarmDedupWindow)
Kept(frame, matched) ==
    KeptObjects(frame, KeyMap(frame, matched), Entries, AlarmDedupWindow)
KeptKeys(frame, matched) == {KeyMap(frame, matched)[o] : o \in Kept(frame, matched)}

LEMMA DetectIs ==
    ASSUME NEW frame, Detect(frame)
    PROVE  /\ task.pc = "idle"
           /\ UNCHANGED <<now, cfg, snapshot, lastTrigger, stopping, updates>>
           /\ \E matched \in SUBSET Range(frame) :
                /\ Tracking(matched)
                /\ lastAlarm' = [k \in DOMAIN Entries \cup KeptKeys(frame, matched) |->
                                    IF k \in KeptKeys(frame, matched) THEN now ELSE Entries[k]]
                /\ task' = [pc |-> "detected", time |-> now, keys |-> KeptKeys(frame, matched),
                            suppressed |-> Range(frame) \ Kept(frame, matched),
                            tracked |-> matched, name |-> NoName]
                /\ lastOf' = [o \in Objects |-> IF o \in Kept(frame, matched) THEN now ELSE lastOf[o]]
                /\ alarms' = [k \in DOMAIN alarms \cup KeptKeys(frame, matched) |->
                                 IF k \in KeptKeys(frame, matched)
                                 THEN [at |-> now, window |-> AlarmDedupWindow, replaced |-> FALSE]
                                 ELSE alarms[k]]
BY DEF Detect, Idle, KeyMap, Entries, Kept, KeptKeys

(* An object gives an alarm if the entry of its key is old and no object before it in
   the frame has the key. *)
LEMMA KeptIs ==
    ASSUME NEW frame, NEW matched, NEW o
    PROVE  o \in Kept(frame, matched) <=>
              \E j \in DOMAIN frame :
                 /\ o = frame[j]
                 /\ LET key == KeyMap(frame, matched)[o] IN
                    /\ key \in DOMAIN Entries => now - Entries[key] >= AlarmDedupWindow
                    /\ \A h \in 1 .. j - 1 : KeyMap(frame, matched)[frame[h]] # key
BY DEF Kept, KeptObjects

LEMMA EntriesAre ==
    /\ \A k : k \in DOMAIN Entries <=> k \in DOMAIN lastAlarm /\ lastAlarm[k] > now - AlarmDedupWindow
    /\ \A k \in DOMAIN Entries : Entries[k] = lastAlarm[k]
BY DEF Entries, PruneExpiredEntries, Restrict

LEMMA FrameObjects ==
    ASSUME NEW frame \in Frames
    PROVE  /\ Range(frame) \subseteq Objects
           /\ \A o : o \in Range(frame) <=> \E j \in DOMAIN frame : o = frame[j]
           /\ \E n \in Nat : DOMAIN frame = 1 .. n
           /\ IsInjective(frame)
<1>1. PICK n \in 1 .. Cardinality(Objects) : frame \in [1 .. n -> Objects] /\ IsInjective(frame)
  BY DEF Frames
<1> QED
  BY <1>1 DEF Range

-----------------------------------------------------------------------------
(* Types. *)

(* No time is later than the clock. *)
Typed == TypeOK /\ task.time <= now

LEMMA Window == ASSUME Typed PROVE AlarmDedupWindow \in Nat /\ AlarmDedupWindow > 0
<1>1. cfg \in Configs
  BY DEF Typed, TypeOK
<1>2. cfg.interval \in Int
  BY <1>1, AlarmAssumption
<1> QED
  BY <1>2, AlarmAssumption DEF AlarmDedupWindow

LEMMA ClockTyped ==
    ASSUME Typed
    PROVE  /\ now \in Nat /\ now > 0 /\ now <= MaxTime /\ MaxTime \in Nat
           /\ task.time \in Nat /\ task.time <= now
           /\ lastTrigger \in Nat /\ lastTrigger <= now
           /\ snapshot \in Nat
<1>1. now \in Nat /\ now > 0 /\ now <= MaxTime /\ MaxTime \in Nat
  BY AlarmAssumption DEF Typed, TypeOK
<1>2. task.time \in Nat /\ task.time <= now
  <2>1. task \in Tasks
    BY DEF Typed, TypeOK
  <2> QED
    BY <1>1, <2>1 DEF Tasks, Typed
<1>3. lastTrigger \in Nat /\ lastTrigger <= now
  BY <1>1 DEF Typed, TypeOK
<1>4. snapshot \in Nat
  BY <1>1 DEF Typed, TypeOK
<1> QED
  BY <1>1, <1>2, <1>3, <1>4

LEMMA TypedInit == Init => Typed
<1> SUFFICES ASSUME Init PROVE Typed
  OBVIOUS
<1>1. now \in 1 .. MaxTime /\ cfg \in Configs /\ snapshot \in 0 .. MaxTime /\ lastTrigger \in 0 .. now
  BY AlarmAssumption DEF Init, NoName
<1>2. /\ tracker \in [cfg : {c.tracker : c \in Configs} \cup {"none"}, up : BOOLEAN]
      /\ tracker.up => tracker.cfg \notin {"none", NoTracker}
  BY DEF Init
<1>3. trackOf \in [Objects -> 0 .. MaxTrackId]
  BY AlarmAssumption DEF Init, NoTracks, NoTrack
<1>4. DOMAIN lastAlarm = {} /\ DOMAIN alarms = {}
  BY DEF Init, NoKeys
<1>5. task \in Tasks /\ task.time <= now
  BY AlarmAssumption DEF Init, Idle, Tasks, NoName
<1>6. lastOf \in [Objects -> {Never} \cup 1 .. now] /\ madeAt \in {Never} \cup 1 .. now
  BY DEF Init
<1>7. updates \in 0 .. MaxUpdates /\ stopping \in {"up", "clearing", "closed", "down"}
  BY AlarmAssumption DEF Init
<1> QED
  BY <1>1, <1>2, <1>3, <1>4, <1>5, <1>6, <1>7 DEF Typed, TypeOK

(* The tracks after a frame: those of the matched objects are their own. *)
LEMMA TracksAfter ==
    ASSUME Typed, NEW matched \in SUBSET Objects, Tracking(matched)
    PROVE  /\ trackOf' \in [Objects -> 0 .. MaxTrackId]
           /\ tracker' \in [cfg : {c.tracker : c \in Configs} \cup {"none"}, up : BOOLEAN]
           /\ tracker'.up => tracker'.cfg \notin {"none", NoTracker}
           /\ madeAt' \in {madeAt, now}
           /\ matched # {} => cfg.tracker # NoTracker
           /\ \A o \in matched : trackOf'[o] \in 1 .. MaxTrackId
<1>0. cfg \in Configs /\ cfg.tracker # "none"
  BY AlarmAssumption DEF Typed, TypeOK
<1>1. CASE TrackingOff /\ matched = {}
  BY <1>1, AlarmAssumption DEF TrackingOff, NoTracks, NoTrack
<1>2. CASE NewTracker /\ FollowObjects(matched, NoTracks)
  <2>1. /\ trackOf' \in [Objects -> 0 .. MaxTrackId]
        /\ \A o \in matched : trackOf'[o] # 0
    BY <1>2 DEF FollowObjects, NoTrack
  <2>2. PICK made \in BOOLEAN : tracker' = [cfg |-> cfg.tracker, up |-> made]
    BY <1>2 DEF NewTracker
  <2>3. cfg.tracker # NoTracker /\ madeAt' = now
    BY <1>2 DEF NewTracker
  <2>4. \A o \in matched : trackOf'[o] \in 1 .. MaxTrackId
    BY <2>1, AlarmAssumption
  <2> QED
    BY <1>0, <2>1, <2>2, <2>3, <2>4
<1>3. CASE SameTracker /\ FollowObjects(matched, trackOf)
  <2>1. /\ trackOf' \in [Objects -> 0 .. MaxTrackId]
        /\ \A o \in matched : trackOf'[o] # 0
    BY <1>3 DEF FollowObjects, NoTrack
  <2>2. cfg.tracker # NoTracker /\ UNCHANGED <<tracker, madeAt>>
    BY <1>3 DEF SameTracker
  <2>3. \A o \in matched : trackOf'[o] \in 1 .. MaxTrackId
    BY <2>1, AlarmAssumption
  <2> QED
    BY <2>1, <2>2, <2>3 DEF Typed, TypeOK
<1> QED
  BY <1>1, <1>2, <1>3 DEF Tracking

LEMMA KeysAfter ==
    ASSUME Typed, NEW frame \in Frames, NEW matched \in SUBSET Range(frame), Tracking(matched)
    PROVE  KeptKeys(frame, matched) \subseteq Keys /\ Kept(frame, matched) \subseteq Range(frame)
<1>1. Range(frame) \subseteq Objects
  BY FrameObjects
<1>2. \A o \in matched : trackOf'[o] \in 1 .. MaxTrackId
  BY <1>1, TracksAfter
<1>3. \A o \in Objects : ClassOf[o] \in Range(ClassOf)
  BY AlarmAssumption DEF Range
<1>4. Kept(frame, matched) \subseteq Range(frame)
  BY KeptIs DEF Range
<1>5. \A o \in Range(frame) : KeyMap(frame, matched)[o] \in Keys
  <2> SUFFICES ASSUME NEW o \in Range(frame) PROVE KeyMap(frame, matched)[o] \in Keys
    OBVIOUS
  <2>1. KeyMap(frame, matched)[o] = KeyOf(o, IF o \in matched THEN trackOf'[o] ELSE 0)
    BY DEF KeyMap
  <2>2. CASE o \in matched
    BY <1>1, <1>2, <1>3, <2>1, <2>2 DEF KeyOf, Keys
  <2>3. CASE o \notin matched
    BY <1>1, <1>3, <2>1, <2>3 DEF KeyOf, Keys
  <2> QED
    BY <2>2, <2>3
<1> QED
  BY <1>4, <1>5 DEF KeptKeys

LEMMA TypedDetect == ASSUME Typed, NEW frame \in Frames, Detect(frame) PROVE Typed'
<1>1. UNCHANGED <<now, cfg, snapshot, lastTrigger, stopping, updates>>
  BY DetectIs
<1>2. PICK matched \in SUBSET Range(frame) :
                /\ Tracking(matched)
                /\ lastAlarm' = [k \in DOMAIN Entries \cup KeptKeys(frame, matched) |->
                                    IF k \in KeptKeys(frame, matched) THEN now ELSE Entries[k]]
                /\ task' = [pc |-> "detected", time |-> now, keys |-> KeptKeys(frame, matched),
                            suppressed |-> Range(frame) \ Kept(frame, matched),
                            tracked |-> matched, name |-> NoName]
                /\ lastOf' = [o \in Objects |-> IF o \in Kept(frame, matched) THEN now ELSE lastOf[o]]
                /\ DOMAIN alarms' = DOMAIN alarms \cup KeptKeys(frame, matched)
  BY DetectIs
<1>3. /\ Range(frame) \subseteq Objects /\ KeptKeys(frame, matched) \subseteq Keys
      /\ matched \in SUBSET Objects
  BY <1>2, FrameObjects, KeysAfter
<1>4. /\ trackOf' \in [Objects -> 0 .. MaxTrackId]
      /\ tracker' \in [cfg : {c.tracker : c \in Configs} \cup {"none"}, up : BOOLEAN]
      /\ tracker'.up => tracker'.cfg \notin {"none", NoTracker}
      /\ madeAt' \in {madeAt, now}
  BY <1>2, <1>3, TracksAfter
<1>5. now \in Nat /\ now > 0 /\ now <= MaxTime /\ MaxTime \in Nat
  BY ClockTyped
<1>6. DOMAIN lastAlarm' \subseteq Keys /\ \A k \in DOMAIN lastAlarm' : lastAlarm'[k] \in 1 .. now
  BY <1>2, <1>3, <1>5, EntriesAre DEF Typed, TypeOK
<1>7. task' \in Tasks /\ task'.time = now
  BY <1>2, <1>3, <1>5 DEF Tasks, NoName
<1>8. lastOf' \in [Objects -> {Never} \cup 1 .. now]
  <2>1. \A o \in Objects : lastOf[o] \in {Never} \cup 1 .. now
    BY DEF Typed, TypeOK
  <2> QED
    BY <1>2, <1>5, <2>1
<1>9. madeAt' \in {Never} \cup 1 .. now
  BY <1>4, <1>5 DEF Typed, TypeOK
<1>10. DOMAIN alarms' \subseteq Keys
  BY <1>2, <1>3 DEF Typed, TypeOK
<1>11. task'.time <= now'
  BY <1>1, <1>5, <1>7
<1>12. TypeOK'
  BY <1>1, <1>4, <1>6, <1>7, <1>8, <1>9, <1>10 DEF Typed, TypeOK
<1> QED
  BY <1>11, <1>12 DEF Typed

(* The steps of the snapshot, and those of stopStream. *)
SnapshotStep == TriggerAlarm \/ SnapshotThrottled \/ SnapshotLock \/ SnapshotSaved \/ SnapshotFails \/ PushAlarms
CloseStep == CloseBegin \/ CloseEnd \/ ReleaseDetector

LEMMA TriggerIs ==
    ASSUME TriggerAlarm
    PROVE  \/ task' = Idle
           \/ task' = [pc |-> "snapshot", time |-> now, keys |-> {}, suppressed |-> {}, tracked |-> {},
                       name |-> NoName]
BY Zenon DEF TriggerAlarm, Idle

LEMMA TypedSnapshot == ASSUME Typed, SnapshotStep PROVE Typed'
<1>1. UNCHANGED <<now, cfg, tracker, trackOf, lastAlarm, stopping, updates, lastOf, madeAt, alarms>>
  BY DEF SnapshotStep, TriggerAlarm, SnapshotThrottled, SnapshotLock, SnapshotSaved, SnapshotFails,
         PushAlarms, detectorVars, historyVars
<1>2. /\ now \in Nat /\ now > 0 /\ now <= MaxTime /\ MaxTime \in Nat
      /\ task.time \in Nat /\ task.time <= now /\ lastTrigger \in Nat /\ lastTrigger <= now
      /\ snapshot \in 0 .. MaxTime
  BY ClockTyped DEF Typed, TypeOK
<1>3. task \in Tasks
  BY DEF Typed, TypeOK
<1>4. task' \in Tasks /\ task'.time \in {0, now, task.time}
  <2>1. Idle \in Tasks /\ Idle.time = 0
    BY <1>2 DEF Idle, Tasks, NoName
  <2>2. CASE TriggerAlarm
    <3> DEFINE triggered == [pc |-> "snapshot", time |-> now, keys |-> {}, suppressed |-> {},
                             tracked |-> {}, name |-> NoName]
    <3>1. triggered \in Tasks /\ triggered.time = now
      BY <1>2 DEF Tasks, NoName
    <3> QED
      BY <2>1, <2>2, <3>1, TriggerIs
  <2>3. CASE SnapshotLock
    BY <1>3, <2>3 DEF SnapshotLock, Goto, Tasks
  <2>4. CASE PushAlarms
    BY <2>1, <2>4 DEF PushAlarms
  <2>5. ASSUME NEW name \in (0 .. MaxTime) \cup {Torn}, ReportName(name)
        PROVE  task' \in Tasks /\ task'.time = task.time
    BY <1>3, <2>5 DEF ReportName, Tasks
  <2>6. NoName \in (0 .. MaxTime) \cup {Torn} /\ task.time \in (0 .. MaxTime) \cup {Torn}
    BY <1>2 DEF NoName
  <2>7. CASE SnapshotThrottled \/ SnapshotSaved \/ SnapshotFails
    BY <1>2, <2>5, <2>6, <2>7 DEF SnapshotThrottled, SnapshotSaved, SnapshotFails
  <2> QED
    BY <2>2, <2>3, <2>4, <2>7 DEF SnapshotStep
<1>5. snapshot' \in 0 .. MaxTime /\ lastTrigger' \in 0 .. now
  BY <1>2 DEF SnapshotStep, TriggerAlarm, SnapshotThrottled, SnapshotLock, SnapshotSaved, SnapshotFails,
         PushAlarms, NoName
<1>6. task'.time <= now'
  BY <1>1, <1>2, <1>4
<1>7. TypeOK'
  BY <1>1, <1>4, <1>5 DEF Typed, TypeOK
<1> QED
  BY <1>6, <1>7 DEF Typed

LEMMA TypedUpdate == ASSUME Typed, NEW c \in Configs, UpdateStreamRuntime(c) PROVE Typed'
<1>1. UNCHANGED <<now, task, snapshot, lastTrigger, stopping, lastOf, madeAt>> /\ cfg' = c
  BY DEF UpdateStreamRuntime
<1>2. updates' \in 0 .. MaxUpdates
  BY AlarmAssumption DEF UpdateStreamRuntime, Typed, TypeOK
<1>3. /\ tracker' \in [cfg : {d.tracker : d \in Configs} \cup {"none"}, up : BOOLEAN]
      /\ tracker'.up => tracker'.cfg \notin {"none", NoTracker}
      /\ trackOf' \in [Objects -> 0 .. MaxTrackId]
  <2>1. NoTracks \in [Objects -> 0 .. MaxTrackId]
    BY AlarmAssumption DEF NoTracks, NoTrack
  <2>2. \/ tracker' = [cfg |-> "none", up |-> FALSE] /\ trackOf' = NoTracks
        \/ UNCHANGED <<tracker, trackOf>>
    BY DEF UpdateStreamRuntime, detectorVars
  <2>3. /\ tracker \in [cfg : {d.tracker : d \in Configs} \cup {"none"}, up : BOOLEAN]
        /\ tracker.up => tracker.cfg \notin {"none", NoTracker}
        /\ trackOf \in [Objects -> 0 .. MaxTrackId]
    BY DEF Typed, TypeOK
  <2>4. CASE UNCHANGED <<tracker, trackOf>>
    BY <2>3, <2>4
  <2>5. CASE tracker' = [cfg |-> "none", up |-> FALSE] /\ trackOf' = NoTracks
    BY <2>1, <2>5
  <2> QED
    BY <2>2, <2>4, <2>5
<1>4. DOMAIN lastAlarm' \subseteq Keys /\ \A k \in DOMAIN lastAlarm' : lastAlarm'[k] \in 1 .. now
  BY DEF UpdateStreamRuntime, Typed, TypeOK, detectorVars, NoKeys
<1>5. DOMAIN alarms' \subseteq Keys
  BY DEF UpdateStreamRuntime, Typed, TypeOK, NarrowedAlarms
<1>6. TypeOK'
  BY <1>1, <1>2, <1>3, <1>4, <1>5 DEF Typed, TypeOK
<1> QED
  BY <1>1, <1>6 DEF Typed

LEMMA TypedClose == ASSUME Typed, CloseStep PROVE Typed'
<1>1. /\ UNCHANGED <<now, cfg, tracker, trackOf, lastAlarm, task, lastTrigger, updates, lastOf, madeAt, alarms>>
      /\ stopping' \in {"up", "clearing", "closed", "down"}
  BY DEF CloseStep, CloseBegin, CloseEnd, ReleaseDetector, detectorVars, historyVars
<1>2. snapshot' \in 0 .. MaxTime
  BY AlarmAssumption DEF CloseStep, CloseBegin, CloseEnd, ReleaseDetector, NoName, Typed, TypeOK
<1>3. TypeOK'
  BY <1>1, <1>2 DEF Typed, TypeOK
<1> QED
  BY <1>1, <1>3 DEF Typed

LEMMA TypedTick == ASSUME Typed, Tick PROVE Typed'
<1>1. /\ UNCHANGED <<cfg, tracker, trackOf, lastAlarm, task, snapshot, lastTrigger, stopping, updates, lastOf, madeAt>>
      /\ now' = now + 1 /\ now < MaxTime
  BY DEF Tick, detectorVars
<1>2. now \in Nat /\ now > 0 /\ MaxTime \in Nat /\ task.time \in Nat /\ task.time <= now
  BY ClockTyped
<1>3. now' \in 1 .. MaxTime /\ (\A t \in 1 .. now : t \in 1 .. now') /\ task.time <= now'
  BY <1>1, <1>2
<1>4. \A k \in DOMAIN lastAlarm' : lastAlarm'[k] \in 1 .. now'
  BY <1>1, <1>3 DEF Typed, TypeOK
<1>5. lastOf' \in [Objects -> {Never} \cup 1 .. now'] /\ madeAt' \in {Never} \cup 1 .. now'
  BY <1>1, <1>3 DEF Typed, TypeOK
<1>6. lastTrigger' \in 0 .. now'
  BY <1>1, <1>2 DEF Typed, TypeOK
<1>7. DOMAIN alarms' \subseteq Keys
  BY DEF Tick, Restrict, Typed, TypeOK
<1>8. TypeOK'
  BY <1>1, <1>3, <1>4, <1>5, <1>6, <1>7 DEF Typed, TypeOK
<1> QED
  BY <1>1, <1>3, <1>8 DEF Typed

LEMMA TypedStep == Typed /\ [Next]_vars => Typed'
<1> SUFFICES ASSUME Typed, [Next]_vars PROVE Typed'
  OBVIOUS
<1>1. CASE UNCHANGED vars
  BY <1>1 DEF vars, detectorVars, historyVars, Typed, TypeOK
<1>2. CASE Down
  BY <1>1, <1>2 DEF Down
<1>3. CASE SnapshotStep \/ CloseStep \/ Tick
  BY <1>3, TypedSnapshot, TypedClose, TypedTick
<1> QED
  BY <1>1, <1>2, <1>3, TypedDetect, TypedUpdate DEF Next, SnapshotStep, CloseStep

LEMMA TypedHolds == Spec => []Typed
BY TypedInit, TypedStep, PTL DEF Spec

(* Every variable keeps its type: no time is in the future, no entry is for a track the
   tracker cannot give, and a tracker is there only with settings it was made for. *)
THEOREM AlarmTypes == Spec => []TypeOK
<1>1. Typed => TypeOK
  BY DEF Typed
<1> QED
  BY <1>1, TypedHolds, PTL

-----------------------------------------------------------------------------
(* The snapshot of an alarm. *)

(* The name that is kept is that of the snapshot lastTrigger is the time of. *)
Fresh ==
    /\ snapshot \in {NoName, lastTrigger}
    /\ SnapshotFresh

LEMMA FreshStep == Typed /\ Fresh /\ [Next]_vars => Fresh'
<1> SUFFICES ASSUME Typed, Fresh, [Next]_vars PROVE Fresh'
  OBVIOUS
<1>0. /\ task.time \in Nat /\ lastTrigger \in Nat /\ snapshot \in Nat
      /\ SnapshotInterval \in Nat /\ SnapshotInterval > 0 /\ task \in Tasks
  BY ClockTyped, AlarmAssumption DEF Typed, TypeOK
<1>1. ASSUME UNCHANGED <<snapshot, lastTrigger>>, task'.pc # "report" PROVE Fresh'
  BY <1>1 DEF Fresh, SnapshotFresh
<1>2. ASSUME UNCHANGED <<snapshot, lastTrigger, task, stopping>> PROVE Fresh'
  BY <1>2 DEF Fresh, SnapshotFresh
<1>3. ASSUME NEW frame, Detect(frame) PROVE Fresh'
  <2>1. UNCHANGED <<snapshot, lastTrigger>>
    BY <1>3 DEF Detect
  <2>2. \E keys, suppressed, matched :
            task' = [pc |-> "detected", time |-> now, keys |-> keys, suppressed |-> suppressed,
                     tracked |-> matched, name |-> NoName]
    BY <1>3, DetectIs, Zenon
  <2>3. task'.pc # "report"
    BY <2>2
  <2> QED
    BY <1>1, <2>1, <2>3
<1>4. CASE TriggerAlarm \/ SnapshotLock \/ PushAlarms
  <2>1. task'.pc # "report"
    <3>1. CASE TriggerAlarm
      BY <3>1, TriggerIs DEF Idle
    <3>2. CASE SnapshotLock
      BY <1>0, <3>2 DEF SnapshotLock, Goto, Tasks
    <3>3. CASE PushAlarms
      BY <3>3 DEF PushAlarms, Idle
    <3> QED
      BY <1>4, <3>1, <3>2, <3>3
  <2> QED
    BY <1>1, <1>4, <2>1 DEF TriggerAlarm, SnapshotLock, PushAlarms
<1>5. ASSUME NEW name, ReportName(name) PROVE task'.name = name /\ task'.time = task.time
  BY <1>0, <1>5 DEF ReportName, Tasks
<1>6. CASE SnapshotThrottled
  <2>1. UNCHANGED <<snapshot, lastTrigger, stopping>> /\ task.time - lastTrigger < SnapshotInterval
    BY <1>6 DEF SnapshotThrottled, Throttled
  <2>2. \/ task'.name = snapshot /\ task'.time = task.time
        \/ stopping = "clearing"
    BY <1>5, <1>6 DEF SnapshotThrottled
  <2>3. snapshot \in {NoName, lastTrigger} /\ lastTrigger # Torn
    BY <1>0 DEF Fresh, Torn
  <2> QED
    BY <2>1, <2>2, <2>3 DEF Fresh, SnapshotFresh
<1>7. CASE SnapshotSaved
  <2>1. snapshot' = task.time /\ lastTrigger' = task.time /\ task'.name = task.time /\ task'.time = task.time
    BY <1>5, <1>7 DEF SnapshotSaved
  <2>2. task.time # Torn /\ task.time - task.time < SnapshotInterval
    BY <1>0 DEF Torn
  <2> QED
    BY <2>1, <2>2 DEF Fresh, SnapshotFresh
<1>8. CASE SnapshotFails
  <2>1. snapshot' \in {snapshot, NoName} /\ UNCHANGED lastTrigger /\ task'.name = NoName
    BY <1>5, <1>8 DEF SnapshotFails
  <2> QED
    BY <2>1 DEF Fresh, SnapshotFresh
<1>9. ASSUME NEW c, UpdateStreamRuntime(c) PROVE Fresh'
  BY <1>2, <1>9 DEF UpdateStreamRuntime
<1>10. CASE CloseStep
  <2>1. stopping' # "up" /\ snapshot' \in {snapshot, NoName} /\ UNCHANGED lastTrigger
    BY <1>10 DEF CloseStep, CloseBegin, CloseEnd, ReleaseDetector
  <2> QED
    BY <2>1 DEF Fresh, SnapshotFresh
<1>11. CASE Tick \/ Down \/ UNCHANGED vars
  BY <1>2, <1>11 DEF Tick, Down, vars
<1> QED
  BY <1>3, <1>4, <1>6, <1>7, <1>8, <1>9, <1>10, <1>11 DEF Next, CloseStep

(* The snapshot an alarm names is never older than the interval, whatever saves fail or are
   throttled and however the encoder is set up anew (Pipeline.cpp, triggerAlarmSnapshot). *)
THEOREM SnapshotsAreFresh == Spec => []SnapshotFresh
<1>1. Init => Fresh
  BY DEF Init, Idle, Fresh, SnapshotFresh
<1>2. Fresh => SnapshotFresh
  BY DEF Fresh
<1> QED
  BY <1>1, <1>2, TypedHolds, FreshStep, PTL DEF Spec

-----------------------------------------------------------------------------
(* No flood of alarms. *)

(* The alarms that still count and were given by the detector there is. *)
Own == {k \in DOMAIN alarms : ~alarms[k].replaced}

(* Such an alarm has its entry in the deduplication table, which is young enough not to
   be pruned with the window in force. *)
Remembered ==
    \A k \in Own :
        /\ k \in DOMAIN lastAlarm
        /\ alarms[k].at = lastAlarm[k]
        /\ alarms[k].window \in Nat
        /\ alarms[k].window <= AlarmDedupWindow
        /\ now - alarms[k].at < alarms[k].window

LEMMA EntryTime == ASSUME Typed PROVE \A k \in DOMAIN lastAlarm : lastAlarm[k] \in Nat
<1>1. \A k \in DOMAIN lastAlarm : lastAlarm[k] \in 1 .. now
  BY DEF Typed, TypeOK
<1> QED
  BY <1>1, ClockTyped

(* A key that has an alarm which counts gets no other. *)
LEMMA KeysAreNew ==
    ASSUME Typed, Remembered, NEW frame, NEW matched
    PROVE  /\ KeptKeys(frame, matched) \cap Own = {}
           /\ Own \subseteq DOMAIN Entries
<1>1. ASSUME NEW k \in Own
      PROVE  k \in DOMAIN Entries /\ now - Entries[k] < AlarmDedupWindow
  <2>1. /\ k \in DOMAIN lastAlarm /\ lastAlarm[k] \in Nat /\ AlarmDedupWindow \in Nat /\ now \in Nat
        /\ alarms[k].window \in Nat /\ alarms[k].window <= AlarmDedupWindow
        /\ now - lastAlarm[k] < alarms[k].window
    BY EntryTime, Window, ClockTyped DEF Remembered
  <2>2. lastAlarm[k] > now - AlarmDedupWindow /\ now - lastAlarm[k] < AlarmDedupWindow
    BY <2>1
  <2> QED
    BY <2>1, <2>2, EntriesAre
<1>2. ASSUME NEW k \in KeptKeys(frame, matched), k \in DOMAIN Entries
      PROVE  now - Entries[k] >= AlarmDedupWindow
  BY <1>2, KeptIs DEF KeptKeys
<1>3. ASSUME NEW k \in Own, k \in KeptKeys(frame, matched) PROVE FALSE
  <2>1. now - Entries[k] < AlarmDedupWindow /\ now - Entries[k] >= AlarmDedupWindow
    BY <1>1, <1>2, <1>3
  <2>2. now \in Nat /\ AlarmDedupWindow \in Nat /\ Entries[k] \in Nat
    BY <1>1, <1>3, EntryTime, EntriesAre, Window, ClockTyped
  <2> QED
    BY <2>1, <2>2
<1> QED
  BY <1>1, <1>3

LEMMA RememberedDetect ==
    ASSUME Typed, Remembered, NEW frame, Detect(frame) PROVE Remembered'
<1>1. UNCHANGED <<now, cfg>>
  BY DEF Detect
<1>2. PICK matched \in SUBSET Range(frame) :
         /\ lastAlarm' = [k \in DOMAIN Entries \cup KeptKeys(frame, matched) |->
                            IF k \in KeptKeys(frame, matched) THEN now ELSE Entries[k]]
         /\ alarms' = [k \in DOMAIN alarms \cup KeptKeys(frame, matched) |->
                         IF k \in KeptKeys(frame, matched)
                         THEN [at |-> now, window |-> AlarmDedupWindow, replaced |-> FALSE]
                         ELSE alarms[k]]
  BY DetectIs, ZenonT(40)
<1>3. AlarmDedupWindow' = AlarmDedupWindow
  BY <1>1 DEF AlarmDedupWindow
<1>4. AlarmDedupWindow \in Nat /\ AlarmDedupWindow > 0 /\ now \in Nat
  BY Window, ClockTyped
<1>5. Own \subseteq DOMAIN Entries
  BY KeysAreNew
<1> SUFFICES ASSUME NEW k \in Own'
             PROVE  /\ k \in DOMAIN lastAlarm'
                    /\ alarms'[k].at = lastAlarm'[k]
                    /\ alarms'[k].window \in Nat
                    /\ alarms'[k].window <= AlarmDedupWindow
                    /\ now - alarms'[k].at < alarms'[k].window
  BY <1>1, <1>3 DEF Remembered
<1>a. k \in DOMAIN alarms' /\ ~alarms'[k].replaced
  BY DEF Own
<1>6. CASE k \in KeptKeys(frame, matched)
  <2>1. alarms'[k].at = now /\ alarms'[k].window = AlarmDedupWindow
    BY <1>2, <1>6, <1>a
  <2>2. k \in DOMAIN lastAlarm' /\ lastAlarm'[k] = now
    BY <1>2, <1>6
  <2> QED
    BY <1>4, <2>1, <2>2
<1>7. CASE k \notin KeptKeys(frame, matched)
  <2>1. k \in Own /\ alarms'[k] = alarms[k]
    BY <1>2, <1>7, <1>a DEF Own
  <2>2. k \in DOMAIN lastAlarm' /\ lastAlarm'[k] = lastAlarm[k]
    BY <1>2, <1>5, <1>7, <2>1, EntriesAre
  <2> QED
    BY <2>1, <2>2 DEF Remembered
<1> QED
  BY <1>6, <1>7

LEMMA RememberedUpdate ==
    ASSUME Typed, Typed', Remembered, NEW c \in Configs, UpdateStreamRuntime(c) PROVE Remembered'
<1>1. UNCHANGED now
  BY DEF UpdateStreamRuntime
<1>2. CASE c.algorithms # cfg.algorithms
  <2>1. Own' = {}
    BY <1>2 DEF UpdateStreamRuntime, NarrowedAlarms, Own
  <2> QED
    BY <2>1 DEF Remembered
<1>3. CASE c.algorithms = cfg.algorithms
  <2>0. alarms' = NarrowedAlarms(AlarmDedupWindow', FALSE) /\ UNCHANGED lastAlarm
    BY <1>3 DEF UpdateStreamRuntime, detectorVars
  <2> DEFINE w == AlarmDedupWindow'
  <2>1. w \in Nat /\ now \in Nat
    <3>1. cfg' \in Configs
      BY DEF Typed, TypeOK
    <3>2. cfg'.interval \in Int
      BY <3>1, AlarmAssumption
    <3> QED
      BY <3>2, ClockTyped, AlarmAssumption DEF AlarmDedupWindow
  <2>2. \A k \in Own' :
           /\ k \in Own /\ now - alarms[k].at < w
           /\ alarms'[k].at = alarms[k].at
           /\ alarms'[k].window = IF w < alarms[k].window THEN w ELSE alarms[k].window
    BY <2>0 DEF NarrowedAlarms, Own
  <2> HIDE DEF w
  <2>3. \A k \in Own' : /\ alarms'[k].window \in Nat /\ alarms'[k].window <= w
                                  /\ now - alarms'[k].at < alarms'[k].window
    BY <2>1, <2>2 DEF Remembered
  <2> QED
    BY <1>1, <2>0, <2>2, <2>3 DEF Remembered, w
<1> QED
  BY <1>2, <1>3

LEMMA RememberedStep == Typed /\ Remembered /\ [Next]_vars => Remembered'
<1> SUFFICES ASSUME Typed, Remembered, [Next]_vars PROVE Remembered'
  OBVIOUS
<1>0. Typed'
  BY TypedStep
<1>1. ASSUME UNCHANGED <<now, cfg, lastAlarm, alarms>> PROVE Remembered'
  BY <1>1 DEF Remembered, Own, AlarmDedupWindow
<1>2. CASE SnapshotStep
  BY <1>1, <1>2 DEF SnapshotStep, TriggerAlarm, SnapshotThrottled, SnapshotLock, SnapshotSaved,
                    SnapshotFails, PushAlarms, detectorVars, historyVars
<1>3. CASE CloseStep
  BY <1>1, <1>3 DEF CloseStep, CloseBegin, CloseEnd, ReleaseDetector, detectorVars, historyVars
<1>4. CASE Tick
  <2>1. UNCHANGED <<cfg, lastAlarm>>
    BY <1>4 DEF Tick, detectorVars
  <2>2. \A k \in Own' : /\ k \in Own /\ alarms'[k] = alarms[k]
                        /\ now' - alarms[k].at < alarms[k].window
    BY <1>4 DEF Tick, Restrict, Own
  <2>3. AlarmDedupWindow' = AlarmDedupWindow
    BY <2>1 DEF AlarmDedupWindow
  <2> QED
    BY <2>1, <2>2, <2>3 DEF Remembered
<1>5. CASE Down \/ UNCHANGED vars
  BY <1>1, <1>5 DEF Down, vars, detectorVars, historyVars
<1> QED
  BY <1>0, <1>2, <1>3, <1>4, <1>5, RememberedDetect, RememberedUpdate DEF Next, SnapshotStep, CloseStep

(* Two alarms of one track or class are never closer than the smallest window in force
   between them, unless other algorithms have replaced the detector meanwhile: pruning
   with the window of the day forgets none that counts (AlgoDetectorWorkflow.cpp,
   pruneExpiredEntries and shouldKeepObject; Pipeline::updateStreamRuntime). *)
THEOREM NoFloodOfAlarms == Spec => NoAlarmFlood
<1>1. Init => Remembered
  BY DEF Init, NoKeys, Remembered, Own
<1>2. Typed /\ Remembered /\ [Next]_vars =>
        [task.pc = "idle" /\ task'.pc = "detected" =>
             \A k \in task'.keys \cap DOMAIN alarms : alarms[k].replaced]_vars
  <2> SUFFICES ASSUME Typed, Remembered, Next, task.pc = "idle", task'.pc = "detected"
               PROVE  \A k \in task'.keys \cap DOMAIN alarms : alarms[k].replaced
    OBVIOUS
  <2>1. \E frame \in Frames : Detect(frame)
    BY DEF Next, TriggerAlarm, SnapshotThrottled, SnapshotLock, SnapshotSaved, SnapshotFails, PushAlarms,
           UpdateStreamRuntime, CloseBegin, CloseEnd, ReleaseDetector, Tick, Down, vars
  <2>2. PICK frame : Detect(frame)
    BY <2>1
  <2>3. PICK matched : task' = [pc |-> "detected", time |-> now, keys |-> KeptKeys(frame, matched),
                                suppressed |-> Range(frame) \ Kept(frame, matched),
                                tracked |-> matched, name |-> NoName]
    BY <2>2, DetectIs, Zenon
  <2>4. task'.keys = KeptKeys(frame, matched)
    BY <2>3
  <2> QED
    BY <2>4, KeysAreNew DEF Own
<1> QED
  BY <1>1, <1>2, TypedHolds, RememberedStep, PTL DEF Spec, NoAlarmFlood

-----------------------------------------------------------------------------
(* No alarm is lost to another object. *)

(* An entry of a class is the alarm of an object of the class. *)
ClassEntries ==
    \A c : <<"class", c>> \in DOMAIN lastAlarm =>
        \E p \in Objects : /\ ClassOf[p] = c /\ lastOf[p] # Never
                           /\ lastOf[p] >= lastAlarm[<<"class", c>>]

(* An entry of a track is the alarm of the object on it, or as old as the tracker. *)
TrackEntries(tracks, made) ==
    \A id : <<"object", id>> \in DOMAIN lastAlarm =>
        LET entry == lastAlarm[<<"object", id>>] IN
        \/ made # Never /\ entry <= made
        \/ \E p \in Objects : tracks[p] = id /\ lastOf[p] # Never /\ lastOf[p] >= entry

OwnTracks == \A o, p \in Objects : trackOf[o] = trackOf[p] /\ trackOf[o] # NoTrack => o = p

Owned ==
    /\ ClassEntries
    /\ tracker.cfg # "none" => TrackEntries(trackOf, madeAt)
    /\ OwnTracks
    /\ SuppressedByOwnAlarm

LEMMA LeastIndex ==
    ASSUME NEW S, S \subseteq Nat, S # {}
    PROVE  \E m \in S : \A i \in S : m <= i
<1>1. PICK m \in S : \A i \in S : ~ (<<i, m>> \in OpToRel(<, Nat))
  BY WFMin, NatLessThanWellFounded
<1>2. ASSUME NEW i \in S, i < m PROVE <<i, m>> \in OpToRel(<, Nat)
  <2>1. <<i, m>> \in Nat \X Nat /\ <<i, m>>[1] < <<i, m>>[2]
    BY <1>2
  <2> QED
    BY <2>1, Zenon DEF OpToRel
<1>3. \A i \in S : ~(i < m)
  BY <1>1, <1>2, Zenon
<1> QED
  BY <1>3

LEMMA AlarmTimes ==
    ASSUME Typed
    PROVE  /\ \A o \in Objects : lastOf[o] \in Int /\ lastOf[o] <= now
           /\ madeAt \in Int /\ madeAt <= now
<1>1. now \in Nat
  BY ClockTyped
<1>2. \A o \in Objects : lastOf[o] \in {Never} \cup 1 .. now
  BY DEF Typed, TypeOK
<1>3. madeAt \in {Never} \cup 1 .. now
  BY DEF Typed, TypeOK
<1> QED
  BY <1>1, <1>2, <1>3 DEF Never

(* After tracking, the entries are still those of the tracks: a new tracker is younger
   than all of them, an old one keeps its tracks. *)
LEMMA EntriesAfterTracking ==
    ASSUME Typed, Owned, NEW matched \in SUBSET Objects, Tracking(matched)
    PROVE  /\ OwnTracks'
           /\ cfg.tracker # NoTracker => TrackEntries(trackOf', madeAt')
           /\ cfg.tracker = NoTracker => tracker'.cfg = "none"
<1>1. now \in Nat /\ \A k \in DOMAIN lastAlarm : lastAlarm[k] \in Nat /\ lastAlarm[k] <= now
  BY ClockTyped DEF Typed, TypeOK
<1>2. CASE TrackingOff
  BY <1>2 DEF TrackingOff, OwnTracks, NoTracks
<1>3. CASE NewTracker /\ FollowObjects(matched, NoTracks)
  <2>1. madeAt' = now /\ now # Never /\ cfg.tracker # NoTracker
    BY <1>1, <1>3 DEF NewTracker, Never
  <2>2. OwnTracks'
    BY <1>3 DEF FollowObjects, OwnTracks
  <2> QED
    BY <1>1, <2>1, <2>2 DEF TrackEntries
<1>4. CASE SameTracker /\ FollowObjects(matched, trackOf)
  <2>1. OwnTracks'
    BY <1>4 DEF FollowObjects, OwnTracks
  <2>2. /\ \A o \in Objects : trackOf[o] # NoTrack => trackOf'[o] = trackOf[o]
        /\ madeAt' = madeAt /\ cfg.tracker # NoTracker /\ tracker.cfg = cfg.tracker
    BY <1>4 DEF FollowObjects, SameTracker
  <2>3. TrackEntries(trackOf, madeAt)
    <3>1. cfg \in Configs /\ cfg.tracker # "none"
      BY AlarmAssumption DEF Typed, TypeOK
    <3> QED
      BY <2>2, <3>1 DEF Owned
  <2>4. \A id : <<"object", id>> \in DOMAIN lastAlarm => id # NoTrack
    BY AlarmAssumption DEF Typed, TypeOK, Keys, NoTrack
  <2> QED
    BY <2>1, <2>2, <2>3, <2>4 DEF TrackEntries
<1> QED
  BY <1>2, <1>3, <1>4 DEF Tracking

(* The key of an object of a frame. *)
LEMMA KeyIs ==
    ASSUME Typed, NEW frame \in Frames, NEW matched \in SUBSET Range(frame), Tracking(matched),
           NEW o \in Range(frame)
    PROVE  /\ o \in matched => KeyMap(frame, matched)[o] = <<"object", trackOf'[o]>>
           /\ o \notin matched => KeyMap(frame, matched)[o] = <<"class", ClassOf[o]>>
           /\ o \in matched => cfg.tracker # NoTracker /\ trackOf'[o] # NoTrack
<1>1. Range(frame) \subseteq Objects
  BY FrameObjects
<1>2. o \in matched => cfg.tracker # NoTracker /\ trackOf'[o] \in 1 .. MaxTrackId
  BY <1>1, TracksAfter
<1>3. KeyMap(frame, matched)[o] = KeyOf(o, IF o \in matched THEN trackOf'[o] ELSE 0)
  BY DEF KeyMap
<1> QED
  BY <1>2, <1>3, AlarmAssumption DEF KeyOf, NoTrack

(* The objects of a frame that give no alarm. *)
LEMMA SuppressedAre ==
    ASSUME Typed, Owned, NEW frame \in Frames, NEW matched \in SUBSET Range(frame), Tracking(matched),
           NEW o \in Range(frame) \ Kept(frame, matched)
    PROVE  LET recent(t) == t # Never /\ now - t < AlarmDedupWindow IN
           IF o \in matched THEN recent(lastOf[o]) \/ recent(madeAt')
           ELSE \E p \in Objects : /\ ClassOf[p] = ClassOf[o]
                                   /\ p \in Kept(frame, matched) \/ recent(lastOf[p])
<1> DEFINE key == KeyMap(frame, matched)[o]
           recentKey == key \in DOMAIN Entries /\ now - Entries[key] < AlarmDedupWindow
<1>1. /\ Range(frame) \subseteq Objects /\ matched \in SUBSET Objects
      /\ \A i, j \in DOMAIN frame : frame[i] = frame[j] => i = j
      /\ \A j \in DOMAIN frame : frame[j] \in Range(frame)
  BY FrameObjects DEF IsInjective
<1>2. PICK n \in Nat : DOMAIN frame = 1 .. n
  BY FrameObjects
<1>3. PICK j \in DOMAIN frame : o = frame[j]
  BY FrameObjects
<1>4. /\ now \in Nat /\ AlarmDedupWindow \in Nat
      /\ \A k \in DOMAIN Entries : Entries[k] \in Nat /\ Entries[k] = lastAlarm[k] /\ k \in DOMAIN lastAlarm
  BY ClockTyped, Window, EntriesAre, EntryTime
<1>5. /\ \A p \in Objects : lastOf[p] \in Int
      /\ madeAt' \in Int
  <2>1. madeAt' \in {madeAt, now}
    BY <1>1, TracksAfter
  <2> QED
    BY <1>4, <2>1, AlarmTimes
<1>6. recentKey \/ \E h \in 1 .. j - 1 : KeyMap(frame, matched)[frame[h]] = key
  <2>1. \/ ~(key \in DOMAIN Entries => now - Entries[key] >= AlarmDedupWindow)
        \/ \E h \in 1 .. j - 1 : KeyMap(frame, matched)[frame[h]] = key
    BY <1>3, KeptIs
  <2> QED
    BY <1>4, <2>1
<1>7. CASE o \in matched
  <2>1. key = <<"object", trackOf'[o]>> /\ trackOf'[o] # NoTrack /\ cfg.tracker # NoTracker
    BY <1>7, KeyIs
  <2>2. OwnTracks' /\ TrackEntries(trackOf', madeAt')
    BY <1>1, <2>1, EntriesAfterTracking
  <2>3. ASSUME NEW h \in 1 .. j - 1, KeyMap(frame, matched)[frame[h]] = key PROVE FALSE
    <3>1. h \in DOMAIN frame /\ h # j
      BY <1>2
    <3>2. frame[h] # o /\ frame[h] \in Range(frame)
      BY <1>1, <1>3, <3>1
    <3>3. frame[h] \in matched /\ trackOf'[frame[h]] = trackOf'[o]
      BY <2>1, <2>3, <3>2, KeyIs
    <3> QED
      BY <1>1, <2>1, <2>2, <3>2, <3>3 DEF OwnTracks
  <2>4. key \in DOMAIN lastAlarm /\ lastAlarm[key] \in Nat /\ now - lastAlarm[key] < AlarmDedupWindow
    BY <1>4, <1>6, <2>3
  <2>5. \/ madeAt' # Never /\ lastAlarm[key] <= madeAt'
        \/ \E p \in Objects : /\ trackOf'[p] = trackOf'[o] /\ lastOf[p] # Never
                              /\ lastOf[p] >= lastAlarm[key]
    BY <2>1, <2>2, <2>4 DEF TrackEntries
  <2>6. \/ madeAt' # Never /\ lastAlarm[key] <= madeAt'
        \/ lastOf[o] # Never /\ lastOf[o] >= lastAlarm[key]
    BY <1>1, <2>1, <2>2, <2>5 DEF OwnTracks
  <2>7. lastOf[o] \in Int /\ madeAt' \in Int /\ now \in Nat /\ AlarmDedupWindow \in Nat
    BY <1>1, <1>4, <1>5
  <2>8. \A t \in Int : t >= lastAlarm[key] => now - t < AlarmDedupWindow
    <3> HIDE DEF key
    <3> QED
      BY <2>4, <2>7
  <2>9. \/ madeAt' # Never /\ now - madeAt' < AlarmDedupWindow
        \/ lastOf[o] # Never /\ now - lastOf[o] < AlarmDedupWindow
    <3> HIDE DEF key
    <3>1. CASE madeAt' # Never /\ lastAlarm[key] <= madeAt'
      <4>1. madeAt' >= lastAlarm[key]
        BY <2>4, <2>7, <3>1
      <4> QED
        BY <2>7, <2>8, <3>1, <4>1
    <3>2. CASE lastOf[o] # Never /\ lastOf[o] >= lastAlarm[key]
      BY <2>7, <2>8, <3>2
    <3> QED
      BY <2>6, <3>1, <3>2
  <2> QED
    BY <1>7, <2>9
<1>8. CASE o \notin matched
  <2> DEFINE S == {i \in DOMAIN frame : KeyMap(frame, matched)[frame[i]] = key}
  <2>1. key = <<"class", ClassOf[o]>>
    BY <1>8, KeyIs
  <2>2. PICK m \in S : \A i \in S : m <= i
    <3>1. S \subseteq Nat /\ j \in S
      BY <1>2, <1>3
    <3> QED
      BY <3>1, LeastIndex
  <2>3. frame[m] \in Range(frame) /\ ClassOf[frame[m]] = ClassOf[o]
    BY <1>1, <2>1, <2>2, KeyIs
  <2>4. CASE ~recentKey
    <3>1. key \in DOMAIN Entries => now - Entries[key] >= AlarmDedupWindow
      BY <1>4, <2>4
    <3>2. \A h \in 1 .. m - 1 : KeyMap(frame, matched)[frame[h]] # key
      BY <1>2, <2>2
    <3>3. frame[m] \in Kept(frame, matched)
      BY <2>2, <3>1, <3>2, KeptIs
    <3> QED
      BY <1>1, <1>8, <2>3, <3>3
  <2>5. CASE recentKey
    <3>1. PICK p \in Objects : ClassOf[p] = ClassOf[o] /\ lastOf[p] # Never /\ lastOf[p] >= lastAlarm[key]
      BY <1>4, <2>1, <2>5 DEF Owned, ClassEntries
    <3>2. now - lastOf[p] < AlarmDedupWindow
      BY <1>4, <1>5, <2>5, <3>1
    <3> QED
      BY <1>8, <3>1, <3>2
  <2> QED
    BY <2>4, <2>5
<1> QED
  BY <1>7, <1>8

LEMMA OwnedDetect == ASSUME Typed, Owned, NEW frame \in Frames, Detect(frame) PROVE Owned'
<1>1. UNCHANGED <<now, cfg>>
  BY DEF Detect
<1>2. PICK matched \in SUBSET Range(frame) :
         /\ Tracking(matched)
         /\ lastAlarm' = [k \in DOMAIN Entries \cup KeptKeys(frame, matched) |->
                            IF k \in KeptKeys(frame, matched) THEN now ELSE Entries[k]]
         /\ task' = [pc |-> "detected", time |-> now, keys |-> KeptKeys(frame, matched),
                     suppressed |-> Range(frame) \ Kept(frame, matched),
                     tracked |-> matched, name |-> NoName]
         /\ lastOf' = [o \in Objects |-> IF o \in Kept(frame, matched) THEN now ELSE lastOf[o]]
         /\ alarms' = [k \in DOMAIN alarms \cup KeptKeys(frame, matched) |->
                         IF k \in KeptKeys(frame, matched)
                         THEN [at |-> now, window |-> AlarmDedupWindow, replaced |-> FALSE]
                         ELSE alarms[k]]
  BY DetectIs
<1>3. /\ Range(frame) \subseteq Objects /\ matched \in SUBSET Objects
      /\ Kept(frame, matched) \subseteq Range(frame)
  BY <1>2, FrameObjects, KeysAfter
<1>4. /\ OwnTracks'
      /\ cfg.tracker # NoTracker => TrackEntries(trackOf', madeAt')
      /\ cfg.tracker = NoTracker => tracker'.cfg = "none"
  BY <1>2, <1>3, EntriesAfterTracking
<1>5. /\ now \in Nat /\ now # Never /\ AlarmDedupWindow \in Nat /\ AlarmDedupWindow > 0
      /\ \A o \in Objects : lastOf[o] \in Int /\ lastOf[o] <= now
  BY ClockTyped, Window, AlarmTimes DEF Never
<1>6. \A o \in Objects : /\ o \in Kept(frame, matched) => lastOf'[o] = now
                         /\ o \notin Kept(frame, matched) => lastOf'[o] = lastOf[o]
                         /\ lastOf[o] # Never => lastOf'[o] # Never
                         /\ lastOf'[o] \in Int /\ lastOf'[o] >= lastOf[o]
  BY <1>2, <1>5
<1>7. ASSUME NEW k \in DOMAIN lastAlarm'
      PROVE  \/ /\ k \notin KeptKeys(frame, matched)
                /\ k \in DOMAIN lastAlarm /\ lastAlarm'[k] = lastAlarm[k] /\ lastAlarm[k] \in Nat
             \/ \E o \in Kept(frame, matched) : k = KeyMap(frame, matched)[o] /\ lastAlarm'[k] = now
  BY <1>2, EntriesAre, EntryTime DEF KeptKeys
<1>8. ClassEntries'
  <2> SUFFICES ASSUME NEW c, <<"class", c>> \in DOMAIN lastAlarm'
               PROVE  \E p \in Objects : /\ ClassOf[p] = c /\ lastOf'[p] # Never
                                         /\ lastOf'[p] >= lastAlarm'[<<"class", c>>]
    BY DEF ClassEntries
  <2>1. CASE \E o \in Kept(frame, matched) :
                <<"class", c>> = KeyMap(frame, matched)[o] /\ lastAlarm'[<<"class", c>>] = now
    <3>1. PICK o \in Kept(frame, matched) :
                <<"class", c>> = KeyMap(frame, matched)[o] /\ lastAlarm'[<<"class", c>>] = now
      BY <2>1
    <3>2. o \in Objects /\ ClassOf[o] = c
      BY <1>2, <1>3, <3>1, KeyIs
    <3> QED
      BY <1>5, <1>6, <3>1, <3>2
  <2>2. CASE /\ <<"class", c>> \in DOMAIN lastAlarm
             /\ lastAlarm'[<<"class", c>>] = lastAlarm[<<"class", c>>] /\ lastAlarm[<<"class", c>>] \in Nat
    <3>1. PICK p \in Objects : /\ ClassOf[p] = c /\ lastOf[p] # Never
                               /\ lastOf[p] >= lastAlarm[<<"class", c>>]
      BY <2>2 DEF Owned, ClassEntries
    <3> QED
      BY <1>5, <1>6, <2>2, <3>1
  <2> QED
    BY <1>7, <2>1, <2>2
<1>9. tracker'.cfg # "none" => TrackEntries(trackOf, madeAt)'
  <2> SUFFICES ASSUME tracker'.cfg # "none", NEW id, <<"object", id>> \in DOMAIN lastAlarm'
               PROVE  \/ madeAt' # Never /\ lastAlarm'[<<"object", id>>] <= madeAt'
                      \/ \E p \in Objects : /\ trackOf'[p] = id /\ lastOf'[p] # Never
                                            /\ lastOf'[p] >= lastAlarm'[<<"object", id>>]
    BY DEF TrackEntries
  <2>1. CASE \E o \in Kept(frame, matched) :
                <<"object", id>> = KeyMap(frame, matched)[o] /\ lastAlarm'[<<"object", id>>] = now
    <3>1. PICK o \in Kept(frame, matched) :
                <<"object", id>> = KeyMap(frame, matched)[o] /\ lastAlarm'[<<"object", id>>] = now
      BY <2>1
    <3>2. o \in Objects /\ trackOf'[o] = id
      BY <1>2, <1>3, <3>1, KeyIs
    <3> QED
      BY <1>5, <1>6, <3>1, <3>2
  <2>2. CASE /\ <<"object", id>> \in DOMAIN lastAlarm
             /\ lastAlarm'[<<"object", id>>] = lastAlarm[<<"object", id>>]
             /\ lastAlarm[<<"object", id>>] \in Nat
    <3>1. \/ madeAt' # Never /\ lastAlarm[<<"object", id>>] <= madeAt'
          \/ \E p \in Objects : /\ trackOf'[p] = id /\ lastOf[p] # Never
                                /\ lastOf[p] >= lastAlarm[<<"object", id>>]
      BY <1>4, <2>2 DEF TrackEntries
    <3>2. CASE madeAt' # Never /\ lastAlarm[<<"object", id>>] <= madeAt'
      BY <2>2, <3>2
    <3>3. ASSUME NEW p \in Objects, trackOf'[p] = id, lastOf[p] # Never,
                 lastOf[p] >= lastAlarm[<<"object", id>>]
          PROVE  lastOf'[p] # Never /\ lastOf'[p] >= lastAlarm'[<<"object", id>>]
      BY <1>5, <1>6, <2>2, <3>3
    <3> QED
      BY <3>1, <3>2, <3>3
  <2> QED
    BY <1>7, <2>1, <2>2
<1>10. SuppressedByOwnAlarm'
  <2>1. /\ task'.time = now /\ task'.tracked = matched
        /\ task'.suppressed = Range(frame) \ Kept(frame, matched)
    BY <1>2
  <2>2. AlarmDedupWindow' = AlarmDedupWindow
    BY <1>1 DEF AlarmDedupWindow
  <2> SUFFICES ASSUME NEW o \in Range(frame) \ Kept(frame, matched)
               PROVE  LET recent(t) == t # Never /\ now - t < AlarmDedupWindow IN
                      IF o \in matched THEN recent(lastOf'[o]) \/ recent(madeAt')
                      ELSE \E p \in Objects : ClassOf[p] = ClassOf[o] /\ recent(lastOf'[p])
    BY <2>1, <2>2 DEF SuppressedByOwnAlarm
  <2>3. LET recent(t) == t # Never /\ now - t < AlarmDedupWindow IN
           IF o \in matched THEN recent(lastOf[o]) \/ recent(madeAt')
           ELSE \E p \in Objects : /\ ClassOf[p] = ClassOf[o]
                                   /\ p \in Kept(frame, matched) \/ recent(lastOf[p])
    BY <1>2, SuppressedAre
  <2>4. CASE o \in matched
    BY <1>3, <1>6, <2>3, <2>4
  <2>5. CASE o \notin matched
    <3>1. PICK p \in Objects : /\ ClassOf[p] = ClassOf[o]
                               /\ \/ p \in Kept(frame, matched)
                                  \/ lastOf[p] # Never /\ now - lastOf[p] < AlarmDedupWindow
      BY <2>3, <2>5
    <3>2. lastOf'[p] # Never /\ now - lastOf'[p] < AlarmDedupWindow
      BY <1>5, <1>6, <3>1
    <3> QED
      BY <2>5, <3>1, <3>2
  <2> QED
    BY <2>4, <2>5
<1> QED
  BY <1>4, <1>8, <1>9, <1>10 DEF Owned

LEMMA OwnedStep == Typed /\ Owned /\ [Next]_vars => Owned'
<1> SUFFICES ASSUME Typed, Owned, [Next]_vars PROVE Owned'
  OBVIOUS
<1>0. task \in Tasks
  BY DEF Typed, TypeOK
<1>1. ASSUME UNCHANGED <<tracker, trackOf, lastAlarm, lastOf, madeAt>>, SuppressedByOwnAlarm' PROVE Owned'
  BY <1>1 DEF Owned, ClassEntries, TrackEntries, OwnTracks
<1>2. ASSUME UNCHANGED <<tracker, trackOf, lastAlarm, lastOf, madeAt>>,
             task'.pc # "detected" \/ UNCHANGED <<task, cfg>>
      PROVE  Owned'
  BY <1>1, <1>2 DEF Owned, SuppressedByOwnAlarm, AlarmDedupWindow
<1>3. CASE SnapshotStep
  <2>1. UNCHANGED <<tracker, trackOf, lastAlarm, lastOf, madeAt>>
    BY <1>3 DEF SnapshotStep, TriggerAlarm, SnapshotThrottled, SnapshotLock, SnapshotSaved,
                SnapshotFails, PushAlarms, detectorVars, historyVars
  <2>2. ASSUME NEW name, ReportName(name) PROVE task'.pc # "detected"
    BY <1>0, <2>2 DEF ReportName, Tasks
  <2>3. task'.pc # "detected"
    <3>1. CASE TriggerAlarm
      BY <3>1, TriggerIs DEF Idle
    <3>2. CASE SnapshotLock \/ PushAlarms
      BY <1>0, <3>2 DEF SnapshotLock, Goto, Tasks, PushAlarms, Idle
    <3>3. CASE SnapshotThrottled \/ SnapshotSaved \/ SnapshotFails
      BY <2>2, <3>3 DEF SnapshotThrottled, SnapshotSaved, SnapshotFails
    <3> QED
      BY <1>3, <3>1, <3>2, <3>3 DEF SnapshotStep
  <2> QED
    BY <1>2, <2>1, <2>3
<1>4. CASE CloseStep
  BY <1>2, <1>4 DEF CloseStep, CloseBegin, CloseEnd, ReleaseDetector, detectorVars, historyVars
<1>5. CASE Tick \/ Down \/ UNCHANGED vars
  BY <1>2, <1>5 DEF Tick, Down, vars, detectorVars, historyVars
<1>6. ASSUME NEW c, UpdateStreamRuntime(c) PROVE Owned'
  <2>1. task'.pc # "detected" /\ UNCHANGED <<lastOf, madeAt>>
    BY <1>6 DEF UpdateStreamRuntime, DetectorMutexFree
  <2>2. CASE UNCHANGED <<tracker, trackOf, lastAlarm>>
    BY <1>2, <2>1, <2>2
  <2>3. CASE trackOf' = NoTracks /\ lastAlarm' = NoKeys
    <3>1. DOMAIN lastAlarm' = {}
      BY <2>3 DEF NoKeys
    <3>2. \A o \in Objects : trackOf'[o] = NoTrack
      BY <2>3 DEF NoTracks
    <3> QED
      BY <2>1, <3>1, <3>2 DEF Owned, ClassEntries, TrackEntries, OwnTracks, SuppressedByOwnAlarm
  <2> QED
    BY <1>6, <2>2, <2>3 DEF UpdateStreamRuntime, detectorVars
<1> QED
  BY <1>3, <1>4, <1>5, <1>6, OwnedDetect DEF Next, SnapshotStep, CloseStep

(* An object on a track is passed over only because of its own alarm within the window or
   because the tracker is younger than the window, an object without one only because of
   an alarm of its class (AlgoDetectorWorkflow.cpp, shouldKeepObject). *)
THEOREM AlarmsAreOwn == Spec => []SuppressedByOwnAlarm
<1>1. Init => Owned
  BY DEF Init, Idle, NoKeys, NoTracks, Owned, ClassEntries, TrackEntries, OwnTracks,
         SuppressedByOwnAlarm
<1>2. Owned => SuppressedByOwnAlarm
  BY DEF Owned
<1> QED
  BY <1>1, <1>2, TypedHolds, OwnedStep, PTL DEF Spec

=============================================================================
