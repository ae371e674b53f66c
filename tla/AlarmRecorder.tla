--------------------------- MODULE AlarmRecorder ---------------------------
(***************************************************************************)
(* The alarm recording of one stream: src/stream/Recorder.cpp.  Every call *)
(* is made with recorder_mutex held, so every operator below is one step;  *)
(* the threads that make the calls are in StreamOutput.  A packet is the   *)
(* number of its position in the source stream; what the recorder sees of  *)
(* it, its track index and whether AV_PKT_FLAG_KEY is set, are parameters. *)
(* Time is in units of kDefaultRecordDurationS / DefaultDuration.          *)
(***************************************************************************)
EXTENDS Integers, Sequences, FiniteSets

CONSTANTS Specs,           \* track layouts: functions from a track index to a track
          Durations,       \* values of alarm_record_duration_s, all positive
          DefaultDuration  \* kDefaultRecordDurationS, a lower bound

(* A track: its media type and, for video, codec and NAL length size (0: Annex B). *)
Tracks == [media : {"video", "audio"}, codec : {"h264", "hevc", "none"}, nal : 0 .. 4]

(* buildInputStreamSpecs(): a stream has one video track. *)
ASSUME RecorderAssumption ==
    /\ \A s \in Specs : DOMAIN s \subseteq Nat /\ s \in [DOMAIN s -> Tracks]
    /\ \A s \in Specs : \E v \in DOMAIN s : \A t \in DOMAIN s : s[t].media = "video" <=> t = v
    /\ Durations \subseteq Nat \ {0}
    /\ DefaultDuration \in Nat \ {0}

VARIABLES
    specs,      \* stream_specs_, NoSpec before the first configure()
    cache,      \* gop_cache_
    active,     \* fmt_ctx_ is set: a recording is open
    written,    \* the packets written to the open recording
    deadline    \* deadline_ms_

recorderVars == <<specs, cache, active, written, deadline>>

NoSpec == <<>>

RecorderTypeOK ==
    /\ specs \in Specs \cup {NoSpec}
    /\ cache \in Seq(Nat) /\ written \in Seq(Nat)
    /\ active \in BOOLEAN
    /\ deadline \in Nat

RecorderInit ==
    /\ specs = NoSpec
    /\ cache = <<>>
    /\ active = FALSE
    /\ written = <<>>
    /\ deadline = 0

-----------------------------------------------------------------------------
(* Faulty variant: the deadline is reset to -1, as start_pts_us_ is. *)
CloseNegative ==
    /\ active' = FALSE
    /\ written' = <<>>
    /\ deadline' = -1

(* close(): the trailer is written, the file renamed, the deadline forgotten. *)
Close ==
    /\ active' = FALSE
    /\ written' = <<>>
    /\ deadline' = 0

(* Faulty variant: a stream with its video on the same track counts as the same. *)
SameVideoTrack(s) ==
    \A t \in DOMAIN s : s[t].media = "video" => t \in DOMAIN specs /\ specs[t].media = "video"

SameStreamSpecs(s) == s = specs

(* configure(): only a change of the parameters closes the recording and clears
   the cache. *)
Configure(s) ==
    /\ specs' = s
    /\ IF SameStreamSpecs(s)
       THEN UNCHANGED <<active, written, deadline, cache>>
       ELSE Close /\ cache' = <<>>

NormalizedDuration(duration) ==
    IF duration > DefaultDuration THEN duration ELSE DefaultDuration

ExtendedDeadline(duration, at) ==
    LET requested == at + NormalizedDuration(duration)
    IN  IF requested > deadline THEN requested ELSE deadline

(* Faulty variant: nothing to do while a recording is open. *)
ExtendNothing(duration, at) ==
    /\ active
    /\ UNCHANGED <<active, written, deadline>>

(* requestRecording() while recording: only the deadline moves. *)
ExtendRecording(duration, at) ==
    /\ active
    /\ deadline' = ExtendedDeadline(duration, at)
    /\ UNCHANGED <<active, written>>

(* Faulty variant: the cached packets are not written. *)
OpenWithoutPreroll(duration, at) ==
    /\ ~active
    /\ active' = TRUE
    /\ written' = <<>>
    /\ deadline' = ExtendedDeadline(duration, at)

(* start(): openRecording() succeeds and flushCachedGop() writes the cached packets. *)
OpenRecording(duration, at) ==
    /\ ~active
    /\ active' = TRUE
    /\ written' = cache
    /\ deadline' = ExtendedDeadline(duration, at)

(* openRecording() fails: the deadline stays. *)
OpenFails(duration, at) ==
    /\ ~active
    /\ deadline' = ExtendedDeadline(duration, at)
    /\ UNCHANGED <<active, written>>

(* flushCachedGop() fails: close(). *)
FlushFails ==
    /\ ~active
    /\ cache # <<>>
    /\ Close

(* requestRecording(); writable says that every cached packet has a track in the
   file, without which it cannot be flushed. *)
RequestRecording(duration, at, writable) ==
    /\ specs # NoSpec
    /\ \/ ExtendRecording(duration, at)
       \/ writable /\ OpenRecording(duration, at)
       \/ OpenFails(duration, at)
       \/ FlushFails
    /\ UNCHANGED <<specs, cache>>

IsVideoTrack(track) == track \in DOMAIN specs /\ specs[track].media = "video"

(* Faulty variant: a key frame does not clear the cache. *)
CacheKeepsGop(p, track, key) ==
    cache' = IF (key /\ IsVideoTrack(track)) \/ cache # <<>> THEN Append(cache, p) ELSE cache

(* cachePacket(): a packet of a video track with the key flag starts the cache
   anew; without one nothing is kept. *)
CachePacket(p, track, key) ==
    cache' = IF key /\ IsVideoTrack(track) THEN <<p>>
             ELSE IF cache = <<>> THEN cache
             ELSE Append(cache, p)

(* closeExpired() closes the recording. *)
Expired(now) == active /\ deadline > 0 /\ now >= deadline

(* writePacketInternal() succeeds: the packet has a track in the file. *)
WritePacket(p, track) ==
    /\ track \in DOMAIN specs
    /\ written' = Append(written, p)
    /\ UNCHANGED <<active, deadline>>

(* appendPacket(): closeExpired(), cachePacket(), and the packet is written if a
   recording is open; a failed write closes it. *)
AppendPacket(p, track, key, now) ==
    /\ CachePacket(p, track, key)
    /\ \/ Expired(now) /\ Close
       \/ ~Expired(now) /\ ~active /\ UNCHANGED <<active, written, deadline>>
       \/ ~Expired(now) /\ active /\ (WritePacket(p, track) \/ Close)
    /\ UNCHANGED specs
=============================================================================
