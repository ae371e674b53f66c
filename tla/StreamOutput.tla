---------------------------- MODULE StreamOutput ----------------------------
(***************************************************************************)
(* The output side of one stream: the threads of src/pipeline/Pipeline.cpp *)
(* around the publisher, the SEI injector and the alarm recorder.  The     *)
(* puller opens the source again and again; each time its callback stores  *)
(* the NAL length size, configures the publisher and configures the        *)
(* recorder, three steps, while the publish thread still works on packets  *)
(* of the earlier opening.  An inference thread asks for a recording, and  *)
(* stopStream takes everything down.                                       *)
(*                                                                         *)
(* What gates the head of the packet queue is StreamPipeline's subject;    *)
(* here a queued packet may be published at any time.                      *)
(***************************************************************************)
EXTENDS AlarmRecorder, RtspPublisher

CONSTANTS MaxPackets,    \* bound: packets read from the source
          MaxOpenings,   \* bound: successful openStream() calls
          MaxTime        \* bound: the clock

ASSUME OutputAssumption == MaxPackets \in Nat /\ MaxOpenings \in Nat /\ MaxTime \in Nat \ {0}

VARIABLES
    newUrl,      \* transport_config.new_rtsp_url is not empty
    duration,    \* transport_config.alarm_record_duration_s
    openings,    \* input_stream_specs_ of each opening of the source
    puller,      \* where the pull thread is
    source,      \* the packets read so far: track, key flag, number of the opening
    done,        \* how many of them have been published: the rest is the queue
    publish,     \* where the publish thread is
    nalSize,     \* video_nal_length_size
    sei,         \* the SEI in front of the packet being published
    stopFlag,    \* the stream's stop_flag
    stop,        \* how far stopStream has come
    now,         \* steadyNowMs()
    promised,    \* history: the latest end any accepted alarm asked of the open recording
    clearedAt    \* history: packet and opening at the last change of the recorder's tracks

threadVars == <<newUrl, duration, openings, puller, source, done, publish, nalSize, sei,
                stopFlag, stop, now, promised, clearedAt>>
vars == <<recorderVars, publisherVars, threadVars>>

NoSei == [codec |-> "none", nal |-> 0]
Sei == [codec : {"H264", "H265", "none"}, nal : 0 .. 4]
Packet == [track : Nat, key : BOOLEAN, opening : 1 .. MaxOpenings]

TypeOK ==
    /\ RecorderTypeOK
    /\ url \in BOOLEAN /\ session \in BOOLEAN /\ layout \in Specs \cup {NoSpec}
    /\ newUrl \in BOOLEAN /\ duration \in Durations
    /\ openings \in Seq(Specs) /\ Len(openings) <= MaxOpenings
    /\ puller \in {"open", "publisher", "recorder", "read", "joined"}
    /\ source \in Seq(Packet) /\ Len(source) <= MaxPackets
    /\ done \in 0 .. Len(source)
    /\ publish \in {"test", "wait", "write", "append", "joined"}
    /\ nalSize \in 0 .. 4 /\ sei \in Sei
    /\ stopFlag \in BOOLEAN
    /\ stop \in {"up", "puller", "publish", "publisher", "recorder", "down", "destroyed"}
    /\ now \in 1 .. MaxTime
    /\ promised \in Nat
    /\ clearedAt \in [packet : 0 .. MaxPackets, opening : 0 .. MaxOpenings]

Init ==
    /\ RecorderInit /\ PublisherInit
    /\ newUrl \in BOOLEAN /\ duration \in Durations
    /\ openings = <<>> /\ puller = "open"
    /\ source = <<>> /\ done = 0
    /\ publish = "test" /\ nalSize = 0 /\ sei = NoSei
    /\ stopFlag = FALSE /\ stop = "up"
    /\ now = 1
    /\ promised = 0
    /\ clearedAt = [packet |-> 0, opening |-> 0]

SpecOf(p) == openings[source[p].opening]
TrackOf(p) == SpecOf(p)[source[p].track]
CurrentSpec == openings[Len(openings)]

-----------------------------------------------------------------------------
(* The pull thread. *)

(* videoNalLengthSizeFromSpecs(): of the video track. *)
VideoNalLengthSize(s) ==
    LET video == CHOOSE t \in DOMAIN s : s[t].media = "video" IN s[video].nal

(* Faulty variant: the length size is kept when the new source is in Annex B. *)
OpenKeepsNalLengthSize(s) ==
    /\ puller = "open" /\ Len(openings) < MaxOpenings
    /\ openings' = Append(openings, s)
    /\ nalSize' = IF nalSize = 0 THEN VideoNalLengthSize(s) ELSE nalSize
    /\ puller' = IF newUrl THEN "publisher" ELSE "recorder"
    /\ UNCHANGED <<recorderVars, publisherVars, newUrl, duration, source, done, publish, sei,
                   stopFlag, stop, now, promised, clearedAt>>

(* openStream() and the start of the stream-ready callback: the NAL length size. *)
OpenStream(s) ==
    /\ puller = "open" /\ Len(openings) < MaxOpenings
    /\ openings' = Append(openings, s)
    /\ nalSize' = VideoNalLengthSize(s)
    /\ puller' = IF newUrl THEN "publisher" ELSE "recorder"
    /\ UNCHANGED <<recorderVars, publisherVars, newUrl, duration, source, done, publish, sei,
                   stopFlag, stop, now, promised, clearedAt>>

(* Faulty variant: the stream goes on without a publisher. *)
ConfigureFailureIgnored(opens) ==
    /\ puller = "publisher"
    /\ PublisherConfigure(CurrentSpec, opens)
    /\ puller' = IF opens THEN "recorder" ELSE "read"
    /\ UNCHANGED <<recorderVars, newUrl, duration, openings, source, done, publish, nalSize, sei,
                   stopFlag, stop, now, promised, clearedAt>>

(* ... then the publisher: if its session cannot be opened the stream is stopped
   asynchronously and the recorder is left as it is, ... *)
ConfigurePublisher(opens) ==
    /\ puller = "publisher"
    /\ PublisherConfigure(CurrentSpec, opens)
    /\ puller' = IF opens THEN "recorder" ELSE "read"
    /\ stopFlag' = (stopFlag \/ ~opens)
    /\ UNCHANGED <<recorderVars, newUrl, duration, openings, source, done, publish, nalSize, sei,
                   stop, now, promised, clearedAt>>

(* ... then the recorder. *)
ConfigureRecorder ==
    /\ puller = "recorder"
    /\ Configure(CurrentSpec)
    /\ IF SameStreamSpecs(CurrentSpec)
       THEN UNCHANGED <<promised, clearedAt>>
       ELSE /\ promised' = 0
            /\ clearedAt' = [packet |-> done, opening |-> Len(openings)]
    /\ puller' = "read"
    /\ UNCHANGED <<publisherVars, newUrl, duration, openings, source, done, publish, nalSize, sei,
                   stopFlag, stop, now>>

(* av_read_frame(): FFmpeg sets the key flag on every audio packet.  The one packet
   that may still come after puller->stop() is counted as read before it. *)
ReadPacket(track, key) ==
    /\ puller = "read" /\ stop = "up" /\ Len(source) < MaxPackets
    /\ track \in DOMAIN CurrentSpec
    /\ CurrentSpec[track].media = "audio" => key
    /\ source' = Append(source, [track |-> track, key |-> key, opening |-> Len(openings)])
    /\ UNCHANGED <<recorderVars, publisherVars, newUrl, duration, openings, puller, done, publish,
                   nalSize, sei, stopFlag, stop, now, promised, clearedAt>>

(* av_read_frame() fails: closeStream(), and the source is opened again. *)
ReadError ==
    /\ puller = "read" /\ stop = "up" /\ Len(openings) < MaxOpenings
    /\ puller' = "open"
    /\ UNCHANGED <<recorderVars, publisherVars, newUrl, duration, openings, source, done, publish,
                   nalSize, sei, stopFlag, stop, now, promised, clearedAt>>

-----------------------------------------------------------------------------
(* The publish thread. *)

(* The loop's test of stop_flag; stop_flag is set before the thread is joined. *)
PublishTest ==
    /\ publish = "test"
    /\ publish' = IF stopFlag THEN "joined" ELSE "wait"
    /\ UNCHANGED <<recorderVars, publisherVars, newUrl, duration, openings, puller, source, done,
                   nalSize, sei, stopFlag, stop, now, promised, clearedAt>>

(* waitForPublishable() times out or sees the buffer stopped. *)
PublishTimeout ==
    /\ publish = "wait"
    /\ publish' = "test"
    /\ UNCHANGED <<recorderVars, publisherVars, newUrl, duration, openings, puller, source, done,
                   nalSize, sei, stopFlag, stop, now, promised, clearedAt>>

(* seiCodecTypeFromFrame(): the frame of a packet that may be published is there. *)
SeiCodecType(p) == IF TrackOf(p).codec = "hevc" THEN "H265" ELSE "H264"

(* What inject() may put in front of packet p when isAnnexB() says annexB; nothing
   when there is no way to write the length, or memory runs out. *)
Injected(p, annexB) ==
    {NoSei} \cup
    (IF annexB THEN {[codec |-> SeiCodecType(p), nal |-> 0]}
     ELSE IF nalSize \in 1 .. 4 THEN {[codec |-> SeiCodecType(p), nal |-> nalSize]}
     ELSE {})

(* isAnnexB() looks for a start code at the head of the packet.  A length of 1 in
   four or three bytes, and one of 256 to 511 in four, look like one. *)
LooksAnnexB(p) ==
    CASE TrackOf(p).nal = 0 -> {TRUE}
      [] TrackOf(p).nal \in {1, 2} -> {FALSE}
      [] TrackOf(p).nal \in {3, 4} -> BOOLEAN

(* The head of the queue is taken up: a video packet gets its SEI. *)
PublishPacket ==
    /\ publish = "wait" /\ done < Len(source)
    /\ publish' = "write"
    /\ IF TrackOf(done + 1).media = "audio" THEN sei' = NoSei
       ELSE \E annexB \in LooksAnnexB(done + 1) : sei' \in Injected(done + 1, annexB)
    /\ UNCHANGED <<recorderVars, publisherVars, newUrl, duration, openings, puller, source, done,
                   nalSize, stopFlag, stop, now, promised, clearedAt>>

WriteToPublisher ==
    /\ publish = "write"
    /\ PublisherWrite(source[done + 1].track)
    /\ publish' = "append"
    /\ sei' = NoSei
    /\ UNCHANGED <<recorderVars, newUrl, duration, openings, puller, source, done, nalSize,
                   stopFlag, stop, now, promised, clearedAt>>

(* appendPacket(), then popPacket(). *)
AppendToRecorder ==
    /\ publish = "append"
    /\ AppendPacket(done + 1, source[done + 1].track, source[done + 1].key, now)
    /\ promised' = IF active' THEN promised ELSE 0
    /\ done' = done + 1
    /\ publish' = "test"
    /\ UNCHANGED <<publisherVars, newUrl, duration, openings, puller, source, nalSize, sei,
                   stopFlag, stop, now, clearedAt>>

-----------------------------------------------------------------------------
(* An inference thread.  Workers that handle the same stream exclude each other
   with the detector's mutex, so there is one alarm at a time.  A worker that holds
   the context may go on after stopStream has closed the recorder. *)

TriggerAlarmRecording ==
    /\ stop # "destroyed"
    /\ IF specs = NoSpec THEN UNCHANGED <<recorderVars, promised>>
       ELSE LET end == now + NormalizedDuration(duration) IN
            /\ RequestRecording(duration, now,
                                \A i \in DOMAIN cache : source[cache[i]].track \in DOMAIN specs)
            /\ promised' = IF ~active' THEN 0 ELSE IF end > promised THEN end ELSE promised
    /\ UNCHANGED <<publisherVars, newUrl, duration, openings, puller, source, done, publish,
                   nalSize, sei, stopFlag, stop, now, clearedAt>>

-----------------------------------------------------------------------------
(* stopStream(), after requestAsyncStopStream() or for any other reason. *)

StopStream ==
    /\ stop = "up"
    /\ stopFlag' = TRUE
    /\ stop' = "puller"
    /\ UNCHANGED <<recorderVars, publisherVars, newUrl, duration, openings, puller, source, done,
                   publish, nalSize, sei, now, promised, clearedAt>>

(* puller->stop(): the thread leaves its loops once it is not in the callback. *)
JoinPuller ==
    /\ stop = "puller" /\ puller \in {"open", "read"}
    /\ puller' = "joined"
    /\ stop' = "publish"
    /\ UNCHANGED <<recorderVars, publisherVars, newUrl, duration, openings, source, done, publish,
                   nalSize, sei, stopFlag, now, promised, clearedAt>>

JoinPublish ==
    /\ stop = "publish" /\ publish = "joined"
    /\ stop' = "publisher"
    /\ UNCHANGED <<recorderVars, publisherVars, newUrl, duration, openings, puller, source, done,
                   publish, nalSize, sei, stopFlag, now, promised, clearedAt>>

ClosePublisher ==
    /\ stop = "publisher"
    /\ PublisherClose
    /\ stop' = "recorder"
    /\ UNCHANGED <<recorderVars, newUrl, duration, openings, puller, source, done, publish,
                   nalSize, sei, stopFlag, now, promised, clearedAt>>

CloseRecorder ==
    /\ stop = "recorder"
    /\ Close
    /\ promised' = 0
    /\ stop' = "down"
    /\ UNCHANGED <<specs, cache, publisherVars, newUrl, duration, openings, puller, source, done,
                   publish, nalSize, sei, stopFlag, now, clearedAt>>

(* Faulty variant: the destructor does not close the file. *)
DestroyOpen ==
    /\ stop = "down"
    /\ stop' = "destroyed"
    /\ UNCHANGED <<recorderVars, publisherVars, newUrl, duration, openings, puller, source, done,
                   publish, nalSize, sei, stopFlag, now, promised, clearedAt>>

(* The last reference to the context goes, and with it the recorder, whose
   destructor closes it. *)
Destroy ==
    /\ stop = "down"
    /\ Close
    /\ promised' = 0
    /\ stop' = "destroyed"
    /\ UNCHANGED <<specs, cache, publisherVars, newUrl, duration, openings, puller, source, done,
                   publish, nalSize, sei, stopFlag, now, clearedAt>>

Tick ==
    /\ now < MaxTime
    /\ now' = now + 1
    /\ UNCHANGED <<recorderVars, publisherVars, newUrl, duration, openings, puller, source, done,
                   publish, nalSize, sei, stopFlag, stop, promised, clearedAt>>

Destroyed == stop = "destroyed" /\ UNCHANGED vars

-----------------------------------------------------------------------------
PullThread ==
    \/ \E s \in Specs : OpenStream(s)
    \/ \E opens \in BOOLEAN : ConfigurePublisher(opens)
    \/ ConfigureRecorder
    \/ \E track \in UNION {DOMAIN s : s \in Specs}, key \in BOOLEAN : ReadPacket(track, key)
    \/ ReadError

PublishThread ==
    PublishTest \/ PublishTimeout \/ PublishPacket \/ WriteToPublisher \/ AppendToRecorder

Stopping == StopStream \/ JoinPuller \/ JoinPublish \/ ClosePublisher \/ CloseRecorder \/ Destroy

Next ==
    \/ PullThread \/ PublishThread \/ Stopping
    \/ TriggerAlarmRecording
    \/ Tick \/ Destroyed

Spec == Init /\ [][Next]_vars

-----------------------------------------------------------------------------
(* Properties. *)

(* The packets a .. b, without a gap, a repetition or a change of order. *)
Run(a, b) == [i \in 1 .. b - a + 1 |-> a + i - 1]

(* What the recorder takes for a key frame, with the tracks it has now. *)
KeyFrames ==
    {p \in clearedAt.packet + 1 .. done : source[p].key /\ IsVideoTrack(source[p].track)}

(* The cache is the current group of pictures: all packets from the last key frame
   since the tracks last changed, or nothing if there was none. *)
CacheIsCurrentGop ==
    IF KeyFrames = {} THEN cache = <<>>
    ELSE \E k \in KeyFrames : /\ \A j \in KeyFrames : j <= k
                              /\ cache = Run(k, done)

(* The open recording is a run of packets up to the last one published, pre-roll and
   live packets joined without gap or overlap, and it starts at a key frame unless
   none had been seen since the tracks changed. *)
RecordingContiguous ==
    active /\ written # <<>> =>
        /\ written = Run(Head(written), done)
        /\ \/ Head(written) \in KeyFrames
           \/ \A k \in KeyFrames : k > Head(written)

(* A recording that begins with a packet read since the recorder's tracks last changed
   holds only packets of those tracks: no packet of an earlier or a later opening
   with other tracks gets into it, whatever the backlog of the queue (unless the
   stream is being stopped because its publisher could not be configured). *)
RecordingOfOneSource ==
    active /\ written # <<>> /\ ~stopFlag /\ source[Head(written)].opening >= clearedAt.opening =>
        \A i \in DOMAIN written : SpecOf(written[i]) = specs

(* While packets are being read from the source, publisher and recorder have the tracks
   of this opening, unless the stream is being stopped. *)
OutputsFollowSource ==
    puller = "read" /\ ~stopFlag =>
        /\ specs = CurrentSpec
        /\ newUrl => layout = CurrentSpec

(* The SEI in front of a packet of the current opening has the codec and the framing
   of that packet, if the packet's head does not look like the other framing: no
   length size or codec of an earlier opening is used for it. *)
SeiFitsPacket ==
    publish = "write" /\ sei # NoSei
        /\ source[done + 1].opening = Len(openings)
        /\ (sei.nal = 0) = (TrackOf(done + 1).nal = 0)
    => /\ sei.codec = IF TrackOf(done + 1).codec = "hevc" THEN "H265" ELSE "H264"
       /\ sei.nal = TrackOf(done + 1).nal

(* A recording lasts as long as its alarms asked: it is closed by the first packet at or
   after the latest end any of them asked for, and before that only by a failed write,
   a change of tracks or the stop; a trigger during a recording restarts nothing. *)
RecordedAsPromised ==
    [][active /\ done' = done + 1 =>
         \/ active' /\ now < promised
         \/ ~active' /\ (now >= promised \/ now < deadline)]_vars

(* Nothing is left open: once stopStream has closed the publisher no session is opened
   again, and with the context the last recording goes, one opened by an alarm that
   comes after the recorder's close() included. *)
NothingLeftOpen ==
    /\ stop \in {"recorder", "down", "destroyed"} => ~session
    /\ stop = "destroyed" => ~active
=============================================================================
