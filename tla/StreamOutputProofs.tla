------------------------- MODULE StreamOutputProofs -------------------------
(***************************************************************************)
(* Proofs about the output side of one stream, for any track layouts, any  *)
(* number of packets and of openings of the source, and any durations.     *)
(***************************************************************************)
EXTENDS StreamOutput, TLAPS

-----------------------------------------------------------------------------
(* Types, and where the threads are with respect to each other. *)

(* The source has been opened when packets are read from it; a packet being published
   is in the queue; stopStream joins the threads one after the other, and a thread that
   has been joined does nothing any more. *)
Control ==
    /\ puller \in {"publisher", "recorder", "read"} => Len(openings) > 0
    /\ publish \in {"write", "append"} => done < Len(source)
    /\ stop # "up" => stopFlag
    /\ stop \notin {"up", "puller"} => puller = "joined"
    /\ stop \in {"publisher", "recorder", "down", "destroyed"} => publish = "joined"

TypedControl == TypeOK /\ Control

LEMMA EmptySeq == <<>> \in Seq(Nat)
OBVIOUS

(* After close() no recording is open. *)
LEMMA Closed ==
    Close => /\ active' = FALSE /\ active' \in BOOLEAN
             /\ written' = <<>> /\ written' \in Seq(Nat)
             /\ deadline' = 0 /\ deadline' \in Nat
<1>1. 0 \in Nat
  OBVIOUS
<1> QED
  BY <1>1, EmptySeq, Zenon DEF Close

LEMMA TypedInit == Init => TypedControl /\ NothingLeftOpen
<1> SUFFICES ASSUME Init PROVE TypedControl /\ NothingLeftOpen
  OBVIOUS
<1>1. RecorderTypeOK /\ promised \in Nat
  BY EmptySeq DEF Init, RecorderInit, RecorderTypeOK
<1>2. url \in BOOLEAN /\ session \in BOOLEAN /\ layout \in Specs \cup {NoSpec}
  BY DEF Init, PublisherInit, NoSpec
<1>3. openings \in Seq(Specs) /\ Len(openings) <= MaxOpenings
  BY OutputAssumption DEF Init
<1>4. source \in Seq(Packet) /\ Len(source) <= MaxPackets /\ done \in 0 .. Len(source)
  BY OutputAssumption DEF Init
<1>5. nalSize \in 0 .. 4 /\ sei \in Sei /\ now \in 1 .. MaxTime
  BY OutputAssumption DEF Init, Sei, NoSei
<1>6. clearedAt \in [packet : 0 .. MaxPackets, opening : 0 .. MaxOpenings]
  BY OutputAssumption DEF Init
<1>7. /\ puller = "open" /\ publish = "test" /\ stop = "up" /\ stopFlag = FALSE
      /\ newUrl \in BOOLEAN /\ duration \in Durations
  BY DEF Init
<1>8. TypeOK
  BY <1>1, <1>2, <1>3, <1>4, <1>5, <1>6, <1>7 DEF TypeOK
<1>9. Control /\ NothingLeftOpen
  BY <1>7 DEF Control, NothingLeftOpen
<1> QED
  BY <1>8, <1>9 DEF TypedControl

(* The NAL length size of a layout is that of its video track. *)
LEMMA VideoNal ==
    ASSUME NEW s \in Specs
    PROVE  /\ VideoNalLengthSize(s) \in 0 .. 4
           /\ \A t \in DOMAIN s : s[t].media = "video" => s[t].nal = VideoNalLengthSize(s)
<1>1. PICK v \in DOMAIN s : \A t \in DOMAIN s : s[t].media = "video" <=> t = v
  BY RecorderAssumption
<1>2. s \in [DOMAIN s -> Tracks]
  BY RecorderAssumption
<1>3. (CHOOSE t \in DOMAIN s : s[t].media = "video") = v
  BY <1>1
<1>4. VideoNalLengthSize(s) = s[v].nal
  BY <1>3 DEF VideoNalLengthSize
<1> QED
  BY <1>1, <1>2, <1>4 DEF Tracks

LEMMA TypeOpenStream == ASSUME TypedControl, NEW s \in Specs, OpenStream(s) PROVE TypeOK'
<1>1. VideoNalLengthSize(s) \in 0 .. 4
  BY VideoNal
<1>2. openings' \in Seq(Specs) /\ Len(openings') <= MaxOpenings
  BY OutputAssumption DEF OpenStream, TypedControl, TypeOK
<1>3. nalSize' \in 0 .. 4 /\ puller' \in {"open", "publisher", "recorder", "read", "joined"}
  BY <1>1 DEF OpenStream
<1> QED
  BY <1>2, <1>3 DEF OpenStream, TypedControl, TypeOK, RecorderTypeOK, recorderVars, publisherVars

(* A packet is read from the opening that is last. *)
LEMMA LastOpening ==
    ASSUME TypedControl, puller \in {"publisher", "recorder", "read"}
    PROVE  Len(openings) \in 1 .. MaxOpenings /\ CurrentSpec \in Specs
BY OutputAssumption DEF TypedControl, Control, TypeOK, CurrentSpec

LEMMA TypeConfigurePublisher ==
    ASSUME TypedControl, NEW opens \in BOOLEAN, ConfigurePublisher(opens) PROVE TypeOK'
<1>1. url' = TRUE /\ session' = opens /\ layout' = CurrentSpec
  BY DEF ConfigurePublisher, PublisherConfigure
<1>2. CurrentSpec \in Specs
  BY LastOpening DEF ConfigurePublisher
<1>3. puller' \in {"open", "publisher", "recorder", "read", "joined"}
  BY DEF ConfigurePublisher
<1>4. stopFlag' \in BOOLEAN
  BY DEF ConfigurePublisher
<1>5. /\ UNCHANGED recorderVars
      /\ UNCHANGED <<newUrl, duration, openings, source, done, publish, nalSize, sei, stop, now,
                     promised, clearedAt>>
  BY DEF ConfigurePublisher
<1>6. RecorderTypeOK'
  BY <1>5 DEF TypedControl, TypeOK, RecorderTypeOK, recorderVars
<1> QED
  BY <1>1, <1>2, <1>3, <1>4, <1>5, <1>6 DEF TypedControl, TypeOK

LEMMA TypeConfigureRecorder == ASSUME TypedControl, ConfigureRecorder PROVE TypeOK'
<1>1. CurrentSpec \in Specs /\ Len(openings) \in 0 .. MaxOpenings
  BY LastOpening, OutputAssumption DEF ConfigureRecorder
<1>2. RecorderTypeOK'
  <2>1. specs' \in Specs
    BY <1>1 DEF ConfigureRecorder, Configure
  <2>2. CASE SameStreamSpecs(CurrentSpec)
    BY <2>1, <2>2 DEF TypedControl, TypeOK, RecorderTypeOK, ConfigureRecorder, Configure
  <2>3. CASE ~SameStreamSpecs(CurrentSpec)
    <3>1. Close /\ cache' = <<>>
      BY <2>3 DEF ConfigureRecorder, Configure
    <3> QED
      <4>1. active' \in BOOLEAN /\ written' \in Seq(Nat) /\ deadline' \in Nat
        BY <3>1, Closed, Zenon
      <4>2. cache' \in Seq(Nat)
        BY <3>1, EmptySeq
      <4> QED
        BY <2>1, <4>1, <4>2, Zenon DEF RecorderTypeOK
  <2> QED
    BY <2>2, <2>3
<1>3. done \in 0 .. MaxPackets
  BY OutputAssumption DEF TypedControl, TypeOK
<1>4. promised' \in Nat /\ clearedAt' \in [packet : 0 .. MaxPackets, opening : 0 .. MaxOpenings]
  BY <1>1, <1>3 DEF TypedControl, TypeOK, ConfigureRecorder
<1>5. /\ UNCHANGED <<url, session, layout>>
      /\ UNCHANGED <<newUrl, duration, openings, source, done, publish, nalSize, sei, stopFlag, stop, now>>
      /\ puller' = "read"
  BY DEF ConfigureRecorder, publisherVars
<1> QED
  BY <1>2, <1>4, <1>5 DEF TypedControl, TypeOK

LEMMA TypeReadPacket ==
    ASSUME TypedControl, NEW track, NEW key \in BOOLEAN, ReadPacket(track, key) PROVE TypeOK'
<1>1. CurrentSpec \in Specs /\ Len(openings) \in 1 .. MaxOpenings
  BY LastOpening DEF ReadPacket
<1>2. track \in Nat
  BY <1>1, RecorderAssumption DEF ReadPacket
<1>3. [track |-> track, key |-> key, opening |-> Len(openings)] \in Packet
  BY <1>1, <1>2 DEF Packet
<1>4. /\ source' \in Seq(Packet) /\ Len(source') = Len(source) + 1
      /\ Len(source') <= MaxPackets
  BY <1>3, OutputAssumption DEF ReadPacket, TypedControl, TypeOK
<1>5. done' \in 0 .. Len(source')
  BY <1>4 DEF ReadPacket, TypedControl, TypeOK
<1>6. /\ UNCHANGED recorderVars /\ UNCHANGED <<url, session, layout>>
      /\ UNCHANGED <<newUrl, duration, openings, puller, publish, nalSize, sei, stopFlag, stop, now,
                     promised, clearedAt>>
  BY DEF ReadPacket, publisherVars
<1>7. RecorderTypeOK'
  BY <1>6 DEF TypedControl, TypeOK, RecorderTypeOK, recorderVars
<1> QED
  BY <1>4, <1>5, <1>6, <1>7 DEF TypedControl, TypeOK

LEMMA TypePublishPacket == ASSUME TypedControl, PublishPacket PROVE TypeOK'
<1>1. ASSUME NEW p, NEW annexB PROVE Injected(p, annexB) \subseteq Sei
  BY DEF Injected, SeiCodecType, Sei, NoSei, TypedControl, TypeOK
<1>2. sei' \in Sei
  BY <1>1 DEF PublishPacket, Sei, NoSei
<1>3. /\ UNCHANGED recorderVars /\ UNCHANGED publisherVars /\ publish' = "write"
      /\ UNCHANGED <<newUrl, duration, openings, puller, source, done,
                     nalSize, stopFlag, stop, now, promised, clearedAt>>
  BY DEF PublishPacket
<1> QED
  BY <1>2, <1>3 DEF TypedControl, TypeOK, RecorderTypeOK, recorderVars, publisherVars

LEMMA TypeWriteToPublisher == ASSUME TypedControl, WriteToPublisher PROVE TypeOK'
<1>1. session' \in BOOLEAN /\ UNCHANGED <<url, layout>>
  BY DEF WriteToPublisher, PublisherWrite, TypedControl, TypeOK
<1>2. sei' \in Sei
  BY DEF WriteToPublisher, Sei, NoSei
<1>3. /\ UNCHANGED recorderVars /\ publish' = "append"
      /\ UNCHANGED <<newUrl, duration, openings, puller, source, done, nalSize, stopFlag, stop, now,
                     promised, clearedAt>>
  BY DEF WriteToPublisher
<1>4. RecorderTypeOK'
  BY <1>3 DEF TypedControl, TypeOK, RecorderTypeOK, recorderVars
<1> QED
  BY <1>1, <1>2, <1>3, <1>4 DEF TypedControl, TypeOK

LEMMA TypeAppendToRecorder == ASSUME TypedControl, AppendToRecorder PROVE TypeOK'
<1>1. done' \in 0 .. Len(source) /\ done + 1 \in Nat
  BY DEF AppendToRecorder, TypedControl, TypeOK, Control
<1>2. cache' \in Seq(Nat)
  BY <1>1 DEF AppendToRecorder, AppendPacket, CachePacket, TypedControl, TypeOK, RecorderTypeOK
<1>3. active' \in BOOLEAN /\ UNCHANGED specs
  BY DEF AppendToRecorder, AppendPacket, Close, WritePacket, TypedControl, TypeOK, RecorderTypeOK
<1>4. written' \in Seq(Nat) /\ deadline' \in Nat
  <2>1. written \in Seq(Nat) /\ deadline \in Nat
    BY DEF TypedControl, TypeOK, RecorderTypeOK
  <2>2. \/ Close
        \/ UNCHANGED <<written, deadline>>
        \/ written' = Append(written, done + 1) /\ UNCHANGED deadline
    BY DEF AppendToRecorder, AppendPacket, WritePacket
  <2> QED
    <3>1. CASE Close
      BY <3>1, Closed
    <3>2. CASE UNCHANGED <<written, deadline>>
      BY <2>1, <3>2
    <3>3. CASE written' = Append(written, done + 1) /\ UNCHANGED deadline
      BY <1>1, <2>1, <3>3
    <3> QED
      BY <2>2, <3>1, <3>2, <3>3
<1>5. promised' \in Nat
  BY DEF AppendToRecorder, TypedControl, TypeOK
<1>6. UNCHANGED publisherVars /\ UNCHANGED <<newUrl, duration, openings, puller, source, nalSize, sei,
                   stopFlag, stop, now, clearedAt>> /\ publish' = "test"
  BY DEF AppendToRecorder
<1>7. RecorderTypeOK'
  BY <1>2, <1>3, <1>4 DEF TypedControl, TypeOK, RecorderTypeOK
<1>8. UNCHANGED <<url, session, layout>>
  BY <1>6 DEF publisherVars
<1> QED
  BY <1>1, <1>5, <1>6, <1>7, <1>8 DEF TypedControl, TypeOK

LEMMA DeadlineType ==
    ASSUME TypedControl PROVE /\ ExtendedDeadline(duration, now) \in Nat
                              /\ now + NormalizedDuration(duration) \in Nat
                              /\ ExtendedDeadline(duration, now) >= now + NormalizedDuration(duration)
<1>1. now \in Nat /\ deadline \in Nat /\ duration \in Nat /\ DefaultDuration \in Nat
  BY RecorderAssumption, OutputAssumption, SMTT(30) DEF TypedControl, TypeOK, RecorderTypeOK
<1> QED
  BY <1>1 DEF ExtendedDeadline, NormalizedDuration

LEMMA TypeTriggerAlarmRecording == ASSUME TypedControl, TriggerAlarmRecording PROVE TypeOK'
<1>1. CASE specs = NoSpec
  BY <1>1 DEF TriggerAlarmRecording, TypedControl, TypeOK, RecorderTypeOK, recorderVars, publisherVars
<1>2. CASE specs # NoSpec
  <2>1. UNCHANGED <<specs, cache>>
    BY <1>2 DEF TriggerAlarmRecording, RequestRecording
  <2>2. active' \in BOOLEAN
    BY <1>2 DEF TriggerAlarmRecording, RequestRecording, ExtendRecording, OpenRecording, OpenFails,
                FlushFails, Close, TypedControl, TypeOK, RecorderTypeOK
  <2>3. written' \in Seq(Nat) /\ deadline' \in Nat
    <3>1. \/ Close
          \/ written' \in {written, cache} /\ deadline' = ExtendedDeadline(duration, now)
      BY <1>2 DEF TriggerAlarmRecording, RequestRecording, ExtendRecording, OpenRecording,
                  OpenFails, FlushFails
    <3>2. written \in Seq(Nat) /\ cache \in Seq(Nat)
      BY DEF TypedControl, TypeOK, RecorderTypeOK
    <3> QED
      BY <3>1, <3>2, Closed, DeadlineType
  <2>4. promised' \in Nat
    BY <1>2, DeadlineType DEF TriggerAlarmRecording, TypedControl, TypeOK
  <2> QED
    <3>1. /\ UNCHANGED publisherVars
          /\ UNCHANGED <<newUrl, duration, openings, puller, source, done, publish,
                         nalSize, sei, stopFlag, stop, now, clearedAt>>
      BY DEF TriggerAlarmRecording
    <3>2. RecorderTypeOK'
      BY <2>1, <2>2, <2>3 DEF TypedControl, TypeOK, RecorderTypeOK
    <3>3. UNCHANGED <<url, session, layout>>
      BY <3>1 DEF publisherVars
    <3> QED
      BY <2>4, <3>1, <3>2, <3>3 DEF TypedControl, TypeOK
<1> QED
  BY <1>1, <1>2

LEMMA TypeClose ==
    ASSUME TypedControl, ClosePublisher \/ CloseRecorder \/ Destroy PROVE TypeOK'
<1>1. CASE ClosePublisher
  <2>1. url' = FALSE /\ session' = FALSE /\ layout' = NoSpec
    BY <1>1 DEF ClosePublisher, PublisherClose, NoSpec
  <2> QED
    BY <1>1, <2>1, ZenonT(40) DEF ClosePublisher, TypedControl, TypeOK, RecorderTypeOK, recorderVars
<1>2. CASE CloseRecorder \/ Destroy
  <2>1. active' = FALSE /\ written' \in Seq(Nat) /\ deadline' \in Nat /\ promised' \in Nat
    BY <1>2, Closed DEF CloseRecorder, Destroy
  <2>2. /\ UNCHANGED publisherVars /\ stop' \in {"down", "destroyed"}
        /\ UNCHANGED <<specs, cache, newUrl, duration, openings, puller, source, done,
                       publish, nalSize, sei, stopFlag, now, clearedAt>>
    BY <1>2 DEF CloseRecorder, Destroy
  <2>3. RecorderTypeOK'
    BY <2>1, <2>2, Zenon DEF TypedControl, TypeOK, RecorderTypeOK
  <2> QED
    BY <2>1, <2>2, <2>3 DEF TypedControl, TypeOK, publisherVars
<1> QED
  BY <1>1, <1>2

(* The steps that only move a thread, the stop or the clock. *)
Moves == ReadError \/ PublishTest \/ PublishTimeout \/ StopStream \/ JoinPuller \/ JoinPublish \/ Tick

LEMMA TypeMoves == ASSUME TypedControl, Moves PROVE TypeOK'
<1> USE OutputAssumption DEF TypedControl, TypeOK, RecorderTypeOK, recorderVars, publisherVars
<1>1. CASE ReadError
  BY <1>1 DEF ReadError
<1>2. CASE PublishTest
  BY <1>2 DEF PublishTest
<1>3. CASE PublishTimeout
  BY <1>3 DEF PublishTimeout
<1>4. CASE StopStream
  BY <1>4 DEF StopStream
<1>5. CASE JoinPuller
  BY <1>5 DEF JoinPuller
<1>6. CASE JoinPublish
  BY <1>6 DEF JoinPublish
<1>7. CASE Tick
  BY <1>7 DEF Tick
<1> QED
  BY <1>1, <1>2, <1>3, <1>4, <1>5, <1>6, <1>7 DEF Moves

LEMMA TypeStep == TypedControl /\ [Next]_vars => TypeOK'
<1> SUFFICES ASSUME TypedControl, [Next]_vars PROVE TypeOK'
  OBVIOUS
<1>1. CASE PullThread
  BY <1>1, TypeOpenStream, TypeConfigurePublisher, TypeConfigureRecorder, TypeReadPacket, TypeMoves
     DEF PullThread, Moves
<1>2. CASE PublishThread
  BY <1>2, TypePublishPacket, TypeWriteToPublisher, TypeAppendToRecorder, TypeMoves
     DEF PublishThread, Moves
<1>3. CASE Stopping
  BY <1>3, TypeClose, TypeMoves DEF Stopping, Moves
<1>4. CASE TriggerAlarmRecording \/ Tick
  BY <1>4, TypeTriggerAlarmRecording, TypeMoves DEF Moves
<1>5. CASE Destroyed \/ UNCHANGED vars
  <2>1. UNCHANGED recorderVars /\ UNCHANGED publisherVars /\ UNCHANGED threadVars
    BY <1>5 DEF Destroyed, vars
  <2>2. RecorderTypeOK'
    BY <2>1, Zenon DEF recorderVars, TypedControl, TypeOK, RecorderTypeOK
  <2> QED
    BY <2>1, <2>2 DEF publisherVars, threadVars, TypedControl, TypeOK
<1> QED
  BY <1>1, <1>2, <1>3, <1>4, <1>5 DEF Next

LEMMA ControlStep == TypedControl /\ [Next]_vars => Control'
<1> SUFFICES ASSUME TypedControl, [Next]_vars PROVE Control'
  OBVIOUS
<1> USE DEF TypedControl, Control
<1>0. Len(openings) \in Nat /\ Len(source) \in Nat /\ done \in Nat
  BY DEF TypeOK
<1>1. ASSUME NEW s \in Specs, OpenStream(s) PROVE Control'
  <2>1. Len(openings') > 0
    BY <1>1 DEF OpenStream, TypeOK
  <2> QED
    BY <1>1, <2>1 DEF OpenStream
<1>2. ASSUME NEW opens \in BOOLEAN, ConfigurePublisher(opens) PROVE Control'
  BY <1>2 DEF ConfigurePublisher
<1>3. CASE ConfigureRecorder
  BY <1>3 DEF ConfigureRecorder
<1>4. ASSUME NEW track, NEW key, ReadPacket(track, key) PROVE Control'
  <2>1. Len(source') = Len(source) + 1
    BY <1>4 DEF ReadPacket, TypeOK
  <2> QED
    BY <1>0, <1>4, <2>1 DEF ReadPacket
<1>5. CASE ReadError
  BY <1>5 DEF ReadError
<1>6. CASE PublishTest \/ PublishTimeout \/ PublishPacket \/ WriteToPublisher
  BY <1>6 DEF PublishTest, PublishTimeout, PublishPacket, WriteToPublisher
<1>7. CASE AppendToRecorder
  BY <1>7 DEF AppendToRecorder
<1>8. CASE StopStream \/ JoinPuller \/ JoinPublish
  BY <1>8 DEF StopStream, JoinPuller, JoinPublish
<1>9. CASE ClosePublisher \/ CloseRecorder \/ Destroy
  BY <1>9 DEF ClosePublisher, CloseRecorder, Destroy
<1>10. CASE TriggerAlarmRecording \/ Tick
  BY <1>10 DEF TriggerAlarmRecording, Tick
<1>11. CASE Destroyed \/ UNCHANGED vars
  BY <1>11 DEF Destroyed, vars, threadVars
<1> QED
  BY <1>1, <1>2, <1>3, <1>4, <1>5, <1>6, <1>7, <1>8, <1>9, <1>10, <1>11
     DEF Next, PullThread, PublishThread, Stopping

LEMMA TypedHolds == Spec => []TypedControl
<1>1. TypedControl /\ [Next]_vars => TypedControl'
  BY TypeStep, ControlStep DEF TypedControl
<1> QED
  BY <1>1, TypedInit, PTL DEF Spec

(* Every variable keeps its type; the recorder's deadline in particular is never negative,
   and a thread is never past a point it has not reached. *)
THEOREM OutputTypes == Spec => []TypeOK
<1>1. TypedControl => TypeOK
  BY DEF TypedControl
<1> QED
  BY <1>1, TypedHolds, PTL

-----------------------------------------------------------------------------
(* The stop. *)

LEMMA NothingLeftOpenStep == TypedControl /\ NothingLeftOpen /\ [Next]_vars => NothingLeftOpen'
<1> SUFFICES ASSUME TypedControl, NothingLeftOpen, [Next]_vars PROVE NothingLeftOpen'
  OBVIOUS
<1> USE DEF TypedControl, Control, NothingLeftOpen
<1>1. ASSUME NEW s \in Specs, OpenStream(s) PROVE NothingLeftOpen'
  BY <1>1 DEF OpenStream, recorderVars, publisherVars
<1>2. ASSUME NEW opens \in BOOLEAN, ConfigurePublisher(opens) PROVE NothingLeftOpen'
  BY <1>2 DEF ConfigurePublisher, recorderVars
<1>3. CASE ConfigureRecorder
  BY <1>3 DEF ConfigureRecorder, publisherVars
<1>4. ASSUME NEW track, NEW key, ReadPacket(track, key) PROVE NothingLeftOpen'
  BY <1>4 DEF ReadPacket, recorderVars, publisherVars
<1>5. CASE Moves
  BY <1>5 DEF Moves, ReadError, PublishTest, PublishTimeout, StopStream, JoinPuller, JoinPublish, Tick,
              recorderVars, publisherVars
<1>6. CASE PublishPacket
  BY <1>6 DEF PublishPacket, recorderVars, publisherVars
<1>7. CASE WriteToPublisher
  BY <1>7 DEF WriteToPublisher
<1>8. CASE AppendToRecorder
  BY <1>8 DEF AppendToRecorder
<1>9. CASE ClosePublisher
  BY <1>9 DEF ClosePublisher, PublisherClose
<1>10. CASE CloseRecorder \/ Destroy
  BY <1>10 DEF CloseRecorder, Destroy, Close, publisherVars
<1>11. CASE TriggerAlarmRecording
  BY <1>11 DEF TriggerAlarmRecording, publisherVars
<1>12. CASE Destroyed \/ UNCHANGED vars
  BY <1>12 DEF Destroyed, vars, threadVars, recorderVars, publisherVars
<1> QED
  BY <1>1, <1>2, <1>3, <1>4, <1>5, <1>6, <1>7, <1>8, <1>9, <1>10, <1>11, <1>12
     DEF Next, PullThread, PublishThread, Stopping, Moves

(* Once stopStream has closed the publisher no thread opens a session again, and no
   recording outlives the context, although an alarm may still open one after the
   recorder's close() (Pipeline.cpp:641-670). *)
THEOREM StopLeavesNothingOpen == Spec => []NothingLeftOpen
BY TypedHolds, TypedInit, NothingLeftOpenStep, PTL DEF Spec

-----------------------------------------------------------------------------
(* The outputs and the source. *)

(* A packet belongs to a track of its opening. *)
Tracked ==
    \A p \in 1 .. Len(source) : /\ source[p].opening <= Len(openings)
                               /\ source[p].track \in DOMAIN openings[source[p].opening]

(* The queue is in the order of the openings, and nothing of the last one is in it
   before its callback is through. *)
InOpeningOrder ==
    /\ \A p, q \in 1 .. Len(source) : p <= q => source[p].opening <= source[q].opening
    /\ puller \in {"publisher", "recorder"} =>
          \A p \in 1 .. Len(source) : source[p].opening < Len(openings)

(* While the callback is between its steps the earlier ones have been made. *)
Configured ==
    /\ Len(openings) > 0 => nalSize = VideoNalLengthSize(CurrentSpec)
    /\ puller = "recorder" /\ newUrl => layout = CurrentSpec

(* What the recorder's tracks are since they last changed. *)
TracksSince ==
    ~stopFlag => \A p \in 1 .. Len(source) :
                    source[p].opening >= clearedAt.opening => SpecOf(p) = specs

Following ==
    /\ TypedControl
    /\ Tracked
    /\ InOpeningOrder
    /\ Configured
    /\ OutputsFollowSource
    /\ TracksSince

(* What is known of a packet that has been read. *)
LEMMA PacketRead ==
    ASSUME TypedControl, NEW p \in 1 .. Len(source)
    PROVE  source[p].opening \in 1 .. MaxOpenings /\ source[p].opening \in Nat /\ source[p].track \in Nat
<1>1. source[p] \in Packet
  BY DEF TypedControl, TypeOK
<1> QED
  BY <1>1, OutputAssumption DEF Packet

LEMMA FollowingInit == Init => Following
<1> SUFFICES ASSUME Init PROVE Following
  OBVIOUS
<1>1. Len(source) = 0 /\ Len(openings) = 0 /\ puller = "open"
  BY DEF Init
<1> QED
  BY <1>1, TypedInit DEF Following, Tracked, InOpeningOrder, Configured, OutputsFollowSource, TracksSince

(* Opening the source again leaves the packets read before with their tracks. *)
LEMMA SpecsKept ==
    ASSUME TypedControl, Tracked, NEW s \in Specs, openings' = Append(openings, s), UNCHANGED source,
           NEW p \in 1 .. Len(source)
    PROVE  /\ Len(openings') = Len(openings) + 1
           /\ CurrentSpec' = s
           /\ source[p].opening \in 1 .. Len(openings)
           /\ openings'[source[p].opening] = openings[source[p].opening]
<1>1. openings \in Seq(Specs) /\ source \in Seq(Packet)
  BY DEF TypedControl, TypeOK
<1>2. source[p].opening \in 1 .. MaxOpenings /\ source[p].opening <= Len(openings)
  BY PacketRead DEF Tracked
<1>3. source[p].opening \in 1 .. Len(openings)
  BY <1>1, <1>2, OutputAssumption
<1> QED
  BY <1>1, <1>3 DEF CurrentSpec

LEMMA FollowingOpen ==
    ASSUME Following, TypedControl', NEW s \in Specs, OpenStream(s) PROVE Following'
<1>1. /\ puller = "open" /\ openings' = Append(openings, s) /\ nalSize' = VideoNalLengthSize(s)
      /\ puller' = IF newUrl THEN "publisher" ELSE "recorder"
      /\ UNCHANGED <<specs, layout, newUrl, source, stopFlag, clearedAt>>
  BY DEF OpenStream, recorderVars, publisherVars
<1>2. /\ openings \in Seq(Specs) /\ Len(openings) \in Nat /\ Len(openings') = Len(openings) + 1
      /\ CurrentSpec' = s
  BY <1>1 DEF Following, TypedControl, TypeOK, CurrentSpec
<1>3. \A p \in 1 .. Len(source) :
          /\ source[p].opening \in 1 .. Len(openings)
          /\ openings'[source[p].opening] = openings[source[p].opening]
  BY <1>1, SpecsKept DEF Following
<1>4. Tracked'
  BY <1>1, <1>2, <1>3 DEF Following, Tracked
<1>5. InOpeningOrder'
  BY <1>1, <1>2, <1>3 DEF Following, InOpeningOrder
<1>6. Configured'
  BY <1>1, <1>2 DEF Configured
<1>7. TracksSince'
  BY <1>1, <1>3 DEF Following, TracksSince, SpecOf
<1>8. OutputsFollowSource'
  BY <1>1 DEF OutputsFollowSource
<1> QED
  BY <1>4, <1>5, <1>6, <1>7, <1>8 DEF Following

LEMMA FollowingPublisher ==
    ASSUME Following, TypedControl', NEW opens \in BOOLEAN, ConfigurePublisher(opens) PROVE Following'
<1>1. /\ puller = "publisher" /\ layout' = CurrentSpec
      /\ puller' = IF opens THEN "recorder" ELSE "read"
      /\ stopFlag' = (stopFlag \/ ~opens)
      /\ UNCHANGED <<specs, newUrl, openings, source, nalSize, clearedAt>>
  BY DEF ConfigurePublisher, PublisherConfigure, recorderVars
<1>2. CurrentSpec' = CurrentSpec
  BY <1>1 DEF CurrentSpec
<1>3. Tracked' /\ InOpeningOrder'
  BY <1>1 DEF Following, Tracked, InOpeningOrder
<1>4. Configured'
  BY <1>1, <1>2 DEF Following, Configured
<1>5. TracksSince'
  BY <1>1 DEF Following, TracksSince, SpecOf
<1>6. OutputsFollowSource'
  BY <1>1 DEF OutputsFollowSource
<1> QED
  BY <1>3, <1>4, <1>5, <1>6 DEF Following

LEMMA FollowingRecorder ==
    ASSUME Following, TypedControl', ConfigureRecorder PROVE Following'
<1>1. /\ puller = "recorder" /\ puller' = "read" /\ specs' = CurrentSpec
      /\ UNCHANGED <<layout, newUrl, openings, source, nalSize, stopFlag>>
  BY DEF ConfigureRecorder, Configure, publisherVars
<1>2. CurrentSpec' = CurrentSpec
  BY <1>1 DEF CurrentSpec
<1>3. Tracked' /\ InOpeningOrder'
  BY <1>1 DEF Following, Tracked, InOpeningOrder
<1>4. Configured'
  BY <1>1, <1>2 DEF Following, Configured
<1>5. TracksSince'
  <2>1. CASE SameStreamSpecs(CurrentSpec)
    <3>1. UNCHANGED <<specs, clearedAt>>
      BY <1>1, <2>1 DEF ConfigureRecorder, SameStreamSpecs
    <3> QED
      BY <1>1, <3>1 DEF Following, TracksSince, SpecOf
  <2>2. CASE ~SameStreamSpecs(CurrentSpec)
    <3>1. clearedAt'.opening = Len(openings)
      BY <2>2 DEF ConfigureRecorder
    <3>2. \A p \in 1 .. Len(source) : /\ source[p].opening < Len(openings)
                                      /\ source[p].opening \in Nat /\ Len(openings) \in Nat
      <4>1. Len(openings) \in Nat
        BY DEF Following, TypedControl, TypeOK
      <4> QED
        BY <1>1, <4>1, PacketRead DEF Following, InOpeningOrder
    <3>3. \A p \in 1 .. Len(source) : ~(source[p].opening >= clearedAt'.opening)
      BY <3>1, <3>2
    <3> QED
      BY <1>1, <3>3 DEF TracksSince
  <2> QED
    BY <2>1, <2>2
<1>6. OutputsFollowSource'
  BY <1>1, <1>2 DEF Following, Configured, OutputsFollowSource
<1> QED
  BY <1>3, <1>4, <1>5, <1>6 DEF Following

LEMMA FollowingRead ==
    ASSUME Following, TypedControl', NEW track, NEW key \in BOOLEAN, ReadPacket(track, key)
    PROVE  Following'
<1> DEFINE packet == [track |-> track, key |-> key, opening |-> Len(openings)]
<1>1. /\ puller = "read" /\ track \in DOMAIN CurrentSpec /\ source' = Append(source, packet)
      /\ UNCHANGED <<specs, layout, newUrl, openings, puller, nalSize, stopFlag, clearedAt>>
  BY DEF ReadPacket, recorderVars, publisherVars
<1>2. CurrentSpec' = CurrentSpec
  BY <1>1 DEF CurrentSpec
<1>3. source \in Seq(Packet) /\ Len(source) \in Nat /\ Len(openings) \in 1 .. MaxOpenings
  BY <1>1, LastOpening DEF Following, TypedControl, TypeOK
<1>4. /\ Len(source') = Len(source) + 1
      /\ \A p \in 1 .. Len(source) : source'[p] = source[p]
      /\ source'[Len(source) + 1] = packet
  <2>1. source' \in Seq(Packet)
    BY DEF TypedControl, TypeOK
  <2>2. packet \in Packet
    <3>1. CurrentSpec \in Specs
      BY <1>1, LastOpening DEF Following
    <3>2. track \in Nat
      BY <1>1, <3>1, RecorderAssumption
    <3> QED
      BY <1>3, <3>2 DEF Packet
  <2> HIDE DEF packet
  <2> QED
    BY <1>1, <1>3, <2>1, <2>2
<1>5. packet.opening = Len(openings) /\ packet.track = track
  OBVIOUS
<1>6. \A p \in 1 .. Len(source) : source[p].opening <= Len(openings)
  BY DEF Following, Tracked
<1> HIDE DEF packet
<1>7. Tracked'
  BY <1>1, <1>3, <1>4, <1>5 DEF Following, Tracked, CurrentSpec
<1>8. InOpeningOrder'
  <2> SUFFICES ASSUME NEW p \in 1 .. Len(source) + 1, NEW q \in 1 .. Len(source) + 1, p <= q
               PROVE  source'[p].opening <= source'[q].opening
    BY <1>1, <1>4 DEF InOpeningOrder
  <2>1. CASE q = Len(source) + 1
    BY <1>3, <1>4, <1>5, <1>6, <2>1
  <2>2. CASE q # Len(source) + 1
    <3>1. q \in 1 .. Len(source) /\ p \in 1 .. Len(source)
      BY <1>3, <2>2
    <3> QED
      BY <1>4, <3>1 DEF Following, InOpeningOrder
  <2> QED
    BY <2>1, <2>2
<1>9. Configured'
  BY <1>1, <1>2 DEF Following, Configured
<1>10. TracksSince'
  <2> SUFFICES ASSUME ~stopFlag, NEW p \in 1 .. Len(source) + 1, source'[p].opening >= clearedAt.opening
               PROVE  openings[source'[p].opening] = specs
    BY <1>1, <1>4 DEF TracksSince, SpecOf
  <2>1. CASE p = Len(source) + 1
    BY <1>1, <1>4, <1>5, <2>1 DEF Following, OutputsFollowSource, CurrentSpec
  <2>2. CASE p # Len(source) + 1
    <3>1. p \in 1 .. Len(source)
      BY <1>3, <2>2
    <3> QED
      BY <1>4, <3>1 DEF Following, TracksSince, SpecOf
  <2> QED
    BY <2>1, <2>2
<1>11. OutputsFollowSource'
  BY <1>1, <1>2 DEF Following, OutputsFollowSource
<1> QED
  BY <1>7, <1>8, <1>9, <1>10, <1>11 DEF Following

(* The other steps leave the source and the configuration alone; the publisher is closed
   when the pull thread has been joined. *)
LEMMA FollowingOther ==
    ASSUME Following, TypedControl',
           UNCHANGED <<newUrl, openings, source, nalSize, specs, clearedAt>>,
           stopFlag => stopFlag',
           puller' \in {puller, "open", "joined"},
           layout' = layout \/ puller \notin {"recorder", "read"}
    PROVE  Following'
<1>1. CurrentSpec' = CurrentSpec
  BY DEF CurrentSpec
<1>2. Tracked' /\ InOpeningOrder'
  BY DEF Following, Tracked, InOpeningOrder
<1>3. Configured'
  BY <1>1 DEF Following, Configured
<1>4. TracksSince'
  BY DEF Following, TracksSince, SpecOf
<1>5. OutputsFollowSource'
  BY <1>1 DEF Following, OutputsFollowSource
<1> QED
  BY <1>2, <1>3, <1>4, <1>5 DEF Following

LEMMA FollowingStep == Following /\ [Next]_vars => Following'
<1> SUFFICES ASSUME Following, [Next]_vars PROVE Following'
  OBVIOUS
<1>0. TypedControl' /\ TypedControl
  BY TypeStep, ControlStep DEF Following, TypedControl
<1>1. CASE PullThread
  <2>1. CASE ReadError
    BY <1>0, <2>1, FollowingOther DEF ReadError, recorderVars, publisherVars
  <2> QED
    BY <1>0, <1>1, <2>1, FollowingOpen, FollowingPublisher, FollowingRecorder, FollowingRead DEF PullThread
<1>2. CASE PublishThread
  <2>1. CASE PublishTest \/ PublishTimeout \/ PublishPacket
    BY <1>0, <2>1, FollowingOther DEF PublishTest, PublishTimeout, PublishPacket, recorderVars, publisherVars
  <2>2. CASE WriteToPublisher
    BY <1>0, <2>2, FollowingOther DEF WriteToPublisher, PublisherWrite, recorderVars
  <2>3. CASE AppendToRecorder
    BY <1>0, <2>3, FollowingOther DEF AppendToRecorder, AppendPacket, publisherVars
  <2> QED
    BY <1>2, <2>1, <2>2, <2>3 DEF PublishThread
<1>3. CASE Stopping
  <2>1. CASE StopStream \/ JoinPuller \/ JoinPublish
    BY <1>0, <2>1, FollowingOther DEF StopStream, JoinPuller, JoinPublish, recorderVars, publisherVars
  <2>2. CASE ClosePublisher
    BY <1>0, <2>2, FollowingOther DEF ClosePublisher, TypedControl, Control, recorderVars
  <2>3. CASE CloseRecorder \/ Destroy
    BY <1>0, <2>3, FollowingOther DEF CloseRecorder, Destroy, publisherVars
  <2> QED
    BY <1>3, <2>1, <2>2, <2>3 DEF Stopping
<1>4. CASE TriggerAlarmRecording \/ Tick
  BY <1>0, <1>4, FollowingOther DEF TriggerAlarmRecording, RequestRecording, Tick, recorderVars, publisherVars
<1>5. CASE Destroyed \/ UNCHANGED vars
  BY <1>0, <1>5, FollowingOther DEF Destroyed, vars, threadVars, recorderVars, publisherVars
<1> QED
  BY <1>1, <1>2, <1>3, <1>4, <1>5 DEF Next

LEMMA FollowingHolds == Spec => []Following
BY FollowingInit, FollowingStep, PTL DEF Spec

(* Whenever packets are being read, the publisher and the recorder have been given the
   tracks of this opening of the source, or the stream is being stopped
   (Pipeline.cpp:288-303). *)
THEOREM OutputsFollow == Spec => []OutputsFollowSource
<1>1. Following => OutputsFollowSource
  BY DEF Following
<1> QED
  BY <1>1, FollowingHolds, PTL

-----------------------------------------------------------------------------
(* The SEI. *)

(* The SEI in front of the packet has the packet's codec; it is in Annex B or has the
   length size of the last opening, if the packet is of that one. *)
SeiOfPacket ==
    publish = "write" /\ sei # NoSei =>
        /\ TrackOf(done + 1).media # "audio"
        /\ sei.codec = SeiCodecType(done + 1)
        /\ source[done + 1].opening = Len(openings) => sei.nal \in {0, nalSize}

LEMMA SeiStep == Following /\ SeiOfPacket /\ [Next]_vars => SeiOfPacket'
<1> SUFFICES ASSUME Following, SeiOfPacket, [Next]_vars PROVE SeiOfPacket'
  OBVIOUS
<1>0. TypedControl /\ Tracked
  BY DEF Following
<1>1. CASE PublishPacket
  <2> SUFFICES ASSUME sei' # NoSei PROVE SeiOfPacket'
    BY DEF SeiOfPacket
  <2>1. UNCHANGED <<openings, source, done, nalSize>>
    BY <1>1 DEF PublishPacket
  <2>2. TrackOf(done + 1).media # "audio"
    BY <1>1 DEF PublishPacket
  <2>3. PICK annexB : sei' \in Injected(done + 1, annexB)
    BY <1>1, <2>2 DEF PublishPacket
  <2>4. sei'.codec = SeiCodecType(done + 1) /\ sei'.nal \in {0, nalSize}
    BY <2>3 DEF Injected
  <2> QED
    BY <2>1, <2>2, <2>4 DEF SeiOfPacket, TrackOf, SpecOf, SeiCodecType
<1>2. ASSUME NEW s \in Specs, OpenStream(s) PROVE SeiOfPacket'
  <2> SUFFICES ASSUME publish = "write", sei # NoSei PROVE SeiOfPacket'
    BY <1>2 DEF SeiOfPacket, OpenStream
  <2>1. openings' = Append(openings, s) /\ UNCHANGED <<source, done, sei, publish>>
    BY <1>2 DEF OpenStream
  <2>2. done + 1 \in 1 .. Len(source)
    BY <1>0 DEF TypedControl, Control, TypeOK
  <2>3. /\ Len(openings') = Len(openings) + 1
        /\ source[done + 1].opening \in 1 .. Len(openings)
        /\ openings'[source[done + 1].opening] = openings[source[done + 1].opening]
    BY <1>0, <2>1, <2>2, SpecsKept
  <2>4. source[done + 1].opening # Len(openings')
    BY <1>0, <2>3 DEF TypedControl, TypeOK
  <2> QED
    BY <2>1, <2>3, <2>4 DEF SeiOfPacket, TrackOf, SpecOf, SeiCodecType
<1>3. ASSUME NEW track, NEW key \in BOOLEAN, ReadPacket(track, key) PROVE SeiOfPacket'
  <2> SUFFICES ASSUME publish = "write", sei # NoSei PROVE SeiOfPacket'
    BY <1>3 DEF SeiOfPacket, ReadPacket
  <2>1. /\ UNCHANGED <<openings, nalSize, done, sei, publish>>
        /\ source' = Append(source, [track |-> track, key |-> key, opening |-> Len(openings)])
    BY <1>3 DEF ReadPacket
  <2>2. done + 1 \in 1 .. Len(source) /\ source \in Seq(Packet)
    BY <1>0 DEF TypedControl, Control, TypeOK
  <2>3. source'[done + 1] = source[done + 1]
    BY <2>1, <2>2
  <2> QED
    BY <2>1, <2>3 DEF SeiOfPacket, TrackOf, SpecOf, SeiCodecType
<1>4. ASSUME UNCHANGED <<openings, source, done, nalSize, publish, sei>> PROVE SeiOfPacket'
  BY <1>4 DEF SeiOfPacket, TrackOf, SpecOf, SeiCodecType
<1>5. ASSUME publish' # "write" PROVE SeiOfPacket'
  BY <1>5 DEF SeiOfPacket
<1>6. ASSUME NEW opens \in BOOLEAN, ConfigurePublisher(opens) PROVE SeiOfPacket'
  BY <1>4, <1>6 DEF ConfigurePublisher
<1>7. CASE ConfigureRecorder \/ ReadError
  BY <1>4, <1>7 DEF ConfigureRecorder, ReadError
<1>8. CASE PublishTest \/ PublishTimeout \/ WriteToPublisher \/ AppendToRecorder
  BY <1>5, <1>8 DEF PublishTest, PublishTimeout, WriteToPublisher, AppendToRecorder
<1>9. CASE Stopping
  BY <1>4, <1>9 DEF Stopping, StopStream, JoinPuller, JoinPublish, ClosePublisher, CloseRecorder, Destroy
<1>10. CASE TriggerAlarmRecording \/ Tick
  BY <1>4, <1>10 DEF TriggerAlarmRecording, Tick
<1>11. CASE Destroyed \/ UNCHANGED vars
  BY <1>4, <1>11 DEF Destroyed, vars, threadVars
<1> QED
  BY <1>1, <1>2, <1>3, <1>6, <1>7, <1>8, <1>9, <1>10, <1>11 DEF Next, PullThread, PublishThread

LEMMA SeiOfPacketFits == Following /\ SeiOfPacket => SeiFitsPacket
<1> SUFFICES ASSUME Following, SeiOfPacket, publish = "write", sei # NoSei,
                    source[done + 1].opening = Len(openings),
                    (sei.nal = 0) = (TrackOf(done + 1).nal = 0)
             PROVE  /\ sei.codec = IF TrackOf(done + 1).codec = "hevc" THEN "H265" ELSE "H264"
                    /\ sei.nal = TrackOf(done + 1).nal
  BY DEF SeiFitsPacket
<1>1. /\ TrackOf(done + 1).media # "audio"
      /\ sei.codec = SeiCodecType(done + 1)
      /\ sei.nal \in {0, nalSize}
  BY DEF SeiOfPacket
<1>2. done + 1 \in 1 .. Len(source) /\ openings \in Seq(Specs)
  BY DEF Following, TypedControl, Control, TypeOK
<1>3. source[done + 1].track \in DOMAIN CurrentSpec /\ TrackOf(done + 1) = CurrentSpec[source[done + 1].track]
  BY <1>2 DEF Following, Tracked, TrackOf, SpecOf, CurrentSpec
<1>4. Len(openings) > 0 /\ Len(openings) \in Nat
  BY <1>2, PacketRead DEF Following, TypedControl, TypeOK
<1>5. CurrentSpec \in Specs
  BY <1>2, <1>4 DEF CurrentSpec
<1>6. TrackOf(done + 1).media = "video"
  BY <1>1, <1>3, <1>5, RecorderAssumption DEF Tracks
<1>7. TrackOf(done + 1).nal = VideoNalLengthSize(CurrentSpec)
  BY <1>3, <1>5, <1>6, VideoNal
<1>8. nalSize = TrackOf(done + 1).nal
  BY <1>4, <1>7 DEF Following, Configured
<1> QED
  BY <1>1, <1>8 DEF SeiCodecType

(* A packet of the opening that is current gets an SEI of its own codec and framing,
   however the openings and the publishing interleave (Pipeline.cpp:292, 586-610). *)
THEOREM SeiFits == Spec => []SeiFitsPacket
<1>1. Init => SeiOfPacket
  BY DEF Init, SeiOfPacket
<1> QED
  BY <1>1, FollowingHolds, SeiStep, SeiOfPacketFits, PTL DEF Spec

-----------------------------------------------------------------------------
(* The cache and the recording. *)

LEMMA RunIs ==
    ASSUME NEW a \in Nat, NEW b \in Nat, a <= b
    PROVE  /\ Run(a, b) \in Seq(Nat)
           /\ Len(Run(a, b)) = b - a + 1
           /\ \A i \in 1 .. b - a + 1 : Run(a, b)[i] = a + i - 1
           /\ Head(Run(a, b)) = a
           /\ Run(a, b) # <<>>
<1>1. \A i \in 1 .. b - a + 1 : a + i - 1 \in Nat
  OBVIOUS
<1>2. Run(a, b) \in Seq(Nat) /\ Len(Run(a, b)) = b - a + 1
  BY <1>1 DEF Run
<1>3. \A i \in 1 .. b - a + 1 : Run(a, b)[i] = a + i - 1
  BY DEF Run
<1>4. Run(a, b)[1] = a
  BY <1>3
<1> QED
  BY <1>2, <1>3, <1>4

LEMMA RunOfOne == ASSUME NEW a \in Nat PROVE <<a>> = Run(a, a)
<1>1. a - a + 1 = 1
  OBVIOUS
<1>2. DOMAIN Run(a, a) = 1 .. 1 /\ Run(a, a)[1] = a
  BY <1>1 DEF Run
<1> QED
  BY <1>1 DEF Run

LEMMA RunAppend ==
    ASSUME NEW a \in Nat, NEW b \in Nat, a <= b
    PROVE  Append(Run(a, b), b + 1) = Run(a, b + 1)
<1>1. /\ Append(Run(a, b), b + 1) \in Seq(Nat)
      /\ Len(Append(Run(a, b), b + 1)) = b - a + 2
      /\ \A i \in 1 .. b - a + 1 : Append(Run(a, b), b + 1)[i] = a + i - 1
      /\ Append(Run(a, b), b + 1)[b - a + 2] = b + 1
  <2> DEFINE r == Run(a, b)
  <2>1. /\ r \in Seq(Nat) /\ Len(r) = b - a + 1 /\ Len(r) \in Nat
        /\ \A i \in 1 .. b - a + 1 : r[i] = a + i - 1
    BY RunIs
  <2> HIDE DEF r
  <2>2. /\ Append(r, b + 1) \in Seq(Nat)
        /\ Len(Append(r, b + 1)) = Len(r) + 1
        /\ \A i \in 1 .. Len(r) : Append(r, b + 1)[i] = r[i]
        /\ Append(r, b + 1)[Len(r) + 1] = b + 1
    BY <2>1
  <2>3. Len(r) + 1 = b - a + 2
    BY <2>1
  <2> QED
    BY <2>1, <2>2, <2>3 DEF r
<1>2. \A i \in 1 .. b - a + 2 : Append(Run(a, b), b + 1)[i] = a + i - 1
  BY <1>1
<1>3. Append(Run(a, b), b + 1) = [i \in 1 .. b - a + 2 |-> a + i - 1]
  BY <1>1, <1>2
<1>4. b + 1 - a + 1 = b - a + 2
  OBVIOUS
<1> QED
  BY <1>3, <1>4 DEF Run

(* What starts the cache anew. *)
IsKey(p) == source[p].key /\ IsVideoTrack(source[p].track)

(* What holds of the cache and the open recording together: a recording without a packet
   was opened with an empty cache, and the cache is still empty; no packet of a recording
   was published before the tracks last changed. *)
Recording ==
    /\ clearedAt.packet <= done
    /\ CacheIsCurrentGop
    /\ RecordingContiguous
    /\ active /\ written = <<>> => cache = <<>>
    /\ active /\ written # <<>> => Head(written) > clearedAt.packet

LEMMA RecordingTypes ==
    ASSUME TypedControl
    PROVE  /\ done \in Nat /\ Len(source) \in Nat /\ done <= Len(source)
           /\ clearedAt.packet \in Nat /\ clearedAt.opening \in Nat
           /\ cache \in Seq(Nat) /\ written \in Seq(Nat)
<1>1. cache \in Seq(Nat) /\ written \in Seq(Nat)
  BY DEF TypedControl, TypeOK, RecorderTypeOK
<1>2. clearedAt.packet \in Nat /\ clearedAt.opening \in Nat
  BY OutputAssumption DEF TypedControl, TypeOK
<1>3. done \in Nat /\ Len(source) \in Nat /\ done <= Len(source)
  BY DEF TypedControl, TypeOK
<1> QED
  BY <1>1, <1>2, <1>3

LEMMA KeyFramesAre ==
    ASSUME TypedControl
    PROVE  /\ \A p : p \in KeyFrames <=> p \in clearedAt.packet + 1 .. done /\ IsKey(p)
           /\ \A p \in KeyFrames : p \in Nat /\ p > clearedAt.packet /\ p <= done
<1>1. done \in Nat /\ clearedAt.packet \in Nat
  BY RecordingTypes
<1>2. \A p : p \in KeyFrames <=> p \in clearedAt.packet + 1 .. done /\ IsKey(p)
  BY DEF KeyFrames, IsKey
<1>3. \A p \in clearedAt.packet + 1 .. done : p \in Nat /\ p > clearedAt.packet /\ p <= done
  BY <1>1
<1> QED
  BY <1>2, <1>3

(* With a key frame the cache is not empty. *)
LEMMA CacheFilled ==
    ASSUME TypedControl, CacheIsCurrentGop
    PROVE  /\ cache = <<>> => KeyFrames = {}
           /\ cache # <<>> => \E k \in KeyFrames : /\ \A j \in KeyFrames : j <= k
                                                  /\ cache = Run(k, done)
                                                  /\ k \in Nat /\ k <= done
<1>1. CASE KeyFrames = {}
  BY <1>1 DEF CacheIsCurrentGop
<1>2. CASE KeyFrames # {}
  <2>1. PICK k \in KeyFrames : (\A j \in KeyFrames : j <= k) /\ cache = Run(k, done)
    BY <1>2 DEF CacheIsCurrentGop
  <2>2. k \in Nat /\ k <= done /\ done \in Nat
    BY KeyFramesAre, RecordingTypes
  <2>3. Run(k, done) # <<>>
    BY <2>2, RunIs
  <2> QED
    BY <2>1, <2>2, <2>3
<1> QED
  BY <1>1, <1>2

(* A packet has been appended: what becomes of the cache. *)
LEMMA CacheAppended ==
    ASSUME TypedControl, TypedControl', Recording, AppendToRecorder
    PROVE  /\ CacheIsCurrentGop'
           /\ \A p : p \in KeyFrames' <=> p \in KeyFrames \/ (p = done + 1 /\ IsKey(done + 1))
<1>1. /\ CachePacket(done + 1, source[done + 1].track, source[done + 1].key)
      /\ UNCHANGED specs /\ done' = done + 1 /\ UNCHANGED <<source, clearedAt>>
  BY DEF AppendToRecorder, AppendPacket
<1>2. done \in Nat /\ clearedAt.packet \in Nat /\ clearedAt.packet <= done
  BY RecordingTypes DEF Recording
<1>3. \A p : p \in KeyFrames' <=> p \in clearedAt.packet + 1 .. done + 1 /\ IsKey(p)
  BY <1>1 DEF KeyFrames, IsVideoTrack, IsKey
<1>4. \A p : p \in clearedAt.packet + 1 .. done + 1 <=> p \in clearedAt.packet + 1 .. done \/ p = done + 1
  BY <1>2
<1>5. \A p : p \in KeyFrames' <=> p \in KeyFrames \/ (p = done + 1 /\ IsKey(done + 1))
  BY <1>3, <1>4, KeyFramesAre
<1>6. \A p \in KeyFrames : p \in Nat /\ p <= done
  BY KeyFramesAre
<1>7. cache' = IF IsKey(done + 1) THEN <<done + 1>> ELSE IF cache = <<>> THEN cache ELSE Append(cache, done + 1)
  BY <1>1 DEF CachePacket, IsKey
<1>8. CacheIsCurrentGop
  BY DEF Recording
<1>9. CacheIsCurrentGop'
  <2>1. CASE IsKey(done + 1)
    <3>1. cache' = Run(done + 1, done + 1)
      BY <1>2, <1>7, <2>1, RunOfOne
    <3>2. done + 1 \in KeyFrames' /\ \A j \in KeyFrames' : j <= done + 1
      BY <1>2, <1>5, <1>6, <2>1
    <3> QED
      BY <1>1, <3>1, <3>2 DEF CacheIsCurrentGop
  <2>2. CASE ~IsKey(done + 1) /\ cache = <<>>
    <3>1. KeyFrames = {}
      BY <1>8, <2>2, CacheFilled
    <3>2. KeyFrames' = {}
      BY <1>5, <2>2, <3>1
    <3> QED
      BY <1>7, <2>2, <3>2 DEF CacheIsCurrentGop
  <2>3. CASE ~IsKey(done + 1) /\ cache # <<>>
    <3>1. PICK k \in KeyFrames : /\ \A j \in KeyFrames : j <= k
                                 /\ cache = Run(k, done)
                                 /\ k \in Nat /\ k <= done
      BY <1>8, <2>3, CacheFilled
    <3>2. cache' = Run(k, done + 1)
      BY <1>2, <1>7, <2>3, <3>1, RunAppend
    <3>3. k \in KeyFrames' /\ \A j \in KeyFrames' : j <= k
      BY <1>5, <2>3, <3>1
    <3> QED
      BY <1>1, <3>2, <3>3 DEF CacheIsCurrentGop
  <2> QED
    BY <2>1, <2>2, <2>3
<1> QED
  BY <1>5, <1>9

LEMMA RecordingAppend ==
    ASSUME TypedControl, TypedControl', Recording, AppendToRecorder PROVE Recording'
<1>1. done' = done + 1 /\ UNCHANGED clearedAt
  BY DEF AppendToRecorder
<1>2. done \in Nat /\ clearedAt.packet \in Nat /\ clearedAt.packet <= done /\ written \in Seq(Nat)
  BY RecordingTypes DEF Recording
<1>3. clearedAt'.packet <= done'
  BY <1>1, <1>2
<1>4. CacheIsCurrentGop'
  BY CacheAppended
<1>5. CASE ~active'
  BY <1>3, <1>4, <1>5 DEF Recording, RecordingContiguous
<1>6. CASE active'
  <2>1. active /\ written' = Append(written, done + 1)
    BY <1>6 DEF AppendToRecorder, AppendPacket, Close, WritePacket
  <2>2. Len(Append(written, done + 1)) = Len(written) + 1
    BY <1>2
  <2>3. written' # <<>>
    BY <1>2, <2>1, <2>2
  <2>4. \A p : p \in KeyFrames' <=> p \in KeyFrames \/ (p = done + 1 /\ IsKey(done + 1))
    BY CacheAppended
  <2>5. RecordingContiguous' /\ Head(written') > clearedAt'.packet
    <3>1. CASE written = <<>>
      <4>1. KeyFrames = {}
        BY <2>1, <3>1, CacheFilled DEF Recording
      <4>2. written' = <<done + 1>>
        BY <2>1, <3>1
      <4>3. written' = Run(done + 1, done + 1) /\ Head(written') = done + 1
        BY <1>2, <4>2, RunOfOne, RunIs
      <4>4. done + 1 \in KeyFrames' \/ KeyFrames' = {}
        BY <2>4, <4>1
      <4> QED
        BY <1>1, <1>2, <4>3, <4>4 DEF RecordingContiguous
    <3>2. CASE written # <<>>
      <4> DEFINE h == Head(written)
      <4>1. /\ written = Run(h, done)
            /\ h \in KeyFrames \/ \A k \in KeyFrames : k > h
        BY <2>1, <3>2 DEF Recording, RecordingContiguous
      <4>2. h \in Nat
        BY <1>2, <3>2
      <4>0. h > clearedAt.packet
        BY <2>1, <3>2 DEF Recording
      <4> HIDE DEF h
      <4>3. h <= done
        <5>1. 1 \in DOMAIN written
          BY <1>2, <3>2
        <5>2. DOMAIN written = 1 .. done - h + 1
          BY <4>1 DEF Run
        <5> QED
          BY <1>2, <4>2, <5>1, <5>2
      <4>4. written' = Run(h, done + 1) /\ Head(written') = h
        <5>1. written' = Run(h, done + 1)
          BY <1>2, <2>1, <4>1, <4>2, <4>3, RunAppend
        <5>2. Head(Run(h, done + 1)) = h
          BY <1>2, <4>2, <4>3, RunIs
        <5> QED
          BY <5>1, <5>2
      <4>5. h \in KeyFrames' \/ \A k \in KeyFrames' : k > h
        BY <1>2, <2>4, <4>1, <4>2, <4>3
      <4> QED
        BY <1>1, <4>0, <4>4, <4>5 DEF RecordingContiguous
    <3> QED
      BY <3>1, <3>2
  <2> QED
    BY <1>3, <1>4, <2>3, <2>5 DEF Recording
<1> QED
  BY <1>5, <1>6

LEMMA RecordingConfigure ==
    ASSUME TypedControl, TypedControl', Recording, ConfigureRecorder PROVE Recording'
<1>1. UNCHANGED <<source, done>>
  BY DEF ConfigureRecorder
<1>2. CASE SameStreamSpecs(CurrentSpec)
  <2>1. UNCHANGED <<specs, cache, active, written, clearedAt>>
    BY <1>2 DEF ConfigureRecorder, Configure, SameStreamSpecs
  <2> QED
    BY <1>1, <2>1 DEF Recording, CacheIsCurrentGop, RecordingContiguous, KeyFrames, IsVideoTrack
<1>3. CASE ~SameStreamSpecs(CurrentSpec)
  <2>1. active' = FALSE /\ cache' = <<>> /\ clearedAt' = [packet |-> done, opening |-> Len(openings)]
    BY <1>3 DEF ConfigureRecorder, Configure, Close
  <2>2. done' \in Nat /\ clearedAt'.packet = done'
    BY <1>1, <2>1, RecordingTypes
  <2>3. KeyFrames' = {}
    <3>1. \A p \in KeyFrames' : p \in clearedAt'.packet + 1 .. done'
      BY DEF KeyFrames
    <3> QED
      BY <2>2, <3>1
  <2>4. clearedAt'.packet <= done'
    BY <2>2
  <2> QED
    BY <2>1, <2>3, <2>4 DEF Recording, CacheIsCurrentGop, RecordingContiguous
<1> QED
  BY <1>2, <1>3

LEMMA RecordingRead ==
    ASSUME TypedControl, Recording, NEW track, NEW key \in BOOLEAN, ReadPacket(track, key)
    PROVE  Recording'
<1>1. /\ UNCHANGED <<specs, cache, active, written, done, clearedAt>>
      /\ source' = Append(source, [track |-> track, key |-> key, opening |-> Len(openings)])
  BY DEF ReadPacket, recorderVars
<1>2. source \in Seq(Packet) /\ done \in Nat /\ Len(source) \in Nat /\ done <= Len(source)
      /\ clearedAt.packet \in Nat
  BY RecordingTypes DEF TypedControl, TypeOK
<1>3. \A p \in 1 .. Len(source) : source'[p] = source[p]
  BY <1>1, <1>2
<1>4. \A p \in clearedAt.packet + 1 .. done : source'[p] = source[p]
  BY <1>2, <1>3
<1>5. KeyFrames' = KeyFrames
  BY <1>1, <1>4 DEF KeyFrames, IsVideoTrack
<1> QED
  BY <1>1, <1>5 DEF Recording, CacheIsCurrentGop, RecordingContiguous

LEMMA RecordingTrigger ==
    ASSUME TypedControl, Recording, TriggerAlarmRecording PROVE Recording'
<1>1. UNCHANGED <<specs, cache, source, done, clearedAt>>
  BY DEF TriggerAlarmRecording, RequestRecording, recorderVars
<1>2. KeyFrames' = KeyFrames
  BY <1>1 DEF KeyFrames, IsVideoTrack
<1>3. CacheIsCurrentGop' /\ CacheIsCurrentGop /\ clearedAt'.packet <= done'
  BY <1>1, <1>2 DEF Recording, CacheIsCurrentGop
<1>4. \/ UNCHANGED <<active, written>>
      \/ active' = FALSE
      \/ active' = TRUE /\ written' = cache
  BY DEF TriggerAlarmRecording, RequestRecording, ExtendRecording, OpenRecording, OpenFails, FlushFails,
         Close, recorderVars
<1>5. CASE UNCHANGED <<active, written>>
  BY <1>1, <1>2, <1>3, <1>5 DEF Recording, RecordingContiguous
<1>6. CASE active' = FALSE
  BY <1>3, <1>6 DEF Recording, RecordingContiguous
<1>7. CASE active' = TRUE /\ written' = cache
  <2>1. CASE cache = <<>>
    BY <1>1, <1>3, <1>7, <2>1 DEF Recording, RecordingContiguous
  <2>2. CASE cache # <<>>
    <3>1. PICK k \in KeyFrames : cache = Run(k, done) /\ k \in Nat /\ k <= done
      BY <1>3, <2>2, CacheFilled
    <3>2. Head(written') = k /\ k > clearedAt.packet
      BY <1>7, <3>1, RunIs, RecordingTypes, KeyFramesAre
    <3> QED
      BY <1>1, <1>2, <1>3, <1>7, <2>2, <3>1, <3>2 DEF Recording, RecordingContiguous
  <2> QED
    BY <2>1, <2>2
<1> QED
  BY <1>4, <1>5, <1>6, <1>7

(* A step that leaves the recorder alone, or closes the recording. *)
LEMMA RecordingOther ==
    ASSUME Recording, UNCHANGED <<specs, cache, source, done, clearedAt>>,
           UNCHANGED <<active, written>> \/ ~active'
    PROVE  Recording'
<1>1. KeyFrames' = KeyFrames
  BY DEF KeyFrames, IsVideoTrack
<1>2. CacheIsCurrentGop' /\ clearedAt'.packet <= done'
  BY <1>1 DEF Recording, CacheIsCurrentGop
<1>3. CASE ~active'
  BY <1>2, <1>3 DEF Recording, RecordingContiguous
<1>4. CASE UNCHANGED <<active, written>>
  BY <1>1, <1>2, <1>4 DEF Recording, RecordingContiguous
<1> QED
  BY <1>3, <1>4

LEMMA RecordingStep == TypedControl /\ Recording /\ [Next]_vars => Recording'
<1> SUFFICES ASSUME TypedControl, Recording, [Next]_vars PROVE Recording'
  OBVIOUS
<1>0. TypedControl'
  BY TypeStep, ControlStep DEF TypedControl
<1>1. CASE PullThread
  <2>1. ASSUME NEW s \in Specs, OpenStream(s) PROVE Recording'
    BY <2>1, RecordingOther DEF OpenStream, recorderVars
  <2>2. ASSUME NEW opens \in BOOLEAN, ConfigurePublisher(opens) PROVE Recording'
    BY <2>2, RecordingOther DEF ConfigurePublisher, recorderVars
  <2>3. CASE ReadError
    BY <2>3, RecordingOther DEF ReadError, recorderVars
  <2> QED
    BY <1>0, <1>1, <2>1, <2>2, <2>3, RecordingConfigure, RecordingRead DEF PullThread
<1>2. CASE PublishThread
  <2>1. CASE PublishTest \/ PublishTimeout \/ PublishPacket \/ WriteToPublisher
    BY <2>1, RecordingOther DEF PublishTest, PublishTimeout, PublishPacket, WriteToPublisher, recorderVars
  <2> QED
    BY <1>0, <1>2, <2>1, RecordingAppend DEF PublishThread
<1>3. CASE Stopping
  BY <1>3, RecordingOther DEF Stopping, StopStream, JoinPuller, JoinPublish, ClosePublisher,
                              CloseRecorder, Destroy, Close, recorderVars
<1>4. CASE TriggerAlarmRecording \/ Tick
  BY <1>4, RecordingTrigger, RecordingOther DEF Tick, recorderVars
<1>5. CASE Destroyed \/ UNCHANGED vars
  BY <1>5, RecordingOther DEF Destroyed, vars, threadVars, recorderVars
<1> QED
  BY <1>1, <1>2, <1>3, <1>4, <1>5 DEF Next

LEMMA RecordingHolds == Spec => []Recording
<1>1. Init => Recording
  <2> SUFFICES ASSUME Init PROVE Recording
    OBVIOUS
  <2>1. active = FALSE /\ cache = <<>> /\ done = 0 /\ clearedAt.packet = 0
    BY DEF Init, RecorderInit
  <2>2. KeyFrames = {}
    BY <2>1 DEF KeyFrames
  <2> QED
    BY <2>1, <2>2 DEF Recording, CacheIsCurrentGop, RecordingContiguous
<1> QED
  BY <1>1, TypedHolds, RecordingStep, PTL DEF Spec

(* The pre-roll is the current group of pictures, whole and in order, whatever the
   changes of tracks and the alarms (Recorder.cpp, cachePacket and configure). *)
THEOREM PrerollIsCurrentGop == Spec => []CacheIsCurrentGop
<1>1. Recording => CacheIsCurrentGop
  BY DEF Recording
<1> QED
  BY <1>1, RecordingHolds, PTL

(* A recording has no gap, no repetition and no packet out of order, and starts at a key
   frame if one had been seen: flushCachedGop and appendPacket join without overlap. *)
THEOREM RecordingsAreContiguous == Spec => []RecordingContiguous
<1>1. Recording => RecordingContiguous
  BY DEF Recording
<1> QED
  BY <1>1, RecordingHolds, PTL

LEMMA Spans ==
    ASSUME NEW n \in Nat, NEW d \in Nat, d <= n, NEW a \in Nat, a >= 1, NEW j \in 1 .. d - a + 1
    PROVE  a + j - 1 \in 1 .. n /\ a \in 1 .. n /\ a <= a + j - 1
OBVIOUS

LEMMA OneSource == Following /\ Recording => RecordingOfOneSource
<1> SUFFICES ASSUME Following, Recording, active, written # <<>>, ~stopFlag,
                    source[Head(written)].opening >= clearedAt.opening,
                    NEW i \in DOMAIN written
             PROVE  SpecOf(written[i]) = specs
  BY DEF RecordingOfOneSource
<1> DEFINE h == Head(written)
<1>1. /\ TypedControl /\ written \in Seq(Nat) /\ done \in Nat
      /\ done <= Len(source) /\ Len(source) \in Nat /\ clearedAt.opening \in Nat
  BY RecordingTypes DEF Following
<1>2. written = Run(h, done) /\ h > clearedAt.packet
  BY DEF Recording, RecordingContiguous
<1>3. h \in Nat /\ h >= 1
  BY <1>1, <1>2, RecordingTypes
<1>4. source[h].opening >= clearedAt.opening
  OBVIOUS
<1> HIDE DEF h
<1>5. i \in 1 .. done - h + 1
  BY <1>2 DEF Run
<1>6. written[i] = h + i - 1
  BY <1>2, <1>5 DEF Run
<1>7. written[i] \in 1 .. Len(source) /\ h \in 1 .. Len(source) /\ h <= written[i]
  <2>1. h + i - 1 \in 1 .. Len(source) /\ h \in 1 .. Len(source) /\ h <= h + i - 1
    BY <1>1, <1>3, <1>5, Spans, Zenon
  <2> QED
    BY <1>6, <2>1, Zenon
<1>8. /\ source[h].opening <= source[written[i]].opening
      /\ source[h].opening \in Nat /\ source[written[i]].opening \in Nat
  <2>1. \A p, q \in 1 .. Len(source) : p <= q => source[p].opening <= source[q].opening
    BY DEF Following, InOpeningOrder
  <2>2. \A p \in 1 .. Len(source) : source[p].opening \in Nat
    BY <1>1, PacketRead
  <2> QED
    BY <1>7, <2>1, <2>2
<1>9. source[written[i]].opening >= clearedAt.opening
  <2>1. \A x, y, z \in Nat : x >= y /\ x <= z => z >= y
    OBVIOUS
  <2>2. PICK x \in Nat, y \in Nat, z \in Nat :
           x = source[h].opening /\ y = clearedAt.opening /\ z = source[written[i]].opening
    BY <1>1, <1>8, Zenon
  <2>3. x >= y /\ x <= z
    BY <1>4, <1>8, <2>2, Zenon
  <2> QED
    BY <2>1, <2>2, <2>3, Zenon
<1> QED
  BY <1>7, <1>9 DEF Following, TracksSince

(* No packet of an opening with other tracks gets into a recording that begins with the
   recorder's present tracks, although the queue may hold packets of several openings
   when the recorder is configured (Pipeline.cpp:302, Recorder.cpp configure). *)
THEOREM RecordingsOfOneSource == Spec => []RecordingOfOneSource
BY FollowingHolds, RecordingHolds, OneSource, PTL

-----------------------------------------------------------------------------
(* How long a recording lasts. *)

(* No deadline is later than an alarm of now would make it, and the deadline of an open
   recording is the latest end that was asked for. *)
Timed ==
    /\ deadline <= now + NormalizedDuration(duration)
    /\ active => deadline = promised /\ deadline > 0
    /\ ~active => promised = 0

LEMMA TimedTypes ==
    ASSUME TypedControl
    PROVE  /\ deadline \in Nat /\ now \in Nat /\ now > 0 /\ promised \in Nat
           /\ NormalizedDuration(duration) \in Nat
<1>1. deadline \in Nat /\ promised \in Nat
  BY DEF TypedControl, TypeOK, RecorderTypeOK
<1>2. now \in Nat /\ now > 0
  BY OutputAssumption DEF TypedControl, TypeOK
<1>3. NormalizedDuration(duration) \in Nat
  BY RecorderAssumption DEF TypedControl, TypeOK, NormalizedDuration
<1> QED
  BY <1>1, <1>2, <1>3

LEMMA TimedStep == TypedControl /\ Timed /\ [Next]_vars => Timed'
<1> SUFFICES ASSUME TypedControl, Timed, [Next]_vars PROVE Timed'
  OBVIOUS
<1>0. /\ deadline \in Nat /\ now \in Nat /\ now > 0 /\ promised \in Nat
      /\ NormalizedDuration(duration) \in Nat
  BY TimedTypes
<1>1. ASSUME Close, promised' = 0, UNCHANGED <<now, duration>> PROVE Timed'
  <2>1. deadline' = 0 /\ active' = FALSE
    BY <1>1 DEF Close
  <2>2. NormalizedDuration(duration)' = NormalizedDuration(duration)
    BY <1>1 DEF NormalizedDuration
  <2> QED
    BY <1>0, <1>1, <2>1, <2>2 DEF Timed
<1>2. ASSUME UNCHANGED <<active, deadline, promised, now, duration>> PROVE Timed'
  BY <1>2 DEF Timed, NormalizedDuration
<1>3. CASE ConfigureRecorder
  <2>1. UNCHANGED <<now, duration>>
    BY <1>3 DEF ConfigureRecorder
  <2>2. \/ UNCHANGED <<active, deadline, promised>>
        \/ Close /\ promised' = 0
    BY <1>3 DEF ConfigureRecorder, Configure
  <2> QED
    BY <1>1, <1>2, <2>1, <2>2
<1>4. CASE AppendToRecorder
  <2>1. UNCHANGED <<now, duration>> /\ promised' = IF active' THEN promised ELSE 0
    BY <1>4 DEF AppendToRecorder
  <2>2. Close \/ UNCHANGED <<active, deadline>>
    BY <1>4 DEF AppendToRecorder, AppendPacket, WritePacket
  <2>3. CASE UNCHANGED <<active, deadline>>
    BY <2>1, <2>3 DEF Timed, NormalizedDuration
  <2>4. CASE Close
    <3>1. promised' = 0
      BY <2>1, <2>4 DEF Close
    <3> QED
      BY <1>1, <2>1, <2>4, <3>1
  <2> QED
    BY <2>2, <2>3, <2>4
<1>5. CASE TriggerAlarmRecording
  <2>1. UNCHANGED <<now, duration>>
    BY <1>5 DEF TriggerAlarmRecording
  <2>2. CASE specs = NoSpec
    BY <1>2, <1>5, <2>1, <2>2 DEF TriggerAlarmRecording, recorderVars
  <2>3. CASE specs # NoSpec
    <3> DEFINE end == now + NormalizedDuration(duration)
    <3>1. end \in Nat /\ end > 0 /\ deadline <= end
      BY <1>0 DEF Timed
    <3>2. ExtendedDeadline(duration, now) = end
      BY <1>0, <3>1 DEF ExtendedDeadline
    <3>3. promised' = IF ~active' THEN 0 ELSE IF end > promised THEN end ELSE promised
      BY <1>5, <2>3 DEF TriggerAlarmRecording
    <3>4. \/ Close
          \/ active /\ active' = active /\ deadline' = end
          \/ ~active /\ active' = TRUE /\ deadline' = end
          \/ ~active /\ active' = active /\ deadline' = end
      BY <1>5, <2>3, <3>2 DEF TriggerAlarmRecording, RequestRecording, ExtendRecording, OpenRecording,
                              OpenFails, FlushFails
    <3>5. end' = end
      BY <2>1 DEF NormalizedDuration
    <3>6. CASE Close
      <4>1. promised' = 0
        BY <3>3, <3>6 DEF Close
      <4> QED
        BY <1>1, <2>1, <3>6, <4>1
    <3>7. CASE active' /\ deadline' = end
      <4>1. promised \in Nat /\ promised <= end
        BY <1>0, <3>1 DEF Timed
      <4>2. promised' = end
        BY <3>1, <3>3, <3>7, <4>1
      <4> QED
        BY <3>1, <3>5, <3>7, <4>2 DEF Timed
    <3>8. CASE ~active' /\ deadline' = end
      <4>1. promised' = 0
        BY <3>3, <3>8
      <4> QED
        BY <3>1, <3>5, <3>8, <4>1 DEF Timed
    <3> QED
      BY <3>4, <3>6, <3>7, <3>8
  <2> QED
    BY <2>2, <2>3
<1>6. CASE Tick
  <2>1. now' = now + 1 /\ UNCHANGED <<active, deadline, promised, duration>>
    BY <1>6 DEF Tick, recorderVars
  <2>2. NormalizedDuration(duration)' = NormalizedDuration(duration)
    BY <2>1 DEF NormalizedDuration
  <2> QED
    BY <1>0, <2>1, <2>2 DEF Timed
<1>7. CASE CloseRecorder \/ Destroy
  BY <1>1, <1>7 DEF CloseRecorder, Destroy
<1>8. ASSUME NEW s \in Specs, OpenStream(s) PROVE Timed'
  BY <1>2, <1>8 DEF OpenStream, recorderVars
<1>9. ASSUME NEW opens \in BOOLEAN, ConfigurePublisher(opens) PROVE Timed'
  BY <1>2, <1>9 DEF ConfigurePublisher, recorderVars
<1>10. ASSUME NEW track, NEW key, ReadPacket(track, key) PROVE Timed'
  BY <1>2, <1>10 DEF ReadPacket, recorderVars
<1>11. CASE ReadError \/ PublishTest \/ PublishTimeout \/ PublishPacket \/ WriteToPublisher
  BY <1>2, <1>11 DEF ReadError, PublishTest, PublishTimeout, PublishPacket, WriteToPublisher, recorderVars
<1>12. CASE StopStream \/ JoinPuller \/ JoinPublish \/ ClosePublisher
  BY <1>2, <1>12 DEF StopStream, JoinPuller, JoinPublish, ClosePublisher, recorderVars
<1>13. CASE Destroyed \/ UNCHANGED vars
  BY <1>2, <1>13 DEF Destroyed, vars, threadVars, recorderVars
<1> QED
  BY <1>3, <1>4, <1>5, <1>6, <1>7, <1>8, <1>9, <1>10, <1>11, <1>12, <1>13
     DEF Next, PullThread, PublishThread, Stopping

LEMMA TimedHolds == Spec => []Timed
<1>1. Init => Timed
  <2> SUFFICES ASSUME Init PROVE Timed
    OBVIOUS
  <2>1. TypedControl
    BY TypedInit
  <2>2. deadline = 0 /\ active = FALSE /\ promised = 0
    BY DEF Init, RecorderInit
  <2>3. now + NormalizedDuration(duration) \in Nat
    BY <2>1, TimedTypes
  <2> QED
    BY <2>2, <2>3 DEF Timed
<1> QED
  BY <1>1, TypedHolds, TimedStep, PTL DEF Spec

(* A packet either goes into the recording before the latest end its alarms asked for, or
   closes it, at or after that end or because the write failed. *)
LEMMA PromiseStep ==
    ASSUME TypedControl, Timed, [Next]_vars
    PROVE  [active /\ done' = done + 1 =>
              \/ active' /\ now < promised
              \/ ~active' /\ (now >= promised \/ now < deadline)]_vars
<1> SUFFICES ASSUME active, done' = done + 1, Next
             PROVE  \/ active' /\ now < promised
                    \/ ~active' /\ (now >= promised \/ now < deadline)
  BY DEF vars, threadVars, TypedControl, TypeOK
<1>0. /\ deadline \in Nat /\ now \in Nat /\ promised \in Nat
      /\ deadline = promised /\ deadline > 0
  BY TimedTypes DEF Timed
<1>1. done \in Nat
  BY RecordingTypes
<1>2. AppendToRecorder
  <2>1. done' # done
    BY <1>1
  <2>2. ~PullThread
    BY <2>1 DEF PullThread, OpenStream, ConfigurePublisher, ConfigureRecorder, ReadPacket, ReadError
  <2>3. PublishThread => AppendToRecorder
    BY <2>1 DEF PublishThread, PublishTest, PublishTimeout, PublishPacket, WriteToPublisher
  <2>4. ~Stopping
    BY <2>1 DEF Stopping, StopStream, JoinPuller, JoinPublish, ClosePublisher, CloseRecorder, Destroy
  <2>5. ~TriggerAlarmRecording /\ ~Tick /\ ~Destroyed
    BY <2>1 DEF TriggerAlarmRecording, Tick, Destroyed, vars, threadVars
  <2> QED
    BY <2>2, <2>3, <2>4, <2>5 DEF Next
<1>3. \/ Expired(now) /\ active' = FALSE
      \/ ~Expired(now) /\ (active' = active \/ active' = FALSE)
  BY <1>2 DEF AppendToRecorder, AppendPacket, WritePacket, Close
<1>4. Expired(now) <=> now >= promised
  BY <1>0 DEF Expired
<1>5. CASE now >= promised
  BY <1>3, <1>4, <1>5
<1>6. CASE ~(now >= promised)
  <2>1. now < promised /\ now < deadline
    BY <1>0, <1>6
  <2> QED
    BY <1>3, <1>4, <1>6, <2>1
<1> QED
  BY <1>5, <1>6

(* Recordings last as long as their alarms asked (Recorder.cpp, requestRecording and
   closeExpired): the deadline that is kept is the latest end of all of them. *)
THEOREM RecordingsLastAsPromised == Spec => RecordedAsPromised
BY TypedHolds, TimedHolds, PromiseStep, PTL DEF Spec, RecordedAsPromised

=============================================================================
