---------------------------- MODULE StreamBuffer ----------------------------
(***************************************************************************)
(* The per-stream buffer of src/pipeline/StreamBuffer.cpp: the queue of    *)
(* encoded packets waiting to be published, the frames aligned with them   *)
(* by frame_id, and the inference results waiting for a packet.  Every     *)
(* method of the class takes mutex_ for its whole body, so every operator  *)
(* below is one atomic step; the threads that call them are in             *)
(* StreamPipeline.                                                         *)
(***************************************************************************)
EXTENDS Integers, Sequences, FiniteSets

CONSTANTS MaxFrames,     \* bound: video packets read in one behaviour
          Watermark,     \* min_video_watermark (kMinVideoWatermark)
          Pts,           \* Pts[id]: presentation time of frame id; < 0 is unset
          MatchWindow    \* kCachedInferenceMatchWindowPts

FrameIds == 0 .. (MaxFrames - 1)

ASSUME BufferAssumption ==
    /\ MaxFrames \in Nat
    /\ Watermark \in Nat
    /\ Pts \in [FrameIds -> Int]
    /\ MatchWindow \in Nat

VARIABLES
    packets,     \* packets_: sequence of packets, front first
    videoCount,  \* video_packet_count_
    frames,      \* frames_ with frame_order_: a frame's pos is the stamp of its
                 \* push_back, so frame_order_ is the frames by increasing pos
    nextPos,     \* stamp of the next push_back on frame_order_
    cached,      \* keys of cached_inference_results_
    stopped      \* stopped_

bufferVars == <<packets, videoCount, frames, nextPos, cached, stopped>>

InferStates == {"Idle", "Selected", "Running", "Done", "Dropped"}
IsInferenceTerminal(st) == st \in {"Done", "Dropped"}
IsInferring(st) == st \in {"Selected", "Running"}

VideoPacket(id) == [media |-> "Video", id |-> id]
AudioPacket == [media |-> "Audio", id |-> -1]
Packets == {VideoPacket(id) : id \in FrameIds} \cup {AudioPacket}
FrameBundles == [decoded : BOOLEAN, infer_state : InferStates, pos : Nat]

BufferTypeOK ==
    /\ packets \in Seq(Packets)
    /\ videoCount \in Nat
    /\ DOMAIN frames \subseteq FrameIds
    /\ \A id \in DOMAIN frames : frames[id] \in FrameBundles
    /\ nextPos \in Nat
    /\ cached \subseteq FrameIds
    /\ stopped \in BOOLEAN

BufferInit ==
    /\ packets = <<>>
    /\ videoCount = 0
    /\ frames = [id \in {} |-> 0]
    /\ nextPos = 0
    /\ cached = {}
    /\ stopped = FALSE

-----------------------------------------------------------------------------
(* Producer side. *)

EnqueuePacket(packet) ==
    /\ IF stopped
       THEN UNCHANGED <<packets, videoCount>>
       ELSE /\ packets' = Append(packets, packet)
            /\ videoCount' = IF packet.media = "Video" THEN videoCount + 1 ELSE videoCount
    /\ UNCHANGED <<frames, nextPos, cached, stopped>>

EnqueueFrame(id, decoded) ==
    /\ IF stopped
       THEN UNCHANGED <<frames, nextPos>>
       ELSE /\ frames' = [f \in DOMAIN frames \cup {id} |->
                             IF f = id
                             THEN [decoded |-> decoded, infer_state |-> "Idle", pos |-> nextPos]
                             ELSE frames[f]]
            /\ nextPos' = nextPos + 1
    /\ UNCHANGED <<packets, videoCount, cached, stopped>>

-----------------------------------------------------------------------------
(* Inference side. *)

DecodedFrames == {id \in DOMAIN frames : frames[id].decoded}
IdleDecoded == {id \in DecodedFrames : frames[id].infer_state = "Idle"}

(* frame_order_ is searched from the back: the selectable frame is the last
   decoded Idle one. *)
Selectable(id) ==
    /\ id \in IdleDecoded
    /\ \A g \in IdleDecoded : frames[g].pos <= frames[id].pos

(* Faulty variant: the other frames keep their state. *)
SelectKeepsOthers(id) ==
    /\ Selectable(id)
    /\ frames' = [frames EXCEPT ![id].infer_state = "Selected"]
    /\ UNCHANGED <<packets, videoCount, nextPos, cached, stopped>>

(* selectFrameForInference() returning frame id: every other frame that is not
   terminal is marked Done, placeholders and frames in inference included. *)
SelectFrameForInference(id) ==
    /\ Selectable(id)
    /\ frames' = [f \in DOMAIN frames |->
                     IF f = id THEN [frames[f] EXCEPT !.infer_state = "Selected"]
                     ELSE IF IsInferenceTerminal(frames[f].infer_state) THEN frames[f]
                     ELSE [frames[f] EXCEPT !.infer_state = "Done"]]
    /\ UNCHANGED <<packets, videoCount, nextPos, cached, stopped>>

SetInferState(id, st) ==
    /\ frames' = [f \in DOMAIN frames |->
                     IF f = id THEN [frames[f] EXCEPT !.infer_state = st] ELSE frames[f]]
    /\ UNCHANGED <<packets, videoCount, nextPos, cached, stopped>>

MarkInferenceRunning(id) == SetInferState(id, "Running")
MarkInferenceDone(resultId) == SetInferState(resultId, "Done")
ClearInferenceSelection(id, st) == SetInferState(id, st)

UpdateCachedInferenceResult(resultId) ==
    /\ cached' = IF resultId < 0 THEN cached ELSE cached \cup {resultId}
    /\ UNCHANGED <<packets, videoCount, frames, nextPos, stopped>>

-----------------------------------------------------------------------------
(* Publishing side. *)

InferringFrames == {id \in DecodedFrames : IsInferring(frames[id].infer_state)}

(* inferringFrameIdLocked(): the first frame in inference in frame_order_. *)
FirstInferring(id) ==
    /\ id \in InferringFrames
    /\ \A g \in InferringFrames : frames[id].pos <= frames[g].pos

(* Faulty variants: the packet of the frame in inference may pass; no gate. *)
InferenceGateInclusive(packet) ==
    \A id \in InferringFrames : FirstInferring(id) => 0 <= packet.id /\ packet.id <= id
InferenceGateOpen(packet) == TRUE

InferenceGate(packet) ==
    \A id \in InferringFrames : FirstInferring(id) => 0 <= packet.id /\ packet.id < id

(* Faulty variants: the packet does not wait for its frame; the last decoded frame
   may be released. *)
FrameGateMissingFrame(packet) ==
    packet.id \in DecodedFrames => DecodedFrames \ {packet.id} # {}
FrameGateLastDecoded(packet) == packet.id >= 0 => packet.id \in DOMAIN frames

FrameGate(packet) ==
    packet.id >= 0 =>
        /\ packet.id \in DOMAIN frames
        /\ frames[packet.id].decoded => DecodedFrames \ {packet.id} # {}

CanPublish ==
    /\ packets # <<>>
    /\ \/ Watermark = 0
       \/ videoCount = 0
       \/ Head(packets).media = "Audio"
       \/ /\ InferenceGate(Head(packets))
          /\ FrameGate(Head(packets))
          /\ videoCount > Watermark

PopPacket ==
    /\ IF packets = <<>>
       THEN UNCHANGED <<packets, videoCount>>
       ELSE /\ packets' = Tail(packets)
            /\ videoCount' = IF Head(packets).media = "Video" /\ videoCount > 0
                             THEN videoCount - 1 ELSE videoCount
    /\ UNCHANGED <<frames, nextPos, cached, stopped>>

ReleaseFrame(id) ==
    /\ frames' = [f \in DOMAIN frames \ {id} |-> frames[f]]
    /\ cached' = cached \ {id}
    /\ UNCHANGED <<packets, videoCount, nextPos, stopped>>

PtsDistance(a, b) == IF Pts[a] >= Pts[b] THEN Pts[a] - Pts[b] ELSE Pts[b] - Pts[a]

(* The results the packet may be given: one of the nearest in pts among those
   within the window (a tie is broken by the hash map's order), otherwise the
   one with the packet's own frame_id. *)
CachedMatches(id, live) ==
    LET near == {r \in live : /\ Pts[id] >= 0 /\ Pts[r] >= 0
                              /\ PtsDistance(r, id) <= MatchWindow}
    IN  IF near = {} THEN live \cap {id}
        ELSE {r \in near : \A q \in near : PtsDistance(r, id) <= PtsDistance(q, id)}

(* Results that have expired at now_mono_ms are purged first; the clock may have
   passed any of the deadlines. *)
TakeCachedInferenceResult(id) ==
    /\ \E expired \in SUBSET cached :
          LET live == cached \ expired
              matches == CachedMatches(id, live)
          IN  IF matches = {} THEN cached' = live
              ELSE \E r \in matches : cached' = live \ {r}
    /\ UNCHANGED <<packets, videoCount, frames, nextPos, stopped>>

StopBuffer ==
    /\ stopped' = TRUE
    /\ UNCHANGED <<packets, videoCount, frames, nextPos, cached>>
=============================================================================
