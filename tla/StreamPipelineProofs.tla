------------------------ MODULE StreamPipelineProofs ------------------------
(***************************************************************************)
(* Proofs about StreamPipeline: IndInv is inductive, so the safety         *)
(* properties of the module hold for any number of frames, audio packets,  *)
(* reconnects and inference threads.                                       *)
(***************************************************************************)
EXTENDS StreamPipeline, TLAPS

-----------------------------------------------------------------------------
(* Each part of the invariant is about few variables: a step that leaves them
   alone keeps it. *)

(* QueueInv depends on packets, videoCount and nextId only. *)
LEMMA QueueFrame ==
    ASSUME QueueInv, UNCHANGED <<packets, videoCount, nextId>>
    PROVE  QueueInv'
BY DEF QueueInv, Low

(* HandInv depends on the publish thread and the queue only. *)
LEMMA HandFrame ==
    ASSUME HandInv, UNCHANGED <<packets, videoCount, nextId, pub>>
    PROVE  HandInv'
BY DEF HandInv, Low

(* PendingInv depends on the puller, the frames and stopped_ only. *)
LEMMA PendingFrame ==
    ASSUME PendingInv, UNCHANGED <<videoCount, nextId, pending, puller, stopped>>,
           DOMAIN frames' = DOMAIN frames
    PROVE  PendingInv'
BY DEF PendingInv, Low

(* FrameInv depends on the frames, the queue and the publish thread only. *)
LEMMA FrameFrame ==
    ASSUME FrameInv, UNCHANGED <<videoCount, nextId, frames, nextPos, pub>>
    PROVE  FrameInv'
BY DEF FrameInv, Low, OrderFollowsIds, IdleFramesNewest, DecodedFrames

(* InferenceInv depends on the workers, the scheduler entry and the frames only. *)
LEMMA InferenceFrame ==
    ASSUME InferenceInv, UNCHANGED <<worker, entry, frames>>
    PROVE  InferenceInv'
BY DEF InferenceInv, UsingFrame, InferringFrames, DecodedFrames

(* WindowInv depends on the publish thread, the queue and the frames only. *)
LEMMA WindowFrame ==
    ASSUME WindowInv, UNCHANGED <<pub, packets, frames, videoCount>>
    PROVE  WindowInv'
BY DEF WindowInv, PassedGates, InferringFrames, DecodedFrames

-----------------------------------------------------------------------------
(* The head of the queue, if it is a video packet, is the oldest one. *)
LEMMA HeadIsLow ==
    ASSUME TypeOK, QueueInv, packets # <<>>, Head(packets).media = "Video"
    PROVE  Head(packets).id = Low /\ Head(packets) = VideoPacket(Low) /\ Low \in FrameIds
           /\ videoCount > 0
<1> DEFINE h == Head(packets)
<1>1. h = packets[1] /\ 1 \in 1 .. Len(packets) /\ h \in Packets
  BY DEF TypeOK, BufferTypeOK
<1>2. h.id \in FrameIds /\ h = VideoPacket(h.id)
  BY <1>1 DEF Packets, VideoPacket, AudioPacket
<1>3. Low <= h.id /\ h.id < nextId
  BY <1>1 DEF QueueInv
<1>4. Low \in FrameIds
  BY <1>2, <1>3, BufferAssumption DEF TypeOK, BufferTypeOK, Low, FrameIds, QueueInv
<1>5. Low \in Int /\ Low < nextId
  BY <1>2, <1>3, BufferAssumption DEF TypeOK, BufferTypeOK, Low, FrameIds
<1>6. PICK i \in 1 .. Len(packets) : packets[i] = VideoPacket(Low)
  BY <1>4, <1>5, <1>3 DEF QueueInv
<1>7. i = 1
  <2> SUFFICES ASSUME i # 1 PROVE FALSE
    OBVIOUS
  <2>1. packets[i].media = "Video" /\ packets[i].id = Low
    BY <1>6 DEF VideoPacket
  <2>2. 1 < i
    BY <1>6, <1>1 DEF TypeOK, BufferTypeOK
  <2>3. h.id < Low
    BY <2>1, <2>2, <1>1, <1>6 DEF QueueInv
  <2> QED
    BY <2>3, <1>3, <1>2, <1>5 DEF FrameIds
<1>8. h.id = Low
  BY <1>7, <1>6, <1>1 DEF VideoPacket
<1>9. videoCount > 0
  BY <1>5 DEF Low, TypeOK, BufferTypeOK
<1> QED
  BY <1>8, <1>2, <1>4, <1>9

(* The invariant holds when the stream has been built. *)
LEMMA InitIndInv == Init => IndInv
<1> SUFFICES ASSUME Init PROVE IndInv
  OBVIOUS
<1> USE DEF Init, BufferInit, PubWaiting
<1>1. TypeOK
  <2>1. BufferTypeOK
    <3>1. packets \in Seq(Packets)
      OBVIOUS
    <3>2. DOMAIN frames = {}
      OBVIOUS
    <3> QED
      BY <3>1, <3>2 DEF BufferTypeOK
  <2>2. /\ puller \in [pc : PullerPcs, match : Nat]
        /\ pending \in Seq(FrameIds)
        /\ nextId \in 0 .. MaxFrames
        /\ audioRead \in 0 .. MaxAudio
        /\ reconnects \in 0 .. MaxReconnects
    BY BufferAssumption, PipelineAssumption DEF PullerPcs
  <2>3. worker \in [Workers -> [pc : WorkerPcs, frame : FrameIds \cup {NoFrame},
                                result : FrameIds \cup {NoFrame}]]
    BY DEF WorkerPcs
  <2>4. pub \in [pc : PubPcs, packet : Packets]
    BY DEF PubPcs, Packets
  <2> QED
    BY <2>1, <2>2, <2>3, <2>4 DEF TypeOK, StopperPcs, LivePcs
<1>2. QueueInv
  BY BufferAssumption DEF QueueInv, Low, FrameIds
<1>3. HandInv
  BY DEF HandInv
<1>4. PendingInv
  BY DEF PendingInv
<1>5. FrameInv
  BY DEF FrameInv, OrderFollowsIds, IdleFramesNewest, DecodedFrames
<1>6. InferenceInv
  BY DEF InferenceInv, UsingFrame, InferringFrames, DecodedFrames
<1>7. WindowInv
  BY DEF WindowInv, PassedGates
<1> QED
  BY <1>1, <1>2, <1>3, <1>4, <1>5, <1>6, <1>7 DEF IndInv
-----------------------------------------------------------------------------
(* The puller thread. *)

(* A video packet that is read extends the queue and the pending list by the
   next id. *)
LEMMA PullVideoStep == IndInv /\ PullVideo => IndInv'
<1> SUFFICES ASSUME IndInv, PullVideo PROVE IndInv'
  OBVIOUS
<1> USE DEF IndInv
<1>1. ~stopped
  BY DEF PullVideo, PullerReading, PendingInv, TypeOK
<1>2. /\ packets' = Append(packets, VideoPacket(nextId))
      /\ videoCount' = videoCount + 1
      /\ nextId' = nextId + 1
      /\ pending' = Append(pending, nextId)
      /\ puller' = [puller EXCEPT !.pc = "decode"]
      /\ UNCHANGED <<frames, nextPos, cached, stopped, audioRead, reconnects, worker, entry, pub, controlVars>>
  BY <1>1 DEF PullVideo, EnqueuePacket, VideoPacket
<1>3. nextId \in FrameIds /\ nextId < MaxFrames /\ nextId \in Nat /\ VideoPacket(nextId) \in Packets
  BY BufferAssumption DEF PullVideo, TypeOK, FrameIds, Packets
<1>4. packets \in Seq(Packets) /\ videoCount \in Nat /\ pending \in Seq(FrameIds) /\ FrameIds \subseteq Int
  BY BufferAssumption DEF TypeOK, BufferTypeOK, FrameIds
<1>5. Low' = Low /\ Low \in Int
  BY <1>2, <1>3, <1>4 DEF Low
<1>6. packets # <<>> => Head(packets') = Head(packets)
  BY <1>2, <1>3, <1>4
<1>7. TypeOK'
  <2>1. packets' \in Seq(Packets) /\ videoCount' \in Nat /\ pending' \in Seq(FrameIds)
    BY <1>2, <1>3, <1>4
  <2>2. BufferTypeOK'
    BY <2>1, <1>2 DEF TypeOK, BufferTypeOK
  <2>3. puller' \in [pc : PullerPcs, match : Nat]
    BY <1>2 DEF TypeOK, PullerPcs
  <2>4. nextId' \in 0 .. MaxFrames
    BY <1>2, <1>3, BufferAssumption
  <2> QED
    BY <2>1, <2>2, <2>3, <2>4, <1>2 DEF TypeOK, controlVars
<1>8. QueueInv'
  <2>1. \A i \in 1 .. Len(packets) : packets'[i] = packets[i]
    BY <1>2, <1>3, <1>4
  <2>2. Len(packets') = Len(packets) + 1 /\ packets'[Len(packets) + 1] = VideoPacket(nextId)
    BY <1>2, <1>3, <1>4
  <2>3. videoCount' <= nextId'
    BY <1>2, <1>3, <1>4 DEF QueueInv
  <2>4. \A i \in 1 .. Len(packets') :
           packets'[i].media = "Video" => Low' <= packets'[i].id /\ packets'[i].id < nextId'
    <3> SUFFICES ASSUME NEW i \in 1 .. Len(packets'), packets'[i].media = "Video"
                 PROVE  Low' <= packets'[i].id /\ packets'[i].id < nextId'
      OBVIOUS
    <3>1. CASE i \in 1 .. Len(packets)
      <4>1. packets[i] \in Packets /\ packets[i].media = "Video"
        BY <3>1, <2>1, <1>4
      <4>2. packets[i].id \in Int
        BY <4>1, <1>4 DEF Packets, VideoPacket, AudioPacket
      <4>3. Low <= packets[i].id /\ packets[i].id < nextId
        BY <3>1, <4>1 DEF QueueInv
      <4> QED
        BY <4>2, <4>3, <3>1, <2>1, <1>2, <1>3, <1>5
    <3>2. CASE i = Len(packets) + 1
      BY <3>2, <2>2, <2>3, <1>2, <1>3, <1>4, <1>5 DEF VideoPacket, Low, QueueInv
    <3> QED
      BY <3>1, <3>2, <2>2, <1>4
  <2>5. \A i, j \in 1 .. Len(packets') :
           i < j /\ packets'[i].media = "Video" /\ packets'[j].media = "Video"
              => packets'[i].id < packets'[j].id
    <3> SUFFICES ASSUME NEW i \in 1 .. Len(packets'), NEW j \in 1 .. Len(packets'), i < j,
                        packets'[i].media = "Video", packets'[j].media = "Video"
                 PROVE  packets'[i].id < packets'[j].id
      OBVIOUS
    <3>1. i \in 1 .. Len(packets) /\ packets'[i] = packets[i]
      BY <2>1, <2>2, <1>4
    <3>2. CASE j \in 1 .. Len(packets)
      BY <3>1, <3>2, <2>1 DEF QueueInv
    <3>3. CASE j = Len(packets) + 1
      BY <3>1, <3>3, <2>2 DEF QueueInv, VideoPacket
    <3> QED
      BY <3>2, <3>3, <2>2, <1>4
  <2>6. \A id \in FrameIds : Low' <= id /\ id < nextId'
           => \E i \in 1 .. Len(packets') : packets'[i] = VideoPacket(id)
    <3> SUFFICES ASSUME NEW id \in FrameIds, Low' <= id, id < nextId'
                 PROVE  \E i \in 1 .. Len(packets') : packets'[i] = VideoPacket(id)
      OBVIOUS
    <3>1. CASE id < nextId
      <4>1. PICK i \in 1 .. Len(packets) : packets[i] = VideoPacket(id)
        BY <3>1, <1>5 DEF QueueInv
      <4> QED
        BY <4>1, <2>1, <2>2, <1>4
    <3>2. CASE id = nextId
      BY <3>2, <2>2, <1>4
    <3> QED
      BY <3>1, <3>2, <1>2, <1>3, <1>4
  <2> QED
    BY <2>3, <2>4, <2>5, <2>6 DEF QueueInv
<1>9. HandInv'
  <2>1. packets' # <<>>
    <3>1. Len(packets') = Len(packets) + 1 /\ Len(packets) \in Nat
      BY <1>2, <1>3, <1>4
    <3>2. Len(packets') # 0
      BY <3>1
    <3> QED
      BY <3>2
  <2> QED
    BY <2>1, <1>2, <1>5, <1>6 DEF HandInv
<1>10. PendingInv'
  <2>1. Low <= nextId
    BY <1>3, <1>4 DEF Low, QueueInv
  <2>2. \A f \in DOMAIN frames : f \in Int /\ f < nextId
    BY <1>4 DEF FrameInv, TypeOK, BufferTypeOK
  <2>3. /\ Len(pending') = Len(pending) + 1
        /\ pending'[Len(pending) + 1] = nextId
        /\ \A i \in 1 .. Len(pending) : pending'[i] = pending[i] /\ pending[i] \in Int
    BY <1>2, <1>3, <1>4
  <2>4. puller'.pc = "decode"
    BY <1>2 DEF TypeOK
  <2>5. \A i \in 1 .. Len(pending') : Low' <= pending'[i] /\ pending'[i] < nextId'
    BY <1>2, <1>3, <1>4, <1>5, <2>1, <2>3, SMTT(30) DEF PendingInv
  <2>6. \A i, j \in 1 .. Len(pending') : i < j => pending'[i] < pending'[j]
    <3> SUFFICES ASSUME NEW i \in 1 .. Len(pending'), NEW j \in 1 .. Len(pending'), i < j
                 PROVE  pending'[i] < pending'[j]
      OBVIOUS
    <3>1. i \in 1 .. Len(pending) /\ pending'[i] = pending[i]
      BY <1>4, <2>3
    <3>2. CASE j \in 1 .. Len(pending)
      BY <3>1, <3>2, <2>3 DEF PendingInv
    <3>3. CASE j = Len(pending) + 1
      BY <3>1, <3>3, <2>3 DEF PendingInv
    <3> QED
      BY <3>2, <3>3, <1>4, <2>3
  <2>7. \A i \in 1 .. Len(pending') : \A f \in DOMAIN frames' : f < pending'[i]
    BY <1>2, <1>3, <1>4, <2>2, <2>3 DEF PendingInv
  <2> QED
    BY <1>1, <1>2, <2>4, <2>5, <2>6, <2>7 DEF PendingInv
<1>11. FrameInv'
  BY <1>2, <1>3, <1>4, <1>5, SMTT(30) DEF FrameInv, OrderFollowsIds, IdleFramesNewest, DecodedFrames, TypeOK, BufferTypeOK
<1>12. InferenceInv'
  BY <1>2, InferenceFrame
<1>13. WindowInv'
  BY <1>2, <1>4, <1>6, BufferAssumption
  DEF WindowInv, PassedGates, HandInv, InferringFrames, DecodedFrames
<1> QED
  BY <1>7, <1>8, <1>9, <1>10, <1>11, <1>12, <1>13

(* An audio packet that is read joins the queue and changes no id. *)
LEMMA PullAudioStep == IndInv /\ PullAudio => IndInv'
<1> SUFFICES ASSUME IndInv, PullAudio PROVE IndInv'
  OBVIOUS
<1> USE DEF IndInv
<1>1. ~stopped
  BY DEF PullAudio, PullerReading, PendingInv, TypeOK
<1>2. /\ packets' = Append(packets, AudioPacket)
      /\ audioRead' = audioRead + 1
      /\ UNCHANGED <<videoCount, frames, nextPos, cached, stopped, puller, pending, nextId,
                     reconnects, worker, entry, pub, controlVars>>
  BY <1>1 DEF PullAudio, EnqueuePacket, AudioPacket
<1>3. packets \in Seq(Packets) /\ AudioPacket \in Packets /\ AudioPacket.media # "Video"
  BY DEF TypeOK, BufferTypeOK, Packets, AudioPacket
<1>4. Low' = Low
  BY <1>2 DEF Low
<1>5. /\ Len(packets') = Len(packets) + 1 /\ packets'[Len(packets) + 1] = AudioPacket
      /\ \A i \in 1 .. Len(packets) : packets'[i] = packets[i]
      /\ packets # <<>> => Head(packets') = Head(packets)
      /\ packets' \in Seq(Packets) /\ packets' # <<>> /\ Len(packets) \in Nat
  BY <1>2, <1>3
<1>6. TypeOK'
  <2>1. audioRead' \in 0 .. MaxAudio
    BY <1>2, PipelineAssumption DEF PullAudio, TypeOK
  <2> QED
    BY <1>2, <1>5, <2>1 DEF TypeOK, BufferTypeOK, controlVars
<1>7. QueueInv'
  <2>1. \A i \in 1 .. Len(packets') : packets'[i].media = "Video" => i \in 1 .. Len(packets)
    BY <1>3, <1>5
  <2>2. \A i \in 1 .. Len(packets) : i \in 1 .. Len(packets')
    BY <1>5
  <2> QED
    BY <1>2, <1>4, <1>5, <2>1, <2>2 DEF QueueInv
<1>8. HandInv'
  BY <1>2, <1>4, <1>5 DEF HandInv
<1>9. PendingInv'
  BY <1>2, PendingFrame
<1>10. FrameInv'
  BY <1>2, FrameFrame
<1>11. InferenceInv'
  BY <1>2, InferenceFrame
<1>12. WindowInv'
  BY <1>2, <1>5 DEF WindowInv, PassedGates, HandInv, InferringFrames, DecodedFrames
<1> QED
  BY <1>6, <1>7, <1>8, <1>9, <1>10, <1>11, <1>12

(* Matching a decoder output chooses an entry that is pending. *)
LEMMA MatchPendingStep == IndInv /\ MatchPending => IndInv'
<1> SUFFICES ASSUME IndInv, MatchPending PROVE IndInv'
  OBVIOUS
<1> USE DEF IndInv
<1>1. PICK k \in 1 .. Len(pending) : puller' = [pc |-> "deliver", match |-> k]
  BY DEF MatchPending
<1>2. UNCHANGED <<packets, videoCount, frames, nextPos, cached, stopped, pending, nextId, audioRead,
                  reconnects, worker, entry, pub, controlVars>>
  BY DEF MatchPending, bufferVars
<1>3. puller.pc = "decode"
  BY DEF MatchPending
<1>4. TypeOK'
  <2>1. puller' \in [pc : PullerPcs, match : Nat]
    BY <1>1 DEF PullerPcs, TypeOK
  <2> QED
    BY <1>2, <2>1 DEF TypeOK, BufferTypeOK, controlVars
<1>5. PendingInv'
  <2>1. k >= 1 /\ k <= Len(pending)
    BY <1>1 DEF TypeOK
  <2>2. ~stopped
    BY <1>3 DEF PendingInv
  <2> QED
    BY <1>1, <1>2, <2>1, <2>2 DEF PendingInv, Low
<1> QED
  BY <1>2, <1>4, <1>5, QueueFrame, HandFrame, FrameFrame, InferenceFrame, WindowFrame

(* The frame that is enqueued is newer than every frame of the buffer, and its
   packet is queued. *)
LEMMA DeliverFrameStep == IndInv /\ DeliverFrame => IndInv'
<1> SUFFICES ASSUME IndInv, DeliverFrame PROVE IndInv'
  OBVIOUS
<1> USE DEF IndInv
<1> DEFINE p == Head(pending)
<1>1. ~stopped
  BY DEF DeliverFrame, PendingInv
<1>2. puller.pc = "deliver" /\ puller.match \in Nat /\ puller.match >= 1 /\ puller.match <= Len(pending)
  BY DEF DeliverFrame, PendingInv, TypeOK
<1>3. pending \in Seq(FrameIds) /\ FrameIds \subseteq Int /\ Len(pending) \in Nat
  BY BufferAssumption DEF TypeOK, FrameIds
<1>4. PICK decoded \in BOOLEAN : EnqueueFrame(p, decoded)
  BY DEF DeliverFrame
<1>5. /\ frames' = [f \in DOMAIN frames \cup {p} |->
                      IF f = p
                      THEN [decoded |-> decoded, infer_state |-> "Idle", pos |-> nextPos]
                      ELSE frames[f]]
      /\ nextPos' = nextPos + 1
      /\ UNCHANGED <<packets, videoCount, cached, stopped>>
  BY <1>1, <1>4 DEF EnqueueFrame
<1>6. /\ pending' = Tail(pending)
      /\ puller' = [pc |-> IF puller.match = 1 THEN "decode" ELSE "deliver", match |-> puller.match - 1]
      /\ UNCHANGED <<nextId, audioRead, reconnects, worker, entry, pub, controlVars>>
  BY DEF DeliverFrame
<1>7. pending # <<>> /\ p = pending[1] /\ p \in FrameIds /\ 1 \in 1 .. Len(pending)
  BY <1>2, <1>3
<1>8. Low <= p /\ p < nextId /\ \A f \in DOMAIN frames : f < p
  BY <1>7 DEF PendingInv
<1>9. Low' = Low
  BY <1>5, <1>6 DEF Low
<1>10. DOMAIN frames \subseteq Int /\ nextPos \in Nat /\ p \in Int
  BY <1>3, <1>7 DEF TypeOK, BufferTypeOK
<1>11. p \notin DOMAIN frames
  BY <1>8, <1>10
<1>12. /\ DOMAIN frames' = DOMAIN frames \cup {p}
       /\ \A f \in DOMAIN frames : frames'[f] = frames[f]
       /\ frames'[p] = [decoded |-> decoded, infer_state |-> "Idle", pos |-> nextPos]
  BY <1>5, <1>11
<1>13. DecodedFrames \subseteq DecodedFrames' /\ DecodedFrames' \subseteq DecodedFrames \cup {p}
  BY <1>12 DEF DecodedFrames
<1>14. InferringFrames' = InferringFrames
  BY <1>11, <1>12, <1>13 DEF InferringFrames, DecodedFrames, IsInferring
<1>15. /\ pending' \in Seq(FrameIds) /\ Len(pending') = Len(pending) - 1
       /\ \A i \in 1 .. Len(pending') : pending'[i] = pending[i + 1] /\ i + 1 \in 1 .. Len(pending)
  BY <1>3, <1>6, <1>7
<1>16. TypeOK'
  <2>1. puller' \in [pc : PullerPcs, match : Nat]
    BY <1>2, <1>6 DEF PullerPcs
  <2>2. \A f \in DOMAIN frames' : frames'[f] \in FrameBundles
    BY <1>10, <1>12 DEF TypeOK, BufferTypeOK, FrameBundles, InferStates
  <2>3. DOMAIN frames' \subseteq FrameIds
    BY <1>7, <1>12 DEF TypeOK, BufferTypeOK
  <2>4. nextPos' \in Nat
    BY <1>5, <1>10
  <2>5. BufferTypeOK'
    <3> HIDE DEF p
    <3> QED
      BY <1>5, <2>2, <2>3, <2>4 DEF TypeOK, BufferTypeOK
  <2> QED
    BY <1>6, <1>15, <2>1, <2>5 DEF TypeOK, controlVars
<1>17. PendingInv'
  <2>1. \A i \in 1 .. Len(pending') : Low' <= pending'[i] /\ pending'[i] < nextId'
    BY <1>6, <1>9, <1>15 DEF PendingInv
  <2>2. \A i, j \in 1 .. Len(pending') : i < j => pending'[i] < pending'[j]
    <3> SUFFICES ASSUME NEW i \in 1 .. Len(pending'), NEW j \in 1 .. Len(pending'), i < j
                 PROVE  pending'[i] < pending'[j]
      OBVIOUS
    <3>1. i + 1 < j + 1
      OBVIOUS
    <3> QED
      BY <1>15, <3>1 DEF PendingInv
  <2>3. \A i \in 1 .. Len(pending') : pending[1] < pending[i + 1]
    BY <1>7, <1>15 DEF PendingInv
  <2>4. \A i \in 1 .. Len(pending') : \A f \in DOMAIN frames' : f < pending'[i]
    BY <1>7, <1>12, <1>15, <2>3 DEF PendingInv
  <2>5. puller'.pc = "deliver" => puller'.match >= 1 /\ puller'.match <= Len(pending')
    BY <1>2, <1>3, <1>6, <1>15
  <2> QED
    BY <1>1, <1>5, <2>1, <2>2, <2>4, <2>5 DEF PendingInv
<1>18. FrameInv'
  <2>1. \A f \in DOMAIN frames' :
          /\ f < nextId'
          /\ Low' <= f \/ (pub'.pc = "release" /\ pub'.packet.id = f)
    BY <1>6, <1>8, <1>9, <1>12 DEF FrameInv
  <2>2. \A f \in DOMAIN frames' : frames'[f].pos < nextPos'
    BY <1>5, <1>10, <1>12 DEF FrameInv, TypeOK, BufferTypeOK, FrameBundles
  <2>3. OrderFollowsIds'
    BY <1>8, <1>10, <1>12 DEF FrameInv, OrderFollowsIds
  <2>4. IdleFramesNewest'
    BY <1>8, <1>10, <1>12, <1>13 DEF FrameInv, IdleFramesNewest, DecodedFrames
  <2> QED
    BY <2>1, <2>2, <2>3, <2>4 DEF FrameInv
<1>19. InferenceInv'
  BY <1>6, <1>14 DEF InferenceInv, UsingFrame
<1>20. WindowInv'
  BY <1>5, <1>6, <1>12, <1>13, <1>14 DEF WindowInv, PassedGates
<1> QED
  BY <1>5, <1>6, <1>16, <1>17, <1>18, <1>19, <1>20, QueueFrame, HandFrame

(* The other steps of the puller at most forget pending entries. *)
LEMMA PullerIdleStep == 
    IndInv /\ (OpenSource \/ StreamReady \/ DecodeDone \/ Reconnect \/ PullerGivesUp \/ PullerExit)
        => IndInv'
<1> SUFFICES ASSUME IndInv,
                    OpenSource \/ StreamReady \/ DecodeDone \/ Reconnect \/ PullerGivesUp \/ PullerExit
             PROVE  IndInv'
  OBVIOUS
<1> USE DEF IndInv
<1>1. UNCHANGED <<packets, videoCount, frames, nextPos, cached, stopped, nextId, audioRead,
                  worker, entry, pub, controlVars>>
  BY DEF OpenSource, StreamReady, DecodeDone, Reconnect, PullerGivesUp, PullerExit, bufferVars
<1>2. pending' = pending \/ pending' = <<>>
  BY DEF OpenSource, StreamReady, DecodeDone, Reconnect, PullerGivesUp, PullerExit
<1>3. puller' \in [pc : PullerPcs, match : Nat] /\ puller'.pc # "deliver"
  BY DEF OpenSource, StreamReady, DecodeDone, Reconnect, PullerGivesUp, PullerExit, PullerReading, TypeOK, PullerPcs
<1>4. stopped' => puller'.pc = "exited"
  BY <1>1 DEF OpenSource, StreamReady, DecodeDone, Reconnect, PullerGivesUp, PullerExit, PullerReading, PendingInv, TypeOK
<1>5. reconnects' \in 0 .. MaxReconnects
  BY PipelineAssumption DEF OpenSource, StreamReady, DecodeDone, Reconnect, PullerGivesUp, PullerExit, TypeOK
<1>6. TypeOK'
  <2>1. BufferTypeOK'
    BY <1>1 DEF TypeOK, BufferTypeOK
  <2>2. pending' \in Seq(FrameIds)
    <3>1. CASE pending' = pending
      BY <3>1 DEF TypeOK
    <3>2. CASE pending' = <<>>
      <4>1. <<>> \in Seq(FrameIds)
        OBVIOUS
      <4> QED
        BY <3>2, <4>1
    <3> QED
      BY <1>2, <3>1, <3>2
  <2> QED
    BY <1>1, <1>3, <1>5, <2>1, <2>2 DEF TypeOK, controlVars
<1>7. PendingInv'
  BY <1>1, <1>2, <1>3, <1>4 DEF PendingInv, Low
<1> QED
  BY <1>1, <1>6, <1>7, QueueFrame, HandFrame, FrameFrame, InferenceFrame, WindowFrame
-----------------------------------------------------------------------------
(* The inference threads. *)

(* Setting the state of a frame that is not Idle disturbs no order. *)
LEMMA SetInferStateFacts ==
    ASSUME IndInv, NEW id, NEW st \in InferStates \ {"Idle"}, SetInferState(id, st),
           UNCHANGED <<nextId, pub>>,
           id \in DOMAIN frames => frames[id].infer_state # "Idle"
    PROVE  /\ BufferTypeOK'
           /\ FrameInv'
           /\ DOMAIN frames' = DOMAIN frames
           /\ DecodedFrames' = DecodedFrames
           /\ \A f \in DOMAIN frames : f # id => frames'[f] = frames[f]
           /\ id \in DOMAIN frames => frames'[id].infer_state = st
<1> USE DEF IndInv
<1>1. /\ frames' = [f \in DOMAIN frames |->
                      IF f = id THEN [frames[f] EXCEPT !.infer_state = st] ELSE frames[f]]
      /\ UNCHANGED <<packets, videoCount, nextPos, cached, stopped>>
  BY DEF SetInferState
<1>2. \A f \in DOMAIN frames : frames[f] \in FrameBundles
  BY DEF TypeOK, BufferTypeOK
<1>3. /\ DOMAIN frames' = DOMAIN frames
      /\ \A f \in DOMAIN frames :
            /\ frames'[f] \in FrameBundles
            /\ frames'[f].pos = frames[f].pos
            /\ frames'[f].decoded = frames[f].decoded
            /\ f # id => frames'[f] = frames[f]
            /\ f = id => frames'[f].infer_state = st
  BY <1>1, <1>2 DEF FrameBundles
<1>4. BufferTypeOK'
  BY <1>1, <1>3 DEF TypeOK, BufferTypeOK
<1>5. DecodedFrames' = DecodedFrames
  BY <1>3 DEF DecodedFrames
<1>6. FrameInv'
  <2>1. OrderFollowsIds'
    BY <1>3 DEF OrderFollowsIds, FrameInv
  <2>2. IdleFramesNewest'
    <3> SUFFICES ASSUME NEW f \in DecodedFrames, NEW g \in DecodedFrames, f < g,
                        frames'[f].infer_state = "Idle"
                 PROVE  frames'[g].infer_state = "Idle"
      BY <1>5 DEF IdleFramesNewest
    <3>1. f \in DOMAIN frames /\ g \in DOMAIN frames
      BY DEF DecodedFrames
    <3>2. frames[f].infer_state = "Idle"
      BY <1>3, <3>1
    <3>3. frames[g].infer_state = "Idle"
      BY <3>2 DEF FrameInv, IdleFramesNewest
    <3> QED
      BY <1>3, <3>1, <3>3
  <2> QED
    BY <1>1, <1>3, <2>1, <2>2 DEF FrameInv, Low
<1> QED
  BY <1>3, <1>4, <1>5, <1>6

(* The rest of the buffer and the other threads stay as they are. *)
OnlyFramesAndWorker ==
    UNCHANGED <<packets, videoCount, nextPos, cached, stopped, pullerVars, pub, controlVars>>

(* A step of an inference thread keeps the types of what it leaves alone. *)
LEMMA WorkerType ==
    ASSUME TypeOK, BufferTypeOK', OnlyFramesAndWorker,
           worker' \in [Workers -> [pc : WorkerPcs, frame : FrameIds \cup {NoFrame},
                                    result : FrameIds \cup {NoFrame}]],
           entry' \in [registered : BOOLEAN, inflight : BOOLEAN]
    PROVE  TypeOK'
BY DEF TypeOK, OnlyFramesAndWorker, pullerVars, controlVars

(* selectFrameForInference leaves one frame in inference, and never the frame of
   the packet being published. *)
LEMMA AcquireTaskStep == ASSUME NEW w \in Workers PROVE IndInv /\ AcquireTask(w) => IndInv'
<1> SUFFICES ASSUME IndInv, AcquireTask(w) PROVE IndInv'
  OBVIOUS
<1> USE DEF IndInv
<1>1. PICK id \in IdleDecoded :
         /\ SelectFrameForInference(id)
         /\ worker' = [worker EXCEPT ![w] = [pc |-> "selected", frame |-> id, result |-> NoFrame]]
  BY DEF AcquireTask
<1>2. /\ frames' = [f \in DOMAIN frames |->
                     IF f = id THEN [frames[f] EXCEPT !.infer_state = "Selected"]
                     ELSE IF IsInferenceTerminal(frames[f].infer_state) THEN frames[f]
                     ELSE [frames[f] EXCEPT !.infer_state = "Done"]]
      /\ \A g \in IdleDecoded : frames[g].pos <= frames[id].pos
  BY <1>1 DEF SelectFrameForInference, Selectable
<1>3. OnlyFramesAndWorker /\ entry' = [entry EXCEPT !.inflight = TRUE]
  BY <1>1 DEF AcquireTask, SelectFrameForInference, OnlyFramesAndWorker
<1>4. UNCHANGED <<packets, videoCount, nextPos, cached, stopped, puller, pending, nextId, pub>>
  BY <1>3 DEF OnlyFramesAndWorker, pullerVars
<1>5. /\ DOMAIN frames \subseteq FrameIds /\ FrameIds \subseteq Int
      /\ \A f \in DOMAIN frames : frames[f] \in FrameBundles
  BY BufferAssumption DEF TypeOK, BufferTypeOK, FrameIds
<1>6. id \in DOMAIN frames /\ frames[id].decoded /\ frames[id].infer_state = "Idle"
  BY DEF IdleDecoded, DecodedFrames
<1>7. /\ DOMAIN frames' = DOMAIN frames
      /\ \A f \in DOMAIN frames :
            /\ frames'[f] \in FrameBundles
            /\ frames'[f].pos = frames[f].pos
            /\ frames'[f].decoded = frames[f].decoded
            /\ f # id => frames'[f].infer_state \in {"Done", "Dropped"}
      /\ frames'[id].infer_state = "Selected"
  BY <1>2, <1>5, <1>6 DEF FrameBundles, InferStates, IsInferenceTerminal
<1>8. DecodedFrames' = DecodedFrames
  BY <1>7 DEF DecodedFrames
<1>9. InferringFrames' = {id}
  BY <1>6, <1>7, <1>8 DEF InferringFrames, DecodedFrames, IsInferring
<1>10. TypeOK'
  <2>1. BufferTypeOK'
    BY <1>4, <1>7 DEF TypeOK, BufferTypeOK
  <2>2. id \in FrameIds
    BY <1>5, <1>6
  <2>3. worker' \in [Workers -> [pc : WorkerPcs, frame : FrameIds \cup {NoFrame},
                                 result : FrameIds \cup {NoFrame}]]
    BY <1>1, <2>2 DEF TypeOK, WorkerPcs
  <2>4. entry' \in [registered : BOOLEAN, inflight : BOOLEAN]
    BY <1>3 DEF TypeOK
  <2> QED
    BY <1>3, <2>1, <2>3, <2>4, WorkerType
<1>11. PendingInv'
  BY <1>4, <1>7, PendingFrame
<1>12. FrameInv'
  <2>1. OrderFollowsIds'
    BY <1>7 DEF FrameInv, OrderFollowsIds
  <2>2. IdleFramesNewest'
    BY <1>7, <1>8 DEF IdleFramesNewest, DecodedFrames
  <2> QED
    BY <1>4, <1>7, <2>1, <2>2 DEF FrameInv, Low
<1>13. InferenceInv'
  <2>1. \A v \in Workers : v # w => worker'[v] = worker[v] /\ worker[v].pc = "idle"
    BY <1>1 DEF AcquireTask, InferenceInv, TypeOK
  <2>2. worker'[w].frame = id /\ worker'[w].pc = "selected"
    BY <1>1 DEF TypeOK
  <2>3. entry'.inflight = TRUE
    BY <1>3 DEF TypeOK
  <2>4. \A v, u \in Workers : worker'[v].pc # "idle" /\ worker'[u].pc # "idle" => v = u
    BY <2>1
  <2>5. \A v \in Workers : UsingFrame(v)' => worker'[v].frame \in InferringFrames'
    BY <1>9, <2>1, <2>2 DEF UsingFrame
  <2>6. \A f, g \in InferringFrames' : f = g
    BY <1>9
  <2>7. \A v \in Workers : worker'[v].pc # "done"
    BY <2>1, <2>2
  <2> QED
    BY <2>3, <2>4, <2>5, <2>6, <2>7 DEF InferenceInv
<1>14. WindowInv'
  <2> SUFFICES ASSUME NEW h \in FrameIds, PassedGates(h)
               PROVE  /\ h \in DOMAIN frames
                      /\ h # id
                      /\ frames[h].decoded => \E g \in DecodedFrames : g > h
                      /\ IF pub.pc = "release" THEN videoCount >= Watermark ELSE videoCount > Watermark
    BY <1>4, <1>7, <1>8, <1>9 DEF WindowInv, PassedGates
  <2>1. /\ h \in DOMAIN frames
        /\ frames[h].decoded => \E g \in DecodedFrames : g > h
        /\ IF pub.pc = "release" THEN videoCount >= Watermark ELSE videoCount > Watermark
    BY DEF WindowInv
  <2>2. h # id
    <3> SUFFICES ASSUME h = id PROVE FALSE
      OBVIOUS
    <3>1. PICK g \in DecodedFrames : g > id
      BY <2>1, <1>6
    <3>2. id \in DecodedFrames /\ g \in DOMAIN frames
      BY <1>6 DEF DecodedFrames
    <3>3. id < g
      BY <1>5, <1>6, <3>1, <3>2
    <3>4. g \in IdleDecoded
      BY <1>6, <3>2, <3>3 DEF FrameInv, IdleFramesNewest, IdleDecoded
    <3>5. frames[id].pos < frames[g].pos /\ frames[g].pos <= frames[id].pos
      BY <1>2, <1>6, <3>2, <3>3, <3>4 DEF FrameInv, OrderFollowsIds
    <3> QED
      BY <1>5, <1>6, <3>2, <3>5 DEF FrameBundles
  <2> QED
    BY <2>1, <2>2
<1> QED
  BY <1>4, <1>10, <1>11, <1>12, <1>13, <1>14, QueueFrame, HandFrame

(* The steps that set the state of the worker's frame. *)
LEMMA WorkerMarkStep ==
    ASSUME NEW w \in Workers
    PROVE  IndInv /\ (WorkerMarkRunning(w) \/ WorkerMarkDone(w) \/ WorkerDrop(w)) => IndInv'
<1> SUFFICES ASSUME IndInv, WorkerMarkRunning(w) \/ WorkerMarkDone(w) \/ WorkerDrop(w)
             PROVE  IndInv'
  OBVIOUS
<1> USE DEF IndInv
<1>1. PICK id \in {worker[w].frame, NoFrame}, st \in {"Running", "Done", "Dropped"},
           pc \in {"running", "cache", "cancel"} :
         /\ SetInferState(id, st)
         /\ worker' = [worker EXCEPT ![w].pc = pc]
         /\ pc = "running" => st = "Running" /\ id = worker[w].frame
         /\ st = "Running" => id = worker[w].frame
  <2>1. CASE WorkerMarkRunning(w)
    BY <2>1 DEF WorkerMarkRunning, MarkInferenceRunning, WorkerGoto
  <2>2. CASE WorkerMarkDone(w)
    BY <2>2 DEF WorkerMarkDone, MarkInferenceDone, WorkerGoto, InferenceInv
  <2>3. CASE WorkerDrop(w)
    BY <2>3 DEF WorkerDrop, ClearInferenceSelection, WorkerGoto
  <2> QED
    BY <2>1, <2>2, <2>3
<1>2. OnlyFramesAndWorker /\ UNCHANGED entry /\ UsingFrame(w)
  BY <1>1 DEF WorkerMarkRunning, WorkerMarkDone, WorkerDrop, SetInferState, OnlyFramesAndWorker,
     UsingFrame
<1>3. UNCHANGED <<packets, videoCount, nextPos, cached, stopped, puller, pending, nextId, pub>>
  BY <1>2 DEF OnlyFramesAndWorker, pullerVars
<1>4. worker[w].frame \in InferringFrames /\ NoFrame \notin DOMAIN frames
  BY <1>2, BufferAssumption DEF InferenceInv, TypeOK, BufferTypeOK, FrameIds, NoFrame
<1>5. id \in DOMAIN frames => id \in InferringFrames /\ frames[id].infer_state # "Idle"
  BY <1>1, <1>4 DEF InferringFrames, IsInferring
<1>6. st \in InferStates \ {"Idle"}
  BY <1>1 DEF InferStates
<1>7. /\ BufferTypeOK'
      /\ FrameInv'
      /\ DOMAIN frames' = DOMAIN frames
      /\ DecodedFrames' = DecodedFrames
      /\ \A f \in DOMAIN frames : f # id => frames'[f] = frames[f]
      /\ id \in DOMAIN frames => frames'[id].infer_state = st
  BY <1>1, <1>3, <1>5, <1>6, SetInferStateFacts
<1>8. InferringFrames' \subseteq InferringFrames
  <2> SUFFICES ASSUME NEW f \in InferringFrames' PROVE f \in InferringFrames
    OBVIOUS
  <2>1. f \in DecodedFrames /\ f \in DOMAIN frames /\ IsInferring(frames'[f].infer_state)
    BY <1>7 DEF InferringFrames, DecodedFrames
  <2> QED
    BY <1>5, <1>7, <2>1 DEF InferringFrames
<1>9. st = "Running" => InferringFrames' = InferringFrames
  <2> SUFFICES ASSUME st = "Running", NEW f \in InferringFrames PROVE f \in InferringFrames'
    BY <1>8
  <2>1. f \in DecodedFrames /\ f \in DOMAIN frames /\ IsInferring(frames[f].infer_state)
    BY DEF InferringFrames, DecodedFrames
  <2>2. IsInferring(frames'[f].infer_state)
    BY <1>7, <2>1 DEF IsInferring
  <2> QED
    BY <1>7, <2>1, <2>2 DEF InferringFrames
<1>10. TypeOK'
  <2>1. worker' \in [Workers -> [pc : WorkerPcs, frame : FrameIds \cup {NoFrame},
                                 result : FrameIds \cup {NoFrame}]]
    BY <1>1 DEF TypeOK, WorkerPcs
  <2>2. entry' \in [registered : BOOLEAN, inflight : BOOLEAN]
    BY <1>2 DEF TypeOK
  <2> QED
    BY <1>2, <1>7, <2>1, <2>2, WorkerType
<1>11. PendingInv'
  BY <1>3, <1>7, PendingFrame
<1>12. InferenceInv'
  <2>1. worker[w].pc # "idle"
    BY <1>2 DEF UsingFrame
  <2>2. \A v \in Workers : v # w => worker'[v] = worker[v] /\ worker[v].pc = "idle"
    BY <1>1, <2>1 DEF InferenceInv, TypeOK
  <2>3. worker'[w].frame = worker[w].frame /\ worker'[w].pc = pc
    BY <1>1 DEF TypeOK
  <2>4. UsingFrame(w)' => worker'[w].frame \in InferringFrames'
    BY <1>1, <1>4, <1>9, <2>3 DEF UsingFrame
  <2>5. ~(entry.registered /\ ~entry.inflight)
    BY <2>1 DEF InferenceInv
  <2>6. \A f, g \in InferringFrames' : f = g
    BY <1>8 DEF InferenceInv
  <2>7. \A v \in Workers : UsingFrame(v)' => v = w
    BY <2>2 DEF UsingFrame
  <2> QED
    BY <1>1, <1>2, <2>2, <2>3, <2>4, <2>5, <2>6, <2>7 DEF InferenceInv
<1>13. WindowInv'
  <2> SUFFICES ASSUME NEW h \in FrameIds, PassedGates(h)
               PROVE  /\ h \in DOMAIN frames
                      /\ h \notin InferringFrames'
                      /\ frames'[h].decoded => \E g \in DecodedFrames : g > h
                      /\ IF pub.pc = "release" THEN videoCount >= Watermark ELSE videoCount > Watermark
    BY <1>3, <1>7 DEF WindowInv, PassedGates
  <2>1. h \in DOMAIN frames /\ h \notin InferringFrames
    BY DEF WindowInv
  <2>2. frames'[h].decoded => frames[h].decoded
    BY <1>7, <2>1 DEF DecodedFrames
  <2> QED
    BY <1>8, <2>1, <2>2 DEF WindowInv
<1> QED
  BY <1>3, <1>7, <1>10, <1>11, <1>12, <1>13, QueueFrame, HandFrame

(* The steps of a worker that leave the frames alone. *)
LEMMA WorkerOtherStep ==
    ASSUME NEW w \in Workers
    PROVE  IndInv /\ (CheckStream(w) \/ Detect(w) \/ DetectorGone(w) \/ WorkerUpdateCached(w) \/ EndTask(w))
              => IndInv'
<1> SUFFICES ASSUME IndInv,
                    CheckStream(w) \/ Detect(w) \/ DetectorGone(w) \/ WorkerUpdateCached(w) \/ EndTask(w)
             PROVE  IndInv'
  OBVIOUS
<1> USE DEF IndInv
<1>1. UNCHANGED <<packets, videoCount, frames, nextPos, stopped, pullerVars, pub, controlVars>>
  BY DEF CheckStream, Detect, DetectorGone, WorkerUpdateCached, EndTask, UpdateCachedInferenceResult, bufferVars
<1>2. UNCHANGED <<puller, pending, nextId, audioRead, reconnects, stopper, pullerStop, detector>>
  BY <1>1 DEF pullerVars, controlVars
<1>3. worker[w].pc # "idle"
  BY DEF CheckStream, Detect, DetectorGone, WorkerUpdateCached, EndTask
<1>4. /\ worker' \in [Workers -> [pc : WorkerPcs, frame : FrameIds \cup {NoFrame},
                                   result : FrameIds \cup {NoFrame}]]
      /\ \A v \in Workers : v # w => worker'[v] = worker[v]
      /\ UsingFrame(w)' => UsingFrame(w) /\ worker'[w].frame = worker[w].frame
      /\ worker'[w].pc = "done" => worker'[w].result \in {worker'[w].frame, NoFrame}
  <2>1. worker[w] \in [pc : WorkerPcs, frame : FrameIds \cup {NoFrame}, result : FrameIds \cup {NoFrame}]
    BY DEF TypeOK
  <2>2. CASE CheckStream(w)
    BY <2>1, <2>2 DEF CheckStream, WorkerGoto, TypeOK, WorkerPcs, UsingFrame
  <2>3. CASE Detect(w)
    <3>1. PICK result \in {worker[w].frame, NoFrame} :
             worker' = [worker EXCEPT ![w].pc = "done", ![w].result = result]
      BY <2>3 DEF Detect
    <3>2. result \in FrameIds \cup {NoFrame}
      BY <2>1, <3>1
    <3>3. /\ worker'[w].pc = "done" /\ worker'[w].frame = worker[w].frame /\ worker'[w].result = result
          /\ \A v \in Workers : v # w => worker'[v] = worker[v]
      BY <2>1, <3>1 DEF TypeOK
    <3>4. worker' \in [Workers -> [pc : WorkerPcs, frame : FrameIds \cup {NoFrame},
                                   result : FrameIds \cup {NoFrame}]]
      <4>1. [worker[w] EXCEPT !.pc = "done", !.result = result]
               \in [pc : WorkerPcs, frame : FrameIds \cup {NoFrame}, result : FrameIds \cup {NoFrame}]
        BY <2>1, <3>2 DEF WorkerPcs
      <4>2. worker' = [worker EXCEPT ![w] = [worker[w] EXCEPT !.pc = "done", !.result = result]]
        BY <3>1
      <4> QED
        BY <4>1, <4>2 DEF TypeOK
    <3>5. UsingFrame(w)
      BY <2>3 DEF Detect, UsingFrame
    <3> QED
      BY <3>1, <3>3, <3>4, <3>5
  <2>4. CASE DetectorGone(w)
    BY <2>1, <2>4 DEF DetectorGone, WorkerGoto, TypeOK, WorkerPcs, UsingFrame
  <2>5. CASE WorkerUpdateCached(w)
    BY <2>1, <2>5 DEF WorkerUpdateCached, WorkerGoto, TypeOK, WorkerPcs, UsingFrame
  <2>6. CASE EndTask(w)
    BY <2>1, <2>6 DEF EndTask, WorkerReset, TypeOK, WorkerPcs, UsingFrame
  <2> QED
    BY <2>2, <2>3, <2>4, <2>5, <2>6
<1>5. /\ entry' \in [registered : BOOLEAN, inflight : BOOLEAN]
      /\ UNCHANGED entry \/ worker'[w].pc = "idle"
  <2>1. CASE EndTask(w)
    BY <2>1 DEF EndTask, WorkerReset, TypeOK
  <2>2. CASE ~EndTask(w)
    BY <2>2 DEF CheckStream, Detect, DetectorGone, WorkerUpdateCached, TypeOK
  <2> QED
    BY <2>1, <2>2
<1>6. cached' \subseteq FrameIds
  <2>1. CASE WorkerUpdateCached(w)
    <3>1. worker[w].result \in FrameIds \cup {NoFrame}
      BY DEF TypeOK
    <3>2. CASE worker[w].result < 0
      BY <2>1, <3>2 DEF WorkerUpdateCached, UpdateCachedInferenceResult, TypeOK, BufferTypeOK
    <3>3. CASE ~(worker[w].result < 0)
      BY <2>1, <3>1, <3>3 DEF WorkerUpdateCached, UpdateCachedInferenceResult, TypeOK, BufferTypeOK, NoFrame
    <3> QED
      BY <3>2, <3>3
  <2>2. CASE ~WorkerUpdateCached(w)
    BY <2>2 DEF CheckStream, Detect, DetectorGone, EndTask, bufferVars, TypeOK, BufferTypeOK
  <2> QED
    BY <2>1, <2>2
<1>7. TypeOK'
  <2>1. BufferTypeOK'
    BY <1>1, <1>6 DEF TypeOK, BufferTypeOK
  <2> QED
    BY <1>1, <1>2, <1>4, <1>5, <2>1 DEF TypeOK
<1>8. InferenceInv'
  <2>1. InferringFrames' = InferringFrames
    BY <1>1 DEF InferringFrames, DecodedFrames
  <2>2. \A v \in Workers : v # w => worker'[v].pc = "idle"
    BY <1>3, <1>4 DEF InferenceInv
  <2>3. ~(entry.registered /\ ~entry.inflight)
    BY <1>3 DEF InferenceInv
  <2>4. \A v \in Workers : UsingFrame(v)' => v = w
    BY <2>2 DEF UsingFrame
  <2> QED
    BY <1>4, <1>5, <2>1, <2>2, <2>3, <2>4 DEF InferenceInv
<1> QED
  BY <1>1, <1>2, <1>7, <1>8, QueueFrame, HandFrame, PendingFrame, FrameFrame, WindowFrame
-----------------------------------------------------------------------------
(* The publish thread. *)

(* canPublishLocked establishes the facts about the packet at the head. *)
LEMMA WaitForPublishableStep == IndInv /\ WaitForPublishable => IndInv'
<1> SUFFICES ASSUME IndInv, WaitForPublishable PROVE IndInv'
  OBVIOUS
<1> USE DEF IndInv
<1>1. /\ pub.pc = "wait" /\ CanPublish /\ packets # <<>>
      /\ pub' = [pub EXCEPT !.pc = "peek"]
      /\ UNCHANGED <<packets, videoCount, frames, nextPos, cached, stopped, puller, pending, nextId,
                     audioRead, reconnects, worker, entry, stopper, pullerStop, detector>>
  BY DEF WaitForPublishable, CanPublish, bufferVars, pullerVars, controlVars
<1>2. pub'.pc = "peek" /\ pub' \in [pc : PubPcs, packet : Packets]
  BY <1>1 DEF TypeOK, PubPcs
<1>3. TypeOK'
  BY <1>1, <1>2 DEF TypeOK, BufferTypeOK
<1>4. HandInv'
  BY <1>1, <1>2 DEF HandInv
<1>5. FrameInv'
  BY <1>1, <1>2 DEF FrameInv, Low, OrderFollowsIds, IdleFramesNewest, DecodedFrames
<1>6. WindowInv'
  <2> SUFFICES ASSUME NEW h \in FrameIds, Head(packets) = VideoPacket(h)
               PROVE  /\ h \in DOMAIN frames
                      /\ h \notin InferringFrames
                      /\ frames[h].decoded => \E g \in DecodedFrames : g > h
                      /\ videoCount > Watermark
    BY <1>1, <1>2 DEF WindowInv, PassedGates, InferringFrames, DecodedFrames
  <2>1. Head(packets).media = "Video" /\ Head(packets).id = h
    BY DEF VideoPacket
  <2>2. h = Low /\ videoCount > 0
    BY <1>1, <2>1, HeadIsLow
  <2>3. InferenceGate(Head(packets)) /\ FrameGate(Head(packets)) /\ videoCount > Watermark
    BY <1>1, <2>1, <2>2, PipelineAssumption DEF CanPublish
  <2>4. h \in Nat
    BY BufferAssumption DEF FrameIds
  <2>5. h \in DOMAIN frames
    BY <2>1, <2>3, <2>4 DEF FrameGate
  <2>6. h \notin InferringFrames
    <3> SUFFICES ASSUME h \in InferringFrames PROVE FALSE
      OBVIOUS
    <3>1. FirstInferring(h)
      <4>1. frames[h].pos \in Nat
        BY <2>5 DEF TypeOK, BufferTypeOK, FrameBundles
      <4> QED
        BY <4>1 DEF FirstInferring, InferenceInv
    <3> QED
      BY <2>1, <2>3, <2>4, <3>1 DEF InferenceGate
  <2>7. frames[h].decoded => \E g \in DecodedFrames : g > h
    <3> SUFFICES ASSUME frames[h].decoded PROVE \E g \in DecodedFrames : g > h
      OBVIOUS
    <3>1. PICK g \in DecodedFrames : g # h
      BY <2>1, <2>3, <2>4 DEF FrameGate
    <3>2. g \in DOMAIN frames /\ g \in Int
      BY BufferAssumption DEF DecodedFrames, TypeOK, BufferTypeOK, FrameIds
    <3>3. h <= g
      BY <1>1, <2>2, <3>2 DEF FrameInv
    <3> QED
      BY <2>4, <3>1, <3>2, <3>3
  <2> QED
    BY <2>3, <2>5, <2>6, <2>7
<1> QED
  BY <1>1, <1>3, <1>4, <1>5, <1>6, QueueFrame, PendingFrame, InferenceFrame

(* peekPacket takes the packet that passed the gates into the hand. *)
LEMMA PeekPacketStep == IndInv /\ PeekPacket => IndInv'
<1> SUFFICES ASSUME IndInv, PeekPacket PROVE IndInv'
  OBVIOUS
<1> USE DEF IndInv
<1>1. /\ pub.pc = "peek" /\ packets # <<>>
      /\ pub' = [pc |-> IF Head(packets).media = "Video" THEN "take" ELSE "pop", packet |-> Head(packets)]
      /\ UNCHANGED <<packets, videoCount, frames, nextPos, cached, stopped, puller, pending, nextId,
                     audioRead, reconnects, worker, entry, stopper, pullerStop, detector>>
  BY DEF PeekPacket, bufferVars, pullerVars, controlVars
<1>2. Head(packets) \in Packets
  BY <1>1 DEF TypeOK, BufferTypeOK
<1>3. TypeOK'
  <2>1. pub' \in [pc : PubPcs, packet : Packets]
    BY <1>1, <1>2 DEF PubPcs
  <2> QED
    BY <1>1, <2>1 DEF TypeOK, BufferTypeOK
<1>4. HandInv'
  BY <1>1 DEF HandInv
<1>5. FrameInv'
  BY <1>1 DEF FrameInv, Low, OrderFollowsIds, IdleFramesNewest, DecodedFrames
<1>6. WindowInv'
  BY <1>1 DEF WindowInv, PassedGates, InferringFrames, DecodedFrames
<1> QED
  BY <1>1, <1>3, <1>4, <1>5, <1>6, QueueFrame, PendingFrame, InferenceFrame

(* Taking a cached result changes neither packets nor frames. *)
LEMMA TakeResultStep == IndInv /\ TakeResult => IndInv'
<1> SUFFICES ASSUME IndInv, TakeResult PROVE IndInv'
  OBVIOUS
<1> USE DEF IndInv
<1>1. /\ pub.pc = "take" /\ pub' = [pub EXCEPT !.pc = "pop"]
      /\ UNCHANGED <<packets, videoCount, frames, nextPos, stopped, puller, pending, nextId,
                     audioRead, reconnects, worker, entry, stopper, pullerStop, detector>>
  BY DEF TakeResult, TakeCachedInferenceResult, pullerVars, controlVars
<1>2. cached' \subseteq cached
  BY DEF TakeResult, TakeCachedInferenceResult
<1>3. pub'.pc = "pop" /\ pub'.packet = pub.packet /\ pub' \in [pc : PubPcs, packet : Packets]
  BY <1>1 DEF TypeOK, PubPcs
<1>4. TypeOK'
  <2>1. BufferTypeOK'
    BY <1>1, <1>2 DEF TypeOK, BufferTypeOK
  <2> QED
    BY <1>1, <1>3, <2>1 DEF TypeOK
<1>5. HandInv'
  BY <1>1, <1>3 DEF HandInv
<1>6. FrameInv'
  BY <1>1, <1>3 DEF FrameInv, Low, OrderFollowsIds, IdleFramesNewest, DecodedFrames
<1>7. WindowInv'
  BY <1>1, <1>3 DEF WindowInv, PassedGates, InferringFrames, DecodedFrames
<1> QED
  BY <1>1, <1>4, <1>5, <1>6, <1>7, QueueFrame, PendingFrame, InferenceFrame

(* popPacket removes the packet in the hand and leaves the watermark. *)
LEMMA PublisherPopStep == IndInv /\ PublisherPop => IndInv'
<1> SUFFICES ASSUME IndInv, PublisherPop PROVE IndInv'
  OBVIOUS
<1> USE DEF IndInv
<1>1. pub.pc = "pop" /\ packets # <<>> /\ pub.packet = Head(packets)
  BY DEF PublisherPop, HandInv
<1>2. /\ packets' = Tail(packets)
      /\ videoCount' = IF Head(packets).media = "Video" /\ videoCount > 0
                       THEN videoCount - 1 ELSE videoCount
      /\ UNCHANGED <<frames, nextPos, cached, stopped, puller, pending, nextId,
                     audioRead, reconnects, worker, entry, stopper, pullerStop, detector>>
  BY <1>1 DEF PublisherPop, PopPacket, pullerVars, controlVars
<1>3. packets \in Seq(Packets) /\ videoCount \in Nat /\ nextId \in Nat /\ FrameIds \subseteq Nat
      /\ DOMAIN frames \subseteq FrameIds /\ pending \in Seq(FrameIds)
  BY BufferAssumption DEF TypeOK, BufferTypeOK, FrameIds
<1>4. /\ packets' \in Seq(Packets) /\ Len(packets') = Len(packets) - 1 /\ Len(packets) \in Nat
      /\ \A i \in 1 .. Len(packets') : packets'[i] = packets[i + 1] /\ i + 1 \in 1 .. Len(packets)
      /\ packets[1] = Head(packets)
  BY <1>1, <1>2, <1>3
<1>5. CASE Head(packets).media = "Video"
  <2> DEFINE h == Low
  <2>1. Head(packets) = VideoPacket(h) /\ h \in FrameIds /\ h \in Nat /\ videoCount > 0
    BY <1>1, <1>3, <1>5, HeadIsLow
  <2>2. videoCount' = videoCount - 1 /\ Low' = h + 1
    BY <1>2, <1>3, <1>5, <2>1 DEF Low
  <2>3. pub' = [pub EXCEPT !.pc = "release"]
    BY <1>1, <1>5, <2>1 DEF PublisherPop, VideoPacket
  <2>4. /\ pub'.pc = "release" /\ pub'.packet = pub.packet
        /\ pub'.packet.id = h /\ pub'.packet.media = "Video"
        /\ pub' \in [pc : PubPcs, packet : Packets]
    BY <1>1, <2>1, <2>3 DEF TypeOK, PubPcs, VideoPacket
  <2>5. PassedGates(h)
    BY <1>1, <2>1 DEF PassedGates
  <2>6. h \in DOMAIN frames /\ videoCount > Watermark
    BY <1>1, <2>1, <2>5 DEF WindowInv
  <2> HIDE DEF h
  <2>7. TypeOK'
    <3>1. BufferTypeOK'
      BY <1>2, <1>3, <1>4, <2>1, <2>2 DEF TypeOK, BufferTypeOK
    <3> QED
      BY <1>2, <2>4, <3>1 DEF TypeOK
  <2>8. QueueInv'
    <3>1. videoCount' <= nextId'
      BY <1>2, <1>3, <2>2 DEF QueueInv
    <3>2. \A i \in 1 .. Len(packets') : packets'[i].media = "Video"
             => h + 1 <= packets'[i].id /\ packets'[i].id < nextId
      <4> SUFFICES ASSUME NEW i \in 1 .. Len(packets'), packets'[i].media = "Video"
                   PROVE  h + 1 <= packets'[i].id /\ packets'[i].id < nextId
        OBVIOUS
      <4>1. packets'[i] = packets[i + 1] /\ i + 1 \in 1 .. Len(packets) /\ 1 < i + 1
            /\ 1 \in 1 .. Len(packets)
        BY <1>4
      <4>2. packets[1].id < packets[i + 1].id /\ packets[i + 1].id < nextId
        BY <1>4, <1>5, <4>1 DEF QueueInv
      <4>3. packets[1].id = h
        BY <1>4, <2>1 DEF VideoPacket
      <4>4. packets'[i].id \in Int
        <5>1. packets'[i] \in Packets
          BY <1>4
        <5> QED
          BY <1>3, <5>1 DEF Packets, VideoPacket, AudioPacket
      <4> QED
        BY <2>1, <4>1, <4>2, <4>3, <4>4
    <3>3. \A i, j \in 1 .. Len(packets') :
             i < j /\ packets'[i].media = "Video" /\ packets'[j].media = "Video"
                => packets'[i].id < packets'[j].id
      <4> SUFFICES ASSUME NEW i \in 1 .. Len(packets'), NEW j \in 1 .. Len(packets'), i < j,
                          packets'[i].media = "Video", packets'[j].media = "Video"
                   PROVE  packets'[i].id < packets'[j].id
        OBVIOUS
      <4>1. i + 1 < j + 1
        OBVIOUS
      <4> QED
        BY <1>4, <4>1 DEF QueueInv
    <3>4. \A id \in FrameIds : h + 1 <= id /\ id < nextId
             => \E i \in 1 .. Len(packets') : packets'[i] = VideoPacket(id)
      <4> SUFFICES ASSUME NEW id \in FrameIds, h + 1 <= id, id < nextId
                   PROVE  \E i \in 1 .. Len(packets') : packets'[i] = VideoPacket(id)
        OBVIOUS
      <4>1. h <= id /\ h # id
        BY <1>3, <2>1
      <4>2. PICK k \in 1 .. Len(packets) : packets[k] = VideoPacket(id)
        BY <4>1 DEF QueueInv, h
      <4>3. k # 1
        BY <1>4, <2>1, <4>1, <4>2 DEF VideoPacket
      <4>4. k - 1 \in 1 .. Len(packets') /\ (k - 1) + 1 = k
        BY <1>4, <4>3
      <4> QED
        BY <1>4, <4>2, <4>4
    <3> QED
      BY <1>2, <2>2, <3>1, <3>2, <3>3, <3>4 DEF QueueInv
  <2>9. HandInv'
    BY <2>1, <2>2, <2>4 DEF HandInv
  <2>10. PendingInv'
    <3>0. \A i \in 1 .. Len(pending) : pending[i] \in Int
      <4>1. \A i \in 1 .. Len(pending) : pending[i] \in FrameIds
        BY <1>3
      <4>2. FrameIds \subseteq Int
        BY BufferAssumption DEF FrameIds
      <4> QED
        BY <4>1, <4>2
    <3>1. \A i \in 1 .. Len(pending) : h < pending[i] /\ pending[i] \in Int
      BY <2>6, <3>0 DEF PendingInv
    <3>2. \A i \in 1 .. Len(pending) : h + 1 <= pending[i]
      BY <2>1, <3>1
    <3> QED
      BY <1>2, <2>2, <3>2 DEF PendingInv
  <2>11. FrameInv'
    <3>1. \A f \in DOMAIN frames : h + 1 <= f \/ f = h
      <4>1. \A f \in DOMAIN frames : h <= f /\ f \in Int
        <5>1. \A f \in DOMAIN frames : h <= f
          BY <1>1 DEF FrameInv, h
        <5>2. \A f \in DOMAIN frames : f \in Nat
          BY <1>3
        <5> QED
          BY <5>1, <5>2
      <4> QED
        BY <2>1, <4>1
    <3> QED
      BY <1>2, <2>2, <2>4, <3>1 DEF FrameInv, OrderFollowsIds, IdleFramesNewest, DecodedFrames
  <2>12. WindowInv'
    <3> SUFFICES ASSUME NEW k \in FrameIds, pub'.packet = VideoPacket(k)
                 PROVE  /\ k \in DOMAIN frames
                        /\ k \notin InferringFrames
                        /\ frames[k].decoded => \E g \in DecodedFrames : g > k
                        /\ videoCount' >= Watermark
      BY <1>2, <2>4 DEF WindowInv, PassedGates, InferringFrames, DecodedFrames
    <3>1. k = h
      BY <2>4 DEF VideoPacket
    <3>2. videoCount' >= Watermark
      BY <1>3, <2>2, <2>6, BufferAssumption
    <3> QED
      BY <2>1, <2>5, <3>1, <3>2 DEF WindowInv
  <2> QED
    BY <1>2, <2>7, <2>8, <2>9, <2>10, <2>11, <2>12, InferenceFrame
<1>6. CASE Head(packets).media # "Video"
  <2>1. videoCount' = videoCount /\ Low' = Low
    BY <1>2, <1>6 DEF Low
  <2>2. pub' = PubWaiting
    BY <1>1, <1>6 DEF PublisherPop
  <2>3. pub'.pc = "loop" /\ pub' \in [pc : PubPcs, packet : Packets]
    BY <2>2 DEF PubWaiting, PubPcs, Packets
  <2>4. TypeOK'
    <3>1. BufferTypeOK'
      BY <1>2, <1>4, <2>1 DEF TypeOK, BufferTypeOK
    <3> QED
      BY <1>2, <2>3, <3>1 DEF TypeOK
  <2>5. QueueInv'
    <3>1. \A i \in 1 .. Len(packets') : packets'[i].media = "Video"
             => Low' <= packets'[i].id /\ packets'[i].id < nextId'
      BY <1>2, <1>4, <2>1 DEF QueueInv
    <3>2. \A i, j \in 1 .. Len(packets') :
             i < j /\ packets'[i].media = "Video" /\ packets'[j].media = "Video"
                => packets'[i].id < packets'[j].id
      <4> SUFFICES ASSUME NEW i \in 1 .. Len(packets'), NEW j \in 1 .. Len(packets'), i < j,
                          packets'[i].media = "Video", packets'[j].media = "Video"
                   PROVE  packets'[i].id < packets'[j].id
        OBVIOUS
      <4>1. i + 1 < j + 1
        OBVIOUS
      <4> QED
        BY <1>4, <4>1 DEF QueueInv
    <3>3. \A id \in FrameIds : Low' <= id /\ id < nextId'
             => \E i \in 1 .. Len(packets') : packets'[i] = VideoPacket(id)
      <4> SUFFICES ASSUME NEW id \in FrameIds, Low <= id, id < nextId
                   PROVE  \E i \in 1 .. Len(packets') : packets'[i] = VideoPacket(id)
        BY <1>2, <2>1
      <4>1. PICK k \in 1 .. Len(packets) : packets[k] = VideoPacket(id)
        BY DEF QueueInv
      <4>2. k # 1
        BY <1>4, <1>6, <4>1 DEF VideoPacket
      <4>3. k - 1 \in 1 .. Len(packets') /\ (k - 1) + 1 = k
        BY <1>4, <4>2
      <4> QED
        BY <1>4, <4>1, <4>3
    <3> QED
      BY <1>2, <2>1, <3>1, <3>2, <3>3 DEF QueueInv
  <2>6. HandInv'
    BY <2>3 DEF HandInv
  <2>7. FrameInv'
    BY <1>1, <1>2, <2>1, <2>3 DEF FrameInv, OrderFollowsIds, IdleFramesNewest, DecodedFrames
  <2>8. WindowInv'
    BY <2>3 DEF WindowInv, PassedGates
  <2> QED
    BY <1>2, <2>1, <2>4, <2>5, <2>6, <2>7, <2>8, InferenceFrame, PendingFrame
<1> QED
  BY <1>5, <1>6

(* releaseFrame removes a frame that no inference thread uses. *)
LEMMA PublisherReleaseStep == IndInv /\ PublisherRelease => IndInv'
<1> SUFFICES ASSUME IndInv, PublisherRelease PROVE IndInv'
  OBVIOUS
<1> USE DEF IndInv
<1> DEFINE h == pub.packet.id
<1>1. /\ pub.pc = "release" /\ pub' = PubWaiting
      /\ frames' = [f \in DOMAIN frames \ {h} |-> frames[f]]
      /\ cached' = cached \ {h}
      /\ UNCHANGED <<packets, videoCount, nextPos, stopped, puller, pending, nextId,
                     audioRead, reconnects, worker, entry, stopper, pullerStop, detector>>
  BY DEF PublisherRelease, ReleaseFrame, pullerVars, controlVars
<1>2. pub.packet = VideoPacket(h) /\ h \in FrameIds
  BY <1>1 DEF HandInv, TypeOK, Packets, VideoPacket, AudioPacket
<1>3. h \notin InferringFrames
  BY <1>1, <1>2 DEF WindowInv, PassedGates
<1>4. pub'.pc = "loop" /\ pub' \in [pc : PubPcs, packet : Packets]
  BY <1>1 DEF PubWaiting, PubPcs, Packets
<1>5. /\ DOMAIN frames' = DOMAIN frames \ {h}
      /\ \A f \in DOMAIN frames' : frames'[f] = frames[f]
  BY <1>1
<1>6. InferringFrames' = InferringFrames
  BY <1>3, <1>5 DEF InferringFrames, DecodedFrames
<1>7. TypeOK'
  <2>1. BufferTypeOK'
    BY <1>1, <1>5 DEF TypeOK, BufferTypeOK
  <2> QED
    BY <1>1, <1>4, <2>1 DEF TypeOK
<1>8. HandInv'
  BY <1>4 DEF HandInv
<1>9. PendingInv'
  BY <1>1, <1>5 DEF PendingInv, Low
<1>10. FrameInv'
  <2>1. OrderFollowsIds'
    BY <1>5 DEF FrameInv, OrderFollowsIds
  <2>2. IdleFramesNewest'
    BY <1>5 DEF FrameInv, IdleFramesNewest, DecodedFrames
  <2> QED
    BY <1>1, <1>5, <2>1, <2>2 DEF FrameInv, Low
<1>11. InferenceInv'
  BY <1>1, <1>6 DEF InferenceInv, UsingFrame
<1>12. WindowInv'
  BY <1>4 DEF WindowInv, PassedGates
<1> QED
  BY <1>1, <1>7, <1>8, <1>9, <1>10, <1>11, <1>12, QueueFrame

(* At the head of its loop and while it waits the publish thread has nothing in its hand. *)
LEMMA PublisherIdleStep == IndInv /\ (PublisherTop \/ WaitTimesOut) => IndInv'
<1> SUFFICES ASSUME IndInv, PublisherTop \/ WaitTimesOut PROVE IndInv'
  OBVIOUS
<1> USE DEF IndInv
<1>0. PubWaiting \in [pc : PubPcs, packet : Packets] /\ PubWaiting.pc = "loop"
  BY DEF PubWaiting, PubPcs, Packets
<1>1. /\ pub.pc \in {"loop", "wait"}
      /\ \/ \E pc \in {"exited", "wait"} : pub' = [pub EXCEPT !.pc = pc]
         \/ pub' = PubWaiting
      /\ UNCHANGED <<packets, videoCount, frames, nextPos, cached, stopped, puller, pending, nextId,
                     audioRead, reconnects, worker, entry, stopper, pullerStop, detector>>
  BY DEF PublisherTop, WaitTimesOut, bufferVars, pullerVars, controlVars
<1>2. pub'.pc \in {"exited", "wait", "loop"} /\ pub' \in [pc : PubPcs, packet : Packets]
  BY <1>0, <1>1 DEF TypeOK, PubPcs
<1>3. TypeOK'
  BY <1>1, <1>2 DEF TypeOK, BufferTypeOK
<1>4. FrameInv'
  BY <1>1, <1>2 DEF FrameInv, Low, OrderFollowsIds, IdleFramesNewest, DecodedFrames
<1>5. HandInv' /\ WindowInv'
  BY <1>2 DEF HandInv, WindowInv, PassedGates
<1> QED
  BY <1>1, <1>3, <1>4, <1>5, QueueFrame, PendingFrame, InferenceFrame

-----------------------------------------------------------------------------
(* stopStream. *)

(* The steps of the config thread and of stopStream leave packets and frames
   alone. *)
LEMMA StopperStep ==
    IndInv /\ (ListStream \/ UpdateStreamRuntime \/ UnlistStream \/ SetStopFlag \/ StopProgress) => IndInv'
<1> SUFFICES ASSUME IndInv,
                    ListStream \/ UpdateStreamRuntime \/ UnlistStream \/ SetStopFlag \/ StopProgress
             PROVE  IndInv'
  OBVIOUS
<1> USE DEF IndInv
<1>1. UNCHANGED <<packets, videoCount, frames, nextPos, cached, puller, pending, nextId,
                  audioRead, reconnects, worker, pub>>
  BY DEF ListStream, UpdateStreamRuntime, UnlistStream, SetStopFlag, StopProgress, StopCompute,
         ClosePublisher, RemoveFromScheduler, StopPuller, StopStreamBuffer,
     JoinPublisher, ReleaseDetector, StopBuffer, bufferVars, pullerVars
<1>2. stopped' \in BOOLEAN /\ (stopped' => puller.pc = "exited")
  <2>1. CASE StopStreamBuffer
    BY <2>1 DEF StopStreamBuffer, StopBuffer
  <2>2. CASE ~StopStreamBuffer
    <3>1. stopped' = stopped
      BY <2>2 DEF ListStream, UpdateStreamRuntime, UnlistStream, SetStopFlag, StopProgress, StopCompute,
         ClosePublisher, RemoveFromScheduler, StopPuller,
         JoinPublisher, ReleaseDetector, bufferVars
    <3> QED
      BY <3>1 DEF PendingInv, TypeOK, BufferTypeOK
  <2> QED
    BY <2>1, <2>2
<1>3. entry' = entry \/ entry' = [entry EXCEPT !.registered = FALSE]
  BY DEF ListStream, UpdateStreamRuntime, UnlistStream, SetStopFlag, StopProgress, StopCompute,
         ClosePublisher, RemoveFromScheduler, StopPuller, StopStreamBuffer,
     JoinPublisher, ReleaseDetector
<1>4. stopper' \in StopperPcs /\ pullerStop' \in BOOLEAN /\ detector' \in BOOLEAN
  BY DEF ListStream, UpdateStreamRuntime, UnlistStream, SetStopFlag, StopProgress, StopCompute,
         ClosePublisher, RemoveFromScheduler, StopPuller, StopStreamBuffer,
     JoinPublisher, ReleaseDetector, StopperGoto, StopperPcs, LivePcs, TypeOK
<1>5. TypeOK'
  <2>1. BufferTypeOK'
    BY <1>1, <1>2 DEF TypeOK, BufferTypeOK
  <2>2. entry' \in [registered : BOOLEAN, inflight : BOOLEAN]
    BY <1>3 DEF TypeOK
  <2> QED
    BY <1>1, <1>4, <2>1, <2>2 DEF TypeOK
<1>6. PendingInv'
  BY <1>1, <1>2 DEF PendingInv, Low
<1>7. InferenceInv'
  <2>1. entry'.registered /\ ~entry'.inflight => entry.registered /\ ~entry.inflight
    BY <1>3 DEF TypeOK
  <2> QED
    BY <1>1, <2>1 DEF InferenceInv, UsingFrame, InferringFrames, DecodedFrames
<1> QED
  BY <1>1, <1>5, <1>6, <1>7, QueueFrame, HandFrame, FrameFrame, WindowFrame

-----------------------------------------------------------------------------
(* A step that changes nothing keeps the invariant. *)
LEMMA StutterStep == IndInv /\ UNCHANGED vars => IndInv'
<1> SUFFICES ASSUME IndInv, UNCHANGED vars PROVE IndInv'
  OBVIOUS
<1>1. UNCHANGED <<packets, videoCount, frames, nextPos, cached, stopped, puller, pending, nextId,
                  audioRead, reconnects, worker, entry, pub, stopper, pullerStop, detector>>
  BY DEF vars, bufferVars, pullerVars, controlVars
<1>2. TypeOK'
  BY <1>1 DEF IndInv, TypeOK, BufferTypeOK
<1> QED
  BY <1>1, <1>2, QueueFrame, HandFrame, PendingFrame, FrameFrame, InferenceFrame, WindowFrame DEF IndInv

(* The invariant is inductive: one case per action. *)
LEMMA NextIndInv == IndInv /\ [Next]_vars => IndInv'
<1> SUFFICES ASSUME IndInv, [Next]_vars PROVE IndInv'
  OBVIOUS
<1>1. CASE Puller
  BY <1>1, PullVideoStep, PullAudioStep, MatchPendingStep, DeliverFrameStep, PullerIdleStep
  DEF Puller, PullerCompute
<1>2. CASE \E w \in Workers : Worker(w)
  BY <1>2, AcquireTaskStep, WorkerMarkStep, WorkerOtherStep DEF Worker
<1>3. CASE Publisher
  BY <1>3, WaitForPublishableStep, PeekPacketStep, TakeResultStep, PublisherPopStep,
     PublisherReleaseStep, PublisherIdleStep DEF Publisher, PublisherCompute
<1>4. CASE ListStream \/ UpdateStreamRuntime \/ UnlistStream \/ SetStopFlag \/ StopProgress
  BY <1>4, StopperStep
<1>5. CASE StreamDown \/ UNCHANGED vars
  BY <1>5, StutterStep DEF StreamDown
<1> QED
  BY <1>1, <1>2, <1>3, <1>4, <1>5 DEF Next

(* IndInv holds in every reachable state. *)
THEOREM Inductive == Spec => []IndInv
<1>1. Init => IndInv
  BY InitIndInv
<1>2. IndInv /\ [Next]_vars => IndInv'
  BY NextIndInv
<1> QED
  BY <1>1, <1>2, PTL DEF Spec
-----------------------------------------------------------------------------
(* What follows from it. *)

(* Type correctness of the stream's state. *)
THEOREM TypeCorrect == Spec => []TypeOK
BY Inductive, PTL DEF IndInv

(* A frame that an inference thread is using is never released by the publish
   thread, whatever the interleaving of the two. *)
THEOREM InUseFramesAreKept == Spec => []InUseFrameKept
<1>1. IndInv => InUseFrameKept
  BY DEF IndInv, InferenceInv, InUseFrameKept, InferringFrames, DecodedFrames
<1> QED
  BY <1>1, Inductive, PTL

(* The packet being published is not that of a frame in inference. *)
THEOREM PublishedNotInferring == Spec => []NotPublishingInferring
<1>1. IndInv => NotPublishingInferring
  <2> SUFFICES ASSUME IndInv, Publishing, pub.packet.id \in DecodedFrames
               PROVE  ~IsInferring(frames[pub.packet.id].infer_state)
    BY DEF NotPublishingInferring
  <2> DEFINE h == pub.packet.id
  <2>1. pub.packet = VideoPacket(h) /\ h \in FrameIds
    BY DEF IndInv, TypeOK, Publishing, Packets, VideoPacket, AudioPacket
  <2>2. h \notin InferringFrames
    BY <2>1 DEF IndInv, WindowInv, PassedGates, Publishing
  <2> QED
    BY <2>2 DEF InferringFrames
<1> QED
  BY <1>1, Inductive, PTL

(* frames_ holds no frame whose packet has left the queue, but for the one being
   released. *)
THEOREM FramesBelongToPackets == Spec => []FramesHavePackets
<1>1. IndInv => FramesHavePackets
  <2> SUFFICES ASSUME IndInv, NEW id \in DOMAIN frames,
                      ~(pub.pc = "release" /\ pub.packet.id = id)
               PROVE  \E i \in 1 .. Len(packets) : packets[i] = VideoPacket(id)
    BY DEF FramesHavePackets
  <2>1. id \in FrameIds /\ Low <= id /\ id < nextId
    BY DEF IndInv, TypeOK, BufferTypeOK, FrameInv
  <2> QED
    BY <2>1 DEF IndInv, QueueInv
<1> QED
  BY <1>1, Inductive, PTL

(* The images that still wait for inference are newer than all those it has taken or
   passed over. *)
THEOREM IdleFramesAreNewest == Spec => []IdleFramesNewest
<1>1. IndInv => IdleFramesNewest
  BY DEF IndInv, FrameInv
<1> QED
  BY <1>1, Inductive, PTL

(* Once there is a decoded frame in the buffer there always is one. *)
THEOREM DecodedFrameAlwaysRemains == Spec => DecodedFrameRemains
<1>1. IndInv /\ [Next]_vars => (DecodedFrames # {} => DecodedFrames' # {})
  <2> SUFFICES ASSUME IndInv, [Next]_vars, DecodedFrames # {} PROVE DecodedFrames' # {}
    OBVIOUS
  <2> USE DEF IndInv
  <2>1. CASE PublisherRelease
    <3> DEFINE h == pub.packet.id
    <3>1. pub.pc = "release" /\ frames' = [f \in DOMAIN frames \ {h} |-> frames[f]]
      BY <2>1 DEF PublisherRelease, ReleaseFrame
    <3>2. pub.packet = VideoPacket(h) /\ h \in FrameIds
      BY <3>1 DEF HandInv, TypeOK, Packets, VideoPacket, AudioPacket
    <3>3. h \in DOMAIN frames /\ (frames[h].decoded => \E g \in DecodedFrames : g > h)
      BY <3>1, <3>2 DEF WindowInv, PassedGates
    <3>4. PICK g \in DecodedFrames : g # h
      <4>1. CASE frames[h].decoded
        <5>1. h \in Int
          BY <3>2, BufferAssumption DEF FrameIds
        <5> QED
          BY <3>3, <4>1, <5>1
      <4>2. CASE ~frames[h].decoded
        BY <4>2 DEF DecodedFrames
      <4> QED
        BY <4>1, <4>2
    <3>5. g \in DOMAIN frames' /\ frames'[g].decoded
      BY <3>1, <3>4 DEF DecodedFrames
    <3> QED
      BY <3>5 DEF DecodedFrames
  <2>2. CASE DeliverFrame
    <3>1. PICK d \in BOOLEAN : EnqueueFrame(Head(pending), d)
      BY <2>2 DEF DeliverFrame
    <3>2. pending # <<>> /\ Head(pending) = pending[1] /\ 1 \in 1 .. Len(pending)
      BY <2>2 DEF DeliverFrame, PendingInv, TypeOK
    <3>3. \A f \in DOMAIN frames : f \in Int /\ f < Head(pending)
      BY <3>2, BufferAssumption DEF PendingInv, TypeOK, BufferTypeOK, FrameIds
    <3>4. \A f \in DOMAIN frames : f \in DOMAIN frames' /\ frames'[f] = frames[f]
      BY <3>1, <3>3 DEF EnqueueFrame
    <3> QED
      BY <3>4 DEF DecodedFrames
  <2>3. CASE \E w \in Workers : AcquireTask(w)
    <3>1. PICK w \in Workers, id \in IdleDecoded : SelectFrameForInference(id)
      BY <2>3 DEF AcquireTask
    <3>2. \A f \in DOMAIN frames : f \in DOMAIN frames' /\ frames'[f].decoded = frames[f].decoded
      BY <3>1 DEF SelectFrameForInference, TypeOK, BufferTypeOK, FrameBundles
    <3> QED
      BY <3>2 DEF DecodedFrames
  <2>4. CASE \E w \in Workers : WorkerMarkRunning(w) \/ WorkerMarkDone(w) \/ WorkerDrop(w)
    <3>1. PICK id, st : SetInferState(id, st)
      BY <2>4 DEF WorkerMarkRunning, WorkerMarkDone, WorkerDrop, MarkInferenceRunning,
         MarkInferenceDone, ClearInferenceSelection
    <3>2. \A f \in DOMAIN frames : f \in DOMAIN frames' /\ frames'[f].decoded = frames[f].decoded
      BY <3>1 DEF SetInferState, TypeOK, BufferTypeOK, FrameBundles
    <3> QED
      BY <3>2 DEF DecodedFrames
  <2>5. CASE UNCHANGED frames
    BY <2>5 DEF DecodedFrames
  <2> QED
    <3>1. CASE Puller
      BY <2>2, <2>5, <3>1 DEF Puller, PullerCompute, PullVideo, PullAudio, EnqueuePacket, MatchPending,
         OpenSource, StreamReady, DecodeDone, Reconnect, PullerGivesUp, PullerExit, bufferVars
    <3>2. CASE \E w \in Workers : Worker(w)
      BY <2>3, <2>4, <2>5, <3>2 DEF Worker, CheckStream, Detect, DetectorGone, WorkerUpdateCached,
         UpdateCachedInferenceResult, EndTask, bufferVars
    <3>3. CASE Publisher
      BY <2>1, <2>5, <3>3 DEF Publisher, PublisherCompute, WaitForPublishable, PeekPacket, TakeResult,
         TakeCachedInferenceResult, PublisherPop, PopPacket, PublisherTop, WaitTimesOut, bufferVars
    <3>4. CASE \/ ListStream \/ UpdateStreamRuntime \/ UnlistStream
               \/ SetStopFlag \/ StopProgress \/ StreamDown \/ UNCHANGED vars
      BY <2>5, <3>4 DEF ListStream, UpdateStreamRuntime, UnlistStream, SetStopFlag, StopProgress, StopCompute,
         ClosePublisher, RemoveFromScheduler, StopPuller, StopStreamBuffer,
         JoinPublisher, ReleaseDetector, StopBuffer, StreamDown, vars, bufferVars
    <3> QED
      BY <3>1, <3>2, <3>3, <3>4 DEF Next
<1> QED
  BY <1>1, Inductive, PTL DEF Spec, DecodedFrameRemains

(* A pop of a video packet leaves at least Watermark video packets queued. *)
THEOREM PopsKeepWatermark == Spec => PopKeepsWatermark
<1>1. IndInv /\ [Next]_vars => (videoCount' < videoCount => videoCount' >= Watermark)
  <2> SUFFICES ASSUME IndInv, [Next]_vars, videoCount' < videoCount PROVE videoCount' >= Watermark
    OBVIOUS
  <2> USE DEF IndInv
  <2>0. videoCount \in Nat /\ Watermark \in Nat
    BY BufferAssumption DEF TypeOK, BufferTypeOK
  <2>1. CASE PublisherPop
    <3>1. pub.pc = "pop" /\ packets # <<>> /\ pub.packet = Head(packets)
      BY <2>1 DEF PublisherPop, HandInv
    <3>2. Head(packets).media = "Video" /\ videoCount' = videoCount - 1
      BY <2>0, <2>1, <3>1 DEF PublisherPop, PopPacket
    <3>3. Low \in FrameIds /\ Head(packets) = VideoPacket(Low)
      BY <3>1, <3>2, HeadIsLow
    <3>4. videoCount > Watermark
      BY <3>1, <3>3 DEF WindowInv, PassedGates
    <3> QED
      BY <2>0, <3>2, <3>4
  <2>2. videoCount' = videoCount \/ videoCount' = videoCount + 1 \/ PublisherPop
    <3>1. CASE Puller
      BY <3>1 DEF Puller, PullerCompute, PullVideo, PullAudio, EnqueuePacket, MatchPending,
         DeliverFrame, EnqueueFrame, OpenSource, StreamReady, DecodeDone, Reconnect, PullerGivesUp, PullerExit, bufferVars
    <3>2. CASE \E w \in Workers : Worker(w)
      BY <3>2 DEF Worker, AcquireTask, SelectFrameForInference, WorkerMarkRunning, WorkerMarkDone,
         WorkerDrop, MarkInferenceRunning, MarkInferenceDone, ClearInferenceSelection, SetInferState,
         CheckStream, Detect, DetectorGone, WorkerUpdateCached, UpdateCachedInferenceResult, EndTask, bufferVars
    <3>3. CASE Publisher
      BY <3>3 DEF Publisher, PublisherCompute, WaitForPublishable, PeekPacket, TakeResult, TakeCachedInferenceResult,
         PublisherRelease, ReleaseFrame, PublisherTop, WaitTimesOut, bufferVars
    <3>4. CASE \/ ListStream \/ UpdateStreamRuntime \/ UnlistStream
               \/ SetStopFlag \/ StopProgress \/ StreamDown \/ UNCHANGED vars
      BY <3>4 DEF ListStream, UpdateStreamRuntime, UnlistStream, SetStopFlag, StopProgress, StopCompute,
         ClosePublisher, RemoveFromScheduler, StopPuller, StopStreamBuffer,
         JoinPublisher, ReleaseDetector, StopBuffer, StreamDown, vars, bufferVars
    <3> QED
      BY <3>1, <3>2, <3>3, <3>4 DEF Next
  <2> QED
    BY <2>0, <2>1, <2>2
<1> QED
  BY <1>1, Inductive, PTL DEF Spec, PopKeepsWatermark
=============================================================================
