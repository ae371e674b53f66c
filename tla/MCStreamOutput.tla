--------------------------- MODULE MCStreamOutput ---------------------------
(* Instances of StreamOutput for TLC. *)
EXTENDS StreamOutput, SeiInjector

Video(codec, nal) == [media |-> "video", codec |-> codec, nal |-> nal]
Audio == [media |-> "audio", codec |-> "none", nal |-> 0]

(* H.264 in Annex B, as RTSP sources send it; HEVC with four-byte and H.264 with
   two-byte lengths.  Only one has audio: to the outputs of the others its track 1
   is unknown. *)
H264AnnexB == 0 :> Video("h264", 0)
HevcWithAudio == (0 :> Video("hevc", 4)) @@ (1 :> Audio)
H264Short == 0 :> Video("h264", 2)

MCSpecs == {H264AnnexB, HevcWithAudio, H264Short}

(* A decoder finds the message in the published packet and the picture behind it,
   whatever zeros are in the message, however long it is and however many items
   there are.  That does not depend on the state: it is evaluated before the first
   step. *)
SeiReadable == Init => Unescaped /\ Framed /\ Sized /\ Counted
=============================================================================
