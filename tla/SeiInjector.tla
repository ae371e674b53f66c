---------------------------- MODULE SeiInjector ----------------------------
(***************************************************************************)
(* How src/stream/SeiInjector.cpp puts a message in front of a video       *)
(* packet: the SEI NAL unit, its emulation prevention and its framing, as  *)
(* functions on sequences of bytes.  The message itself is any sequence of *)
(* bytes; of its items only their number is modelled.  What a decoder must *)
(* find in the result is stated independently at the end.                  *)
(***************************************************************************)
EXTENDS Integers, Sequences, SequencesExt

CONSTANTS Bytes,        \* bound: bytes the checked messages are made of
          MaxMessage,   \* bound: length of the checked messages
          MaxLength,    \* bound: message lengths and NAL sizes whose coding is checked
          Counts        \* numbers of boxes and of texts whose coding is checked

ASSUME SeiAssumption == Bytes \subseteq 0 .. 255 /\ MaxMessage \in Nat /\ MaxLength \in Nat

-----------------------------------------------------------------------------
(* appendSeiLength() *)
SeiLength(value) == [i \in 1 .. value \div 255 |-> 255] \o <<value % 255>>

(* Faulty variant: the counter of zeros is not reset by the inserted byte. *)
EscapeNoReset(state, byte) ==
    LET escape == state.zeros >= 2 /\ byte <= 3 IN
    [out   |-> state.out \o (IF escape THEN <<3>> ELSE <<>>) \o <<byte>>,
     zeros |-> IF byte = 0 THEN state.zeros + 1 ELSE 0]

(* One round of toEbsp()'s loop: after two zero bytes a byte up to 3 is escaped. *)
Escape(state, byte) ==
    LET escape == state.zeros >= 2 /\ byte <= 3
        zeros == IF escape THEN 0 ELSE state.zeros
    IN  [out   |-> state.out \o (IF escape THEN <<3>> ELSE <<>>) \o <<byte>>,
         zeros |-> IF byte = 0 THEN zeros + 1 ELSE 0]

ToEbsp(rbsp) == FoldLeft(Escape, [out |-> <<>>, zeros |-> 0], rbsp).out

(* buildH264SeiNal() and buildH265SeiNal(): payload type 5, size, payload, stop bit. *)
SeiRbsp(payload) == SeiLength(5) \o SeiLength(Len(payload)) \o payload \o <<128>>
SeiHeader(codec) == IF codec = "H265" THEN <<39 * 2, 1>> ELSE <<6>>
SeiNal(codec, payload) == SeiHeader(codec) \o ToEbsp(SeiRbsp(payload))

(* appendNalLength(): big-endian. *)
NalLength(value, size) == [i \in 1 .. size |-> (value \div 256 ^ (size - i)) % 256]

ToAnnexBNal(nal) == <<0, 0, 0, 1>> \o nal

(* toLengthPrefixedNal(): nothing if the length does not fit. *)
ToLengthPrefixedNal(nal, size) ==
    IF size \notin 1 .. 4 \/ (size < 4 /\ Len(nal) >= 256 ^ size) THEN <<>>
    ELSE NalLength(Len(nal), size) \o nal

IsAnnexB(data) ==
    /\ Len(data) >= 4
    /\ \/ SubSeq(data, 1, 4) = <<0, 0, 0, 1>>
       \/ SubSeq(data, 1, 3) = <<0, 0, 1>>

(* inject(): the packet that is published instead of data. *)
Inject(data, codec, size, payload) ==
    LET nal == SeiNal(codec, payload)
        sei == IF IsAnnexB(data) THEN ToAnnexBNal(nal) ELSE ToLengthPrefixedNal(nal, size)
    IN  sei \o data

Capped(n) == IF n > 255 THEN 255 ELSE n

(* buildMspV1UserDataPayload(): the items written for so many boxes and texts, and
   the count in front of them, a byte incremented once per item. *)
MspItems(boxes, texts) ==
    LET free == 255 - Capped(boxes)
    IN  Capped(boxes) + (IF Capped(texts) < free THEN Capped(texts) ELSE free)
MspItemCount(boxes, texts) == MspItems(boxes, texts) % 256

-----------------------------------------------------------------------------
(* What a decoder does. *)

StartsCode(s, i) == i + 2 <= Len(s) /\ SubSeq(s, i, i + 2) = <<0, 0, 1>>
StartCodes(s) == {i \in 1 .. Len(s) : StartsCode(s, i)}

IsEscape(s, i) == i > 2 /\ s[i] = 3 /\ s[i - 1] = 0 /\ s[i - 2] = 0
Escapes(s, i) == Cardinality({j \in 1 .. i : IsEscape(s, j)})

(* rbsp is what is left of ebsp without its escape bytes. *)
Unescapes(ebsp, rbsp) ==
    /\ Len(ebsp) - Escapes(ebsp, Len(ebsp)) = Len(rbsp)
    /\ \A i \in DOMAIN ebsp : IsEscape(ebsp, i) \/ ebsp[i] = rbsp[i - Escapes(ebsp, i)]

Value(s) == FoldLeft(LAMBDA v, b : 256 * v + b, 0, s)
Sum(s) == FoldLeft(LAMBDA v, b : v + b, 0, s)

Messages == UNION {[1 .. n -> Bytes] : n \in 0 .. MaxMessage}
Codecs == {"H264", "H265"}

(* A picture in Annex B, and one with lengths of size bytes. *)
AnnexBPicture == <<0, 0, 0, 1, 101, 0, 0, 3, 1>>
Picture(size) == NalLength(5, size) \o <<101, 0, 0, 3, 1>>

(* The NAL unit contains no start code and gives back the message without its escape
   bytes. *)
Unescaped ==
    \A codec \in Codecs, m \in Messages :
        LET nal == SeiNal(codec, m) IN
        /\ Unescapes(ToEbsp(SeiRbsp(m)), SeiRbsp(m))
        /\ \A i \in 1 .. Len(nal) - 2 : ~(nal[i] = 0 /\ nal[i+1] = 0 /\ nal[i+2] \in 0 .. 2)

(* The only start codes are its own and the picture's; a length is the unit's size,
   and the picture follows. *)
Framed ==
    \A codec \in Codecs, m \in Messages :
        LET nal == SeiNal(codec, m) IN
        /\ StartCodes(Inject(AnnexBPicture, codec, 0, m)) = {2, Len(nal) + 6}
        /\ \A size \in 1 .. 4 :
              LET packet == Inject(Picture(size), codec, size, m) IN
              /\ Value(SubSeq(packet, 1, size)) = Len(nal)
              /\ SubSeq(packet, size + Len(nal) + 1, Len(packet)) = Picture(size)

(* The size of the message can be read back: bytes of 255, then one that is not. *)
Sized ==
    \A n \in 0 .. MaxLength :
        LET coded == SeiLength(n) IN
        /\ Sum(coded) = n
        /\ \A i \in DOMAIN coded : coded[i] = 255 <=> i < Len(coded)

(* The count is that of the items that follow. *)
Counted == \A boxes, texts \in Counts : MspItemCount(boxes, texts) = MspItems(boxes, texts)
=============================================================================
