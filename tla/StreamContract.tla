--------------------------- MODULE StreamContract ---------------------------
(***************************************************************************)
(* What one stream promises, without its threads, locks and states of      *)
(* inference: packets leave in the order in which they came, each once; a  *)
(* video packet leaves after its frame has come and takes it along; frames *)
(* come in the order of their packets; inference looks at ever newer       *)
(* images, one at a time; and no image is taken away while it is looked at *)
(* or while it is the only one.  StreamPipeline implements this module.    *)
(***************************************************************************)
EXTENDS Integers, Sequences

VARIABLES
    queue,    \* packets that have come and not left, oldest first
    next,     \* number of the next video packet
    aligned,  \* video packets whose frame has come and not gone
    images,   \* those of them whose frame has an image
    fresh,    \* the images inference may still look at
    using,    \* the image inference is looking at, if any
    leaving   \* the video packet that has left and not yet taken its frame along

vars == <<queue, next, aligned, images, fresh, using, leaving>>

Init ==
    /\ queue = <<>>
    /\ next = 0
    /\ aligned = {} /\ images = {} /\ fresh = {} /\ using = {} /\ leaving = {}

Waiting(id) == \E i \in 1 .. Len(queue) : queue[i].media = "Video" /\ queue[i].id = id

(* A video packet comes with the next number, any other packet with none. *)
Come(packet) ==
    /\ \/ packet.media = "Video" /\ packet.id = next /\ next' = next + 1
       \/ packet.media = "Audio" /\ next' = next
    /\ queue' = Append(queue, packet)
    /\ UNCHANGED <<aligned, images, fresh, using, leaving>>

(* The frame of a waiting packet comes, newer than every frame before it. *)
Align(id, hasImage) ==
    /\ Waiting(id)
    /\ \A f \in aligned : f < id
    /\ aligned' = aligned \cup {id}
    /\ images' = IF hasImage THEN images \cup {id} ELSE images
    /\ fresh' = IF hasImage THEN fresh \cup {id} ELSE fresh
    /\ UNCHANGED <<queue, next, using, leaving>>

(* Inference begins with the newest image, whose packet is still waiting, and
   never comes back to the images it has passed over. *)
BeginUse(id) ==
    /\ using = {}
    /\ id \in fresh /\ Waiting(id)
    /\ \A f \in images : f <= id
    /\ using' = {id}
    /\ fresh' = {}
    /\ UNCHANGED <<queue, next, aligned, images, leaving>>

EndUse ==
    /\ using # {}
    /\ using' = {}
    /\ UNCHANGED <<queue, next, aligned, images, fresh, leaving>>

(* The oldest packet leaves; a video packet only with its frame, and not while
   inference is looking at it. *)
Leave ==
    /\ queue # <<>> /\ leaving = {}
    /\ queue' = Tail(queue)
    /\ \/ /\ Head(queue).media = "Video"
          /\ Head(queue).id \in aligned \ using
          /\ leaving' = {Head(queue).id}
       \/ /\ Head(queue).media = "Audio"
          /\ leaving' = {}
    /\ UNCHANGED <<next, aligned, images, fresh, using>>

(* The frame follows its packet; an image remains if there was one. *)
Release ==
    /\ leaving # {} /\ leaving \cap using = {}
    /\ images # {} => images \ leaving # {}
    /\ aligned' = aligned \ leaving
    /\ images' = images \ leaving
    /\ fresh' = fresh \ leaving
    /\ leaving' = {}
    /\ UNCHANGED <<queue, next, using>>

Next ==
    \/ \E packet \in [media : {"Video", "Audio"}, id : {next, -1}] : Come(packet)
    \/ \E i \in 1 .. Len(queue), hasImage \in BOOLEAN : Align(queue[i].id, hasImage)
    \/ \E id \in fresh : BeginUse(id)
    \/ EndUse
    \/ Leave
    \/ Release

Spec == Init /\ [][Next]_vars
=============================================================================
