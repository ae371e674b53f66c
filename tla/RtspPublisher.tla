--------------------------- MODULE RtspPublisher ---------------------------
(***************************************************************************)
(* The output session of one stream: src/stream/RtspPublisher.cpp.  Every  *)
(* method holds mutex_ for its whole body, so every operator is one step.  *)
(***************************************************************************)
EXTENDS Integers

VARIABLES
    url,       \* output_url_ is set
    layout,    \* input_streams_
    session    \* configured_ with format_context_: a session is open

publisherVars == <<url, layout, session>>

PublisherInit ==
    /\ url = FALSE
    /\ layout = <<>>
    /\ session = FALSE

(* configure() with a URL: a session that is open is closed first. *)
PublisherConfigure(s, opens) ==
    /\ url' = TRUE
    /\ layout' = s
    /\ session' = opens

(* writePacketLocked() can succeed only for a packet that has a track. *)
Writable(track) == session /\ track \in DOMAIN layout

(* writePacket(): a failed write closes the session and opens it again, once; if
   that fails the publisher stays closed until the next configure(). *)
PublisherWrite(track) ==
    /\ \/ ~session /\ UNCHANGED session
       \/ Writable(track) /\ UNCHANGED session
       \/ session /\ session' \in BOOLEAN
    /\ UNCHANGED <<url, layout>>

PublisherClose ==
    /\ url' = FALSE
    /\ layout' = <<>>
    /\ session' = FALSE
=============================================================================
