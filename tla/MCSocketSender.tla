--------------------------- MODULE MCSocketSender ---------------------------
(* SocketSender on small instances; see the .cfg files for the values. *)
EXTENDS SocketSender

(* The payload of frame 1 is as long as the whole of frame 2. *)
MCPayloadLen == <<3, 1>>
=============================================================================
