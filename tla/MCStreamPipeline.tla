-------------------------- MODULE MCStreamPipeline --------------------------
(* Instances of StreamPipeline for TLC. *)
EXTENDS StreamPipeline, TLC

(* Frames two time units apart; the second has no pts. *)
MCPts == [id \in FrameIds |-> IF id = 1 THEN -1 ELSE 2 * id]

Symmetry == Permutations(Workers)

(* Bound: audio packets and reconnects together. *)
MaxDisturbances == 1
Bounded == audioRead + reconnects <= MaxDisturbances
=============================================================================
