-------------------------- MODULE MCInferScheduler --------------------------
(* Instances of InferScheduler for TLC. *)
EXTENDS InferScheduler
=============================================================================
