-------------------------- MODULE MCCapturePipeline --------------------------
(* Instances of CapturePipeline for TLC.                                   *)
EXTENDS CapturePipeline
=============================================================================
